----------------------------- MODULE ProgressProofs -----------------------------
(***************************************************************************)
(* What the outbox example, the choice of a WebTransport, the hibernating    *)
(* RPC sockets and the fetches of a Worker promise, for any number of saves, *)
(* crashes, late writes, candidates, sockets, requests and evictions.  The   *)
(* outbox: a saved revision keeps its alarm until R2 holds it, R2 holds      *)
(* nothing else.  The choice:                                                *)
(* one session at a time, none that outlives its scope, and an interruption  *)
(* that ends it.  The sockets: an object that is evicted between any two     *)
(* steps goes on with them (SocketsSurviveHibernation).  The fetches: what   *)
(* an event owns lasts as long as its body, whenever clients leave.          *)
(*                                                                           *)
(* Then what is scoped: the streams of a WebTransport, the merged logs and   *)
(* the readiness of a container, the steps of a workflow and the runs of a   *)
(* workspace, each an instance with variables of its own, for any number of  *)
(* streams, chunks, probes, steps, attempts and interrupts.  And the remote  *)
(* clients: processes, files and named sandboxes and containers; and the     *)
(* socket over WebTransport, with its readers and writers.                   *)
(***************************************************************************)
EXTENDS Outbox, TransportSelect, RpcWebSocket, WorkerFetch, TLAPS, SequenceTheorems, FiniteSetTheorems,
        WellFoundedInduction

(* The stored snapshot, the history and the alarm rows tell the same story.        *)
Consistent ==
  \A r \in Revisions :
    /\ saved[r] # NoBody <=> r <= document.revision
    /\ payload[r] = saved[r]
    /\ work[r] = "pending" => saved[r] # NoBody

(* A handler runs for a saved revision; past its first step it has written the     *)
(* alarm itself, and what it heard from R2 is true.                                *)
Handled ==
  \A r \in Revisions :
    /\ handler[r] # "none" => saved[r] # NoBody
    /\ handler[r] \in {"put", "await", "exit"} => attempt[r] = "stale"
    /\ answer[r] = "stored" => bucket[r] # NoBody

OutboxIInv == TypeOK /\ Consistent /\ Handled /\ DeliveryIsOwed /\ ArchiveIsTrue

LEMMA OutboxInitOK == Init => OutboxIInv
BY OutboxAssumption
   DEF Init, OutboxIInv, TypeOK, Consistent, Handled, DeliveryIsOwed, ArchiveIsTrue, Revisions

LEMMA SaveOK == ASSUME OutboxIInv, NEW b \in Bodies, Save(b) PROVE OutboxIInv'
<1> DEFINE r == document.revision + 1
<1>1. r \in Revisions /\ saved[r] = NoBody /\ bucket[r] = NoBody
  BY OutboxAssumption DEF OutboxIInv, TypeOK, Consistent, ArchiveIsTrue, Save, Revisions
<1>2. /\ document' = [revision |-> r, body |-> b]
      /\ saved' = [saved EXCEPT ![r] = b] /\ payload' = [payload EXCEPT ![r] = b]
      /\ work' = [work EXCEPT ![r] = "pending"]
      /\ attempt' = [attempt EXCEPT ![r] = IF @ = "none" THEN "none" ELSE "stale"]
      /\ UNCHANGED <<handler, bucket, late, answer, crashes>>
  BY DEF Save, Unwritten
<1>3. handler[r] = "none"
  BY <1>1 DEF OutboxIInv, Handled
<1> HIDE DEF r
<1>4. TypeOK'
  BY <1>1, <1>2, <1>3, OutboxAssumption DEF OutboxIInv, TypeOK, Revisions
<1>5. Consistent'
  BY <1>1, <1>2, OutboxAssumption DEF OutboxIInv, TypeOK, Consistent, Revisions, r
<1>6. Handled'
  BY <1>1, <1>2, <1>3, OutboxAssumption DEF OutboxIInv, TypeOK, Handled, Revisions
<1>7. DeliveryIsOwed' /\ ArchiveIsTrue'
  BY <1>1, <1>2, OutboxAssumption DEF OutboxIInv, TypeOK, DeliveryIsOwed, ArchiveIsTrue, Revisions
<1>8. QED
  BY <1>4, <1>5, <1>6, <1>7 DEF OutboxIInv

-----------------------------------------------------------------------------
LEMMA DeliverOK == ASSUME OutboxIInv, NEW r \in Revisions, Deliver(r) PROVE OutboxIInv'
<1>1. TypeOK'
  BY OutboxAssumption DEF OutboxIInv, TypeOK, Deliver
<1>2. Consistent'
  BY DEF OutboxIInv, TypeOK, Consistent, Deliver
<1>3. Handled'
  BY DEF OutboxIInv, TypeOK, Consistent, Handled, Deliver
<1>4. DeliveryIsOwed'
  BY DEF OutboxIInv, TypeOK, Consistent, Handled, DeliveryIsOwed, Deliver
<1>5. ArchiveIsTrue'
  BY DEF OutboxIInv, TypeOK, Consistent, ArchiveIsTrue, Deliver
<1>6. QED
  BY <1>1, <1>2, <1>3, <1>4, <1>5 DEF OutboxIInv

LEMMA RescheduleOK == ASSUME OutboxIInv, NEW r \in Revisions, Reschedule(r) PROVE OutboxIInv'
<1>1. TypeOK'
  BY OutboxAssumption DEF OutboxIInv, TypeOK, Reschedule, Unwritten
<1>2. Consistent'
  BY DEF OutboxIInv, TypeOK, Consistent, Handled, Reschedule, Unwritten
<1>3. Handled'
  BY DEF OutboxIInv, TypeOK, Consistent, Handled, Reschedule, Unwritten
<1>4. DeliveryIsOwed'
  BY DEF OutboxIInv, TypeOK, Consistent, Handled, DeliveryIsOwed, Reschedule, Unwritten
<1>5. ArchiveIsTrue'
  BY DEF OutboxIInv, TypeOK, Consistent, ArchiveIsTrue, Reschedule, Unwritten
<1>6. QED
  BY <1>1, <1>2, <1>3, <1>4, <1>5 DEF OutboxIInv

LEMMA PutOK == ASSUME OutboxIInv, NEW r \in Revisions, Put(r) PROVE OutboxIInv'
<1>1. TypeOK'
  BY OutboxAssumption DEF OutboxIInv, TypeOK, Put
<1>2. Consistent'
  BY DEF OutboxIInv, TypeOK, Consistent, Put
<1>3. Handled'
  BY DEF OutboxIInv, TypeOK, Consistent, Handled, Put
<1>4. DeliveryIsOwed'
  BY DEF OutboxIInv, TypeOK, Consistent, Handled, DeliveryIsOwed, Put
<1>5. ArchiveIsTrue'
  BY DEF OutboxIInv, TypeOK, Consistent, ArchiveIsTrue, Put
<1>6. QED
  BY <1>1, <1>2, <1>3, <1>4, <1>5 DEF OutboxIInv

LEMMA AnswerOK == ASSUME OutboxIInv, NEW r \in Revisions, NEW h \in {"stored", "failed"}, NEW s \in BOOLEAN, NEW l \in BOOLEAN, Answer(r, h, s, l) PROVE OutboxIInv'
<1>1. TypeOK'
  BY OutboxAssumption DEF OutboxIInv, TypeOK, Answer
<1>2. Consistent'
  BY DEF OutboxIInv, TypeOK, Consistent, Answer
<1>3. Handled'
  BY DEF OutboxIInv, TypeOK, Consistent, Handled, Answer
<1>4. DeliveryIsOwed'
  BY DEF OutboxIInv, TypeOK, Consistent, Handled, DeliveryIsOwed, Answer
<1>5. ArchiveIsTrue'
  BY DEF OutboxIInv, TypeOK, Consistent, ArchiveIsTrue, Answer
<1>6. QED
  BY <1>1, <1>2, <1>3, <1>4, <1>5 DEF OutboxIInv

LEMMA LandOK == ASSUME OutboxIInv, NEW r \in Revisions, Land(r) PROVE OutboxIInv'
<1>1. TypeOK'
  BY OutboxAssumption DEF OutboxIInv, TypeOK, Land
<1>2. Consistent'
  BY DEF OutboxIInv, TypeOK, Consistent, Land
<1>3. Handled'
  BY DEF OutboxIInv, TypeOK, Consistent, Handled, ArchiveIsTrue, Land
<1>4. DeliveryIsOwed'
  BY DEF OutboxIInv, TypeOK, Consistent, Handled, DeliveryIsOwed, Land
<1>5. ArchiveIsTrue'
  BY DEF OutboxIInv, TypeOK, Consistent, ArchiveIsTrue, Land
<1>6. QED
  BY <1>1, <1>2, <1>3, <1>4, <1>5 DEF OutboxIInv

LEMMA CancelOK == ASSUME OutboxIInv, NEW r \in Revisions, Cancel(r) PROVE OutboxIInv'
<1>1. TypeOK'
  BY OutboxAssumption DEF OutboxIInv, TypeOK, Cancel, Unwritten
<1>2. Consistent'
  BY DEF OutboxIInv, TypeOK, Consistent, Cancel, Unwritten
<1>3. Handled'
  BY DEF OutboxIInv, TypeOK, Consistent, Handled, Cancel, Unwritten
<1>4. DeliveryIsOwed'
  BY DEF OutboxIInv, TypeOK, Consistent, Handled, DeliveryIsOwed, Cancel, Unwritten
<1>5. ArchiveIsTrue'
  BY DEF OutboxIInv, TypeOK, Consistent, ArchiveIsTrue, Cancel, Unwritten
<1>6. QED
  BY <1>1, <1>2, <1>3, <1>4, <1>5 DEF OutboxIInv

LEMMA FailOK == ASSUME OutboxIInv, NEW r \in Revisions, Fail(r) PROVE OutboxIInv'
<1>1. TypeOK'
  BY OutboxAssumption DEF OutboxIInv, TypeOK, Fail
<1>2. Consistent'
  BY DEF OutboxIInv, TypeOK, Consistent, Fail
<1>3. Handled'
  BY DEF OutboxIInv, TypeOK, Consistent, Handled, Fail
<1>4. DeliveryIsOwed'
  BY DEF OutboxIInv, TypeOK, Consistent, Handled, DeliveryIsOwed, Fail
<1>5. ArchiveIsTrue'
  BY DEF OutboxIInv, TypeOK, Consistent, ArchiveIsTrue, Fail
<1>6. QED
  BY <1>1, <1>2, <1>3, <1>4, <1>5 DEF OutboxIInv

LEMMA SettleOK == ASSUME OutboxIInv, NEW r \in Revisions, Settle(r) PROVE OutboxIInv'
<1>1. TypeOK'
  BY OutboxAssumption DEF OutboxIInv, TypeOK, Settle
<1>2. Consistent'
  BY DEF OutboxIInv, TypeOK, Consistent, Handled, Settle
<1>3. Handled'
  BY DEF OutboxIInv, TypeOK, Consistent, Handled, Settle
<1>4. DeliveryIsOwed'
  BY DEF OutboxIInv, TypeOK, Consistent, Handled, DeliveryIsOwed, Settle
<1>5. ArchiveIsTrue'
  BY DEF OutboxIInv, TypeOK, Consistent, ArchiveIsTrue, Settle
<1>6. QED
  BY <1>1, <1>2, <1>3, <1>4, <1>5 DEF OutboxIInv

LEMMA CrashOK == ASSUME OutboxIInv, Crash PROVE OutboxIInv'
<1>1. TypeOK'
  BY OutboxAssumption DEF OutboxIInv, TypeOK, Crash
<1>2. Consistent'
  BY DEF OutboxIInv, TypeOK, Consistent, Crash
<1>3. Handled'
  BY DEF OutboxIInv, TypeOK, Consistent, Handled, Crash
<1>4. DeliveryIsOwed'
  BY DEF OutboxIInv, TypeOK, Consistent, Handled, DeliveryIsOwed, Crash
<1>5. ArchiveIsTrue'
  BY DEF OutboxIInv, TypeOK, Consistent, ArchiveIsTrue, Crash
<1>6. QED
  BY <1>1, <1>2, <1>3, <1>4, <1>5 DEF OutboxIInv

LEMMA OutboxStutterOK == ASSUME OutboxIInv, UNCHANGED vars PROVE OutboxIInv'
BY DEF vars, OutboxIInv, TypeOK, Consistent, Handled, DeliveryIsOwed, ArchiveIsTrue

LEMMA OutboxInvariance == Spec => []OutboxIInv
<1>1. OutboxIInv /\ [Next]_vars => OutboxIInv'
  BY SaveOK, DeliverOK, RescheduleOK, PutOK, AnswerOK, LandOK, CancelOK, FailOK, SettleOK, CrashOK, OutboxStutterOK
     DEF Next, Step
<1>2. QED
  BY OutboxInitOK, <1>1, PTL DEF Spec

-----------------------------------------------------------------------------
(* Every variable keeps its domain, and a handler runs in an attempt only. *)
THEOREM OutboxTypeCorrect == Spec => []TypeOK
BY OutboxInvariance, PTL DEF OutboxIInv

(* A saved revision that R2 does not hold has a pending alarm: no crash, failure  *)
(* or late answer loses the delivery.                                             *)
THEOREM DeliveryStaysOwed == Spec => []DeliveryIsOwed
BY OutboxInvariance, PTL DEF OutboxIInv

(* R2 never holds anything but the body its revision was first saved with.        *)
THEOREM ArchiveStaysTrue == Spec => []ArchiveIsTrue
BY OutboxInvariance, PTL DEF OutboxIInv

(* Both, with the types, at every crash: for any bodies, saves and crashes.       *)
THEOREM OutboxStaysSafe == Spec => []OutboxIsSafe
BY OutboxTypeCorrect, DeliveryStaysOwed, ArchiveStaysTrue, PTL DEF OutboxIsSafe

-----------------------------------------------------------------------------
\* Candidates after the present one are untouched, and so is this one before it is
\* constructed.
Untouched ==
    \A c \in Candidates : (c > candidate \/ (c = candidate /\ phase = "trying")) => native[c] = "none"

\* Scopes of earlier candidates own nothing, and a live session is owned.
OwnedHere ==
    /\ owned \subseteq {candidate}
    /\ phase \in {"trying", "closed", "exhausted", "interrupted"} => owned = {}
    /\ phase = "handshake" => candidate \in owned
    /\ \A c \in Candidates : Live(c) => c = candidate /\ candidate \in owned

\* The surrounding scope closes after the choice, an interruption leads to its end.
Stages ==
    /\ outer # "open" => phase \in {"pinned", "exhausted", "interrupted"}
    /\ outer = "closed" => owned = {}
    /\ exit = "interrupt" => phase \in {"closing", "closed", "interrupted"}

SelectIInv == SelectTypeOK /\ Untouched /\ OwnedHere /\ Stages

LEMMA SelectInitOK == SelectInit => SelectIInv
BY CandidatesAssumption
   DEF SelectInit, SelectIInv, SelectTypeOK, Untouched, OwnedHere, Stages, Candidates, Phases, Natives, Over, Live

LEMMA ConstructFailsOK == ASSUME SelectIInv, ConstructFails PROVE SelectIInv'
<1>1. SelectTypeOK'
  BY CandidatesAssumption DEF SelectIInv, SelectTypeOK, Candidates, Phases, Natives, Over, Live, ConstructFails, Continue, More
<1>2. Untouched'
  BY CandidatesAssumption DEF SelectIInv, SelectTypeOK, Untouched, OwnedHere, Candidates, Live, ConstructFails, Continue, More
<1>3. OwnedHere'
  BY CandidatesAssumption DEF SelectIInv, SelectTypeOK, Untouched, OwnedHere, Stages, Candidates, Live, ConstructFails, Continue, More
<1>4. Stages'
  BY DEF SelectIInv, SelectTypeOK, OwnedHere, Stages, ConstructFails, Continue, More
<1>5. QED
  BY <1>1, <1>2, <1>3, <1>4 DEF SelectIInv

LEMMA ConstructOK == ASSUME SelectIInv, Construct PROVE SelectIInv'
<1>1. SelectTypeOK'
  BY CandidatesAssumption DEF SelectIInv, SelectTypeOK, Candidates, Phases, Natives, Over, Live, Construct, OwnedAtOnce
<1>2. Untouched'
  BY CandidatesAssumption DEF SelectIInv, SelectTypeOK, Untouched, OwnedHere, Candidates, Live, Construct, OwnedAtOnce
<1>3. OwnedHere'
  BY CandidatesAssumption DEF SelectIInv, SelectTypeOK, Untouched, OwnedHere, Stages, Candidates, Live, Construct, OwnedAtOnce
<1>4. Stages'
  BY DEF SelectIInv, SelectTypeOK, OwnedHere, Stages, Construct, OwnedAtOnce
<1>5. QED
  BY <1>1, <1>2, <1>3, <1>4 DEF SelectIInv

LEMMA PinWebSocketOK == ASSUME SelectIInv, PinWebSocket PROVE SelectIInv'
<1>1. SelectTypeOK'
  BY CandidatesAssumption DEF SelectIInv, SelectTypeOK, Candidates, Phases, Natives, Over, Live, PinWebSocket
<1>2. Untouched'
  BY CandidatesAssumption DEF SelectIInv, SelectTypeOK, Untouched, OwnedHere, Candidates, Live, PinWebSocket
<1>3. OwnedHere'
  BY CandidatesAssumption DEF SelectIInv, SelectTypeOK, Untouched, OwnedHere, Stages, Candidates, Live, PinWebSocket
<1>4. Stages'
  BY DEF SelectIInv, SelectTypeOK, OwnedHere, Stages, PinWebSocket
<1>5. QED
  BY <1>1, <1>2, <1>3, <1>4 DEF SelectIInv

LEMMA PinOK == ASSUME SelectIInv, Pin PROVE SelectIInv'
<1>1. SelectTypeOK'
  BY CandidatesAssumption DEF SelectIInv, SelectTypeOK, Candidates, Phases, Natives, Over, Live, Pin
<1>2. Untouched'
  BY CandidatesAssumption DEF SelectIInv, SelectTypeOK, Untouched, OwnedHere, Candidates, Live, Pin
<1>3. OwnedHere'
  BY CandidatesAssumption DEF SelectIInv, SelectTypeOK, Untouched, OwnedHere, Stages, Candidates, Live, Pin
<1>4. Stages'
  BY DEF SelectIInv, SelectTypeOK, OwnedHere, Stages, Pin
<1>5. QED
  BY <1>1, <1>2, <1>3, <1>4 DEF SelectIInv

LEMMA HandshakeFailsOK == ASSUME SelectIInv, HandshakeFails PROVE SelectIInv'
<1>1. SelectTypeOK'
  BY CandidatesAssumption DEF SelectIInv, SelectTypeOK, Candidates, Phases, Natives, Over, Live, HandshakeFails, CloseCandidate
<1>2. Untouched'
  BY CandidatesAssumption DEF SelectIInv, SelectTypeOK, Untouched, OwnedHere, Candidates, Live, HandshakeFails, CloseCandidate
<1>3. OwnedHere'
  BY CandidatesAssumption DEF SelectIInv, SelectTypeOK, Untouched, OwnedHere, Stages, Candidates, Live, HandshakeFails, CloseCandidate
<1>4. Stages'
  BY DEF SelectIInv, SelectTypeOK, OwnedHere, Stages, HandshakeFails, CloseCandidate
<1>5. QED
  BY <1>1, <1>2, <1>3, <1>4 DEF SelectIInv

LEMMA TimesOutOK == ASSUME SelectIInv, TimesOut PROVE SelectIInv'
<1>1. SelectTypeOK'
  BY CandidatesAssumption DEF SelectIInv, SelectTypeOK, Candidates, Phases, Natives, Over, Live, TimesOut, CloseCandidate, MayTimeOut
<1>2. Untouched'
  BY CandidatesAssumption DEF SelectIInv, SelectTypeOK, Untouched, OwnedHere, Candidates, Live, TimesOut, CloseCandidate, MayTimeOut
<1>3. OwnedHere'
  BY CandidatesAssumption DEF SelectIInv, SelectTypeOK, Untouched, OwnedHere, Stages, Candidates, Live, TimesOut, CloseCandidate, MayTimeOut
<1>4. Stages'
  BY DEF SelectIInv, SelectTypeOK, OwnedHere, Stages, TimesOut, CloseCandidate, MayTimeOut
<1>5. QED
  BY <1>1, <1>2, <1>3, <1>4 DEF SelectIInv

LEMMA InterruptOK == ASSUME SelectIInv, InterruptSelect PROVE SelectIInv'
<1>1. SelectTypeOK'
  BY CandidatesAssumption DEF SelectIInv, SelectTypeOK, Candidates, Phases, Natives, Over, Live, InterruptSelect, CloseCandidate
<1>2. Untouched'
  BY CandidatesAssumption DEF SelectIInv, SelectTypeOK, Untouched, OwnedHere, Candidates, Live, InterruptSelect, CloseCandidate
<1>3. OwnedHere'
  BY CandidatesAssumption DEF SelectIInv, SelectTypeOK, Untouched, OwnedHere, Stages, Candidates, Live, InterruptSelect, CloseCandidate
<1>4. Stages'
  BY DEF SelectIInv, SelectTypeOK, OwnedHere, Stages, InterruptSelect, CloseCandidate
<1>5. QED
  BY <1>1, <1>2, <1>3, <1>4 DEF SelectIInv

LEMMA CandidateClosedOK == ASSUME SelectIInv, CandidateClosed PROVE SelectIInv'
<1>1. SelectTypeOK'
  BY CandidatesAssumption DEF SelectIInv, SelectTypeOK, Candidates, Phases, Natives, Over, Live, CandidateClosed, ClosedSettled
<1>2. Untouched'
  BY CandidatesAssumption DEF SelectIInv, SelectTypeOK, Untouched, OwnedHere, Candidates, Live, CandidateClosed, ClosedSettled
<1>3. OwnedHere'
  BY CandidatesAssumption DEF SelectIInv, SelectTypeOK, Untouched, OwnedHere, Stages, Candidates, Live, CandidateClosed, ClosedSettled
<1>4. Stages'
  BY DEF SelectIInv, SelectTypeOK, OwnedHere, Stages, CandidateClosed, ClosedSettled
<1>5. QED
  BY <1>1, <1>2, <1>3, <1>4 DEF SelectIInv

LEMMA ProceedOK == ASSUME SelectIInv, Proceed PROVE SelectIInv'
<1>1. SelectTypeOK'
  <2>1. native' \in [Candidates -> Natives] /\ owned' \subseteq Candidates /\ outer' = outer
    BY DEF SelectIInv, SelectTypeOK, Proceed
  <2>2. CASE Caught
    <3>1. candidate' \in Candidates /\ phase' \in Phases
      BY <2>2, CandidatesAssumption DEF SelectIInv, SelectTypeOK, Candidates, Phases, Proceed, Continue, More
    <3>2. failures' \subseteq Candidates /\ exit' = "none"
      BY <2>2 DEF SelectIInv, SelectTypeOK, Proceed, Continue
    <3>3. QED
      BY <2>1, <3>1, <3>2 DEF SelectIInv, SelectTypeOK
  <2>3. CASE ~ Caught
    BY <2>1, <2>3 DEF SelectIInv, SelectTypeOK, Phases, Proceed
  <2>4. QED
    BY <2>2, <2>3
<1>2. Untouched'
  BY CandidatesAssumption DEF SelectIInv, SelectTypeOK, Untouched, OwnedHere, Candidates, Live, Proceed, Continue, More, Caught
<1>3. OwnedHere'
  BY CandidatesAssumption DEF SelectIInv, SelectTypeOK, Untouched, OwnedHere, Stages, Candidates, Live, Proceed, Continue, More, Caught
<1>4. Stages'
  BY DEF SelectIInv, SelectTypeOK, OwnedHere, Stages, Proceed, Continue, More, Caught
<1>5. QED
  BY <1>1, <1>2, <1>3, <1>4 DEF SelectIInv

LEMMA CloseOuterOK == ASSUME SelectIInv, CloseOuter PROVE SelectIInv'
<1>1. SelectTypeOK'
  BY CandidatesAssumption DEF SelectIInv, SelectTypeOK, Candidates, Phases, Natives, Over, Live, CloseOuter
<1>2. Untouched'
  BY CandidatesAssumption DEF SelectIInv, SelectTypeOK, Untouched, OwnedHere, Candidates, Live, CloseOuter
<1>3. OwnedHere'
  BY CandidatesAssumption DEF SelectIInv, SelectTypeOK, Untouched, OwnedHere, Stages, Candidates, Live, CloseOuter
<1>4. Stages'
  BY DEF SelectIInv, SelectTypeOK, OwnedHere, Stages, CloseOuter
<1>5. QED
  BY <1>1, <1>2, <1>3, <1>4 DEF SelectIInv

LEMMA OuterClosedOK == ASSUME SelectIInv, OuterClosed PROVE SelectIInv'
<1>1. SelectTypeOK'
  BY CandidatesAssumption DEF SelectIInv, SelectTypeOK, Candidates, Phases, Natives, Over, Live, OuterClosed, ClosedSettled
<1>2. Untouched'
  BY CandidatesAssumption DEF SelectIInv, SelectTypeOK, Untouched, OwnedHere, Candidates, Live, OuterClosed, ClosedSettled
<1>3. OwnedHere'
  BY CandidatesAssumption DEF SelectIInv, SelectTypeOK, Untouched, OwnedHere, Stages, Candidates, Live, OuterClosed, ClosedSettled
<1>4. Stages'
  BY DEF SelectIInv, SelectTypeOK, OwnedHere, Stages, OuterClosed, ClosedSettled
<1>5. QED
  BY <1>1, <1>2, <1>3, <1>4 DEF SelectIInv

LEMMA AcceptsOK == ASSUME SelectIInv, Accepts PROVE SelectIInv'
<1>1. SelectTypeOK'
  BY CandidatesAssumption DEF SelectIInv, SelectTypeOK, Candidates, Phases, Natives, Over, Live, Accepts, Platform
<1>2. Untouched'
  BY CandidatesAssumption DEF SelectIInv, SelectTypeOK, Untouched, OwnedHere, Candidates, Live, Accepts, Platform
<1>3. OwnedHere'
  BY CandidatesAssumption DEF SelectIInv, SelectTypeOK, Untouched, OwnedHere, Stages, Candidates, Live, Accepts, Platform
<1>4. Stages'
  BY DEF SelectIInv, SelectTypeOK, OwnedHere, Stages, Accepts, Platform
<1>5. QED
  BY <1>1, <1>2, <1>3, <1>4 DEF SelectIInv

LEMMA RefusesOK == ASSUME SelectIInv, Refuses PROVE SelectIInv'
<1>1. SelectTypeOK'
  BY CandidatesAssumption DEF SelectIInv, SelectTypeOK, Candidates, Phases, Natives, Over, Live, Refuses, Platform
<1>2. Untouched'
  BY CandidatesAssumption DEF SelectIInv, SelectTypeOK, Untouched, OwnedHere, Candidates, Live, Refuses, Platform
<1>3. OwnedHere'
  BY CandidatesAssumption DEF SelectIInv, SelectTypeOK, Untouched, OwnedHere, Stages, Candidates, Live, Refuses, Platform
<1>4. Stages'
  BY DEF SelectIInv, SelectTypeOK, OwnedHere, Stages, Refuses, Platform
<1>5. QED
  BY <1>1, <1>2, <1>3, <1>4 DEF SelectIInv

LEMMA DiesOK == ASSUME SelectIInv, Dies PROVE SelectIInv'
<1>1. SelectTypeOK'
  BY CandidatesAssumption DEF SelectIInv, SelectTypeOK, Candidates, Phases, Natives, Over, Live, Dies, Platform
<1>2. Untouched'
  BY CandidatesAssumption DEF SelectIInv, SelectTypeOK, Untouched, OwnedHere, Candidates, Live, Dies, Platform
<1>3. OwnedHere'
  BY CandidatesAssumption DEF SelectIInv, SelectTypeOK, Untouched, OwnedHere, Stages, Candidates, Live, Dies, Platform
<1>4. Stages'
  BY DEF SelectIInv, SelectTypeOK, OwnedHere, Stages, Dies, Platform
<1>5. QED
  BY <1>1, <1>2, <1>3, <1>4 DEF SelectIInv

LEMMA ClosesOK == ASSUME SelectIInv, Closes PROVE SelectIInv'
<1>1. SelectTypeOK'
  BY CandidatesAssumption DEF SelectIInv, SelectTypeOK, Candidates, Phases, Natives, Over, Live, Closes, Platform
<1>2. Untouched'
  BY CandidatesAssumption DEF SelectIInv, SelectTypeOK, Untouched, OwnedHere, Candidates, Live, Closes, Platform
<1>3. OwnedHere'
  BY CandidatesAssumption DEF SelectIInv, SelectTypeOK, Untouched, OwnedHere, Stages, Candidates, Live, Closes, Platform
<1>4. Stages'
  BY DEF SelectIInv, SelectTypeOK, OwnedHere, Stages, Closes, Platform
<1>5. QED
  BY <1>1, <1>2, <1>3, <1>4 DEF SelectIInv

LEMMA SelectStutterOK == ASSUME SelectIInv, UNCHANGED selectVars PROVE SelectIInv'
BY DEF selectVars, SelectIInv, SelectTypeOK, Untouched, OwnedHere, Stages, Live

LEMMA SelectInvariance == SelectSpec => []SelectIInv
<1>1. SelectIInv /\ [SelectNext]_selectVars => SelectIInv'
  BY ConstructFailsOK, ConstructOK, PinWebSocketOK, PinOK, HandshakeFailsOK, TimesOutOK, InterruptOK,
     CandidateClosedOK, ProceedOK, CloseOuterOK, OuterClosedOK, AcceptsOK, RefusesOK, DiesOK, ClosesOK,
     SelectStutterOK DEF SelectNext
<1>2. QED
  BY SelectInitOK, <1>1, PTL DEF SelectSpec

----------------------------------------------------------------------------
\* Every variable keeps its domain.
THEOREM SelectTypeCorrect == SelectSpec => []SelectTypeOK
BY SelectInvariance, PTL DEF SelectIInv

\* Never two sessions at once: a candidate is tried only when nothing of an earlier
\* one is open.
THEOREM OneSessionAtATime == SelectSpec => []OneSession
<1>1. SelectIInv => OneSession
  BY DEF SelectIInv, OwnedHere, OneSession
<1>2. QED
  BY SelectInvariance, <1>1, PTL

\* No session outlives the scope of its candidate.
THEOREM NoSessionLeaks == SelectSpec => []NothingLeaks
<1>1. SelectIInv => NothingLeaks
  BY DEF SelectIInv, SelectTypeOK, OwnedHere, Stages, NothingLeaks, Phases
<1>2. QED
  BY SelectInvariance, <1>1, PTL

LEMMA InterruptedStep ==
    ASSUME SelectIInv, SelectNext, exit = "interrupt"
    PROVE  candidate' = candidate /\ failures' = failures /\ phase' \in {"closing", "closed", "interrupted"}
<1>1. phase \in {"closing", "closed", "interrupted"}
  BY DEF SelectIInv, Stages
<1>2. CASE CandidateClosed \/ Proceed
  BY <1>2, <1>1 DEF CandidateClosed, Proceed, Caught
<1>3. CASE CloseOuter \/ OuterClosed \/ Accepts \/ Refuses \/ Dies \/ Closes
  BY <1>3, <1>1 DEF CloseOuter, OuterClosed, Accepts, Refuses, Dies, Closes, Platform
<1>4. QED
  BY <1>1, <1>2, <1>3
     DEF SelectNext, ConstructFails, Construct, PinWebSocket, Pin, HandshakeFails, TimesOut, InterruptSelect

\* An interruption ends the choice: it counts as no failure, and nothing is tried
\* or pinned after it.
THEOREM InterruptionIsFinal == SelectSpec => InterruptionEnds
<1>1. SelectIInv /\ [SelectNext]_selectVars =>
        [exit = "interrupt" =>
           candidate' = candidate /\ failures' = failures /\ phase' \in {"closing", "closed", "interrupted"}]_selectVars
  BY InterruptedStep
<1>2. QED
  BY <1>1, SelectInvariance, PTL DEF SelectSpec, InterruptionEnds

\* The choice of a transport is safe, for any number of candidates of either kind.
THEOREM EverySelectionIsSafe == SelectSpec => SelectionIsSafe
<1>1. SelectSpec => [](SelectTypeOK /\ OneSession /\ NothingLeaks)
  BY SelectTypeCorrect, OneSessionAtATime, NoSessionLeaks, PTL
<1>2. QED
  BY <1>1, InterruptionIsFinal DEF SelectionIsSafe
-----------------------------------------------------------------------------
(* The hibernating RPC sockets: an activation may end between any two steps, so     *)
(* the invariant says what each socket's attachment, connection and fibers say of   *)
(* one another while the object is awake, and what the attachment alone says of its *)
(* client's requests while it sleeps.                                               *)

\* What is attached to a socket names requests of its client, and no checkpoint that its
\* client has not received; only version 2 has subscriptions.
SubsOK(subs, asked, got) ==
  \A r \in Subscriptions(subs) :
    r \in asked /\ subs[r].key = KeyOf[r] /\ subs[r].ack <= got[KeyOf[r]]

AttachOK(att, asked, got) ==
  att # NoAttachment =>
    SubsOK(att.subs, asked, got) /\ (att.version = 1 => Subscriptions(att.subs) = {})

\* A connection's requests are plain ones and subscriptions, all of them its client's.
ConnOK(conn, asked) ==
  /\ conn.requests = conn.plain \cup Subscriptions(conn.subs)
  /\ conn.plain \cap Subscriptions(conn.subs) = {}
  /\ conn.version = 1 => Subscriptions(conn.subs) = {}
  /\ conn.current \subseteq Subscriptions(conn.subs)
  /\ conn.requests \subseteq asked

\* AttachmentAgrees, of one connection.
AgreeOK(conn, att) ==
  /\ att # NoAttachment
  /\ att.id = conn.id /\ att.version = conn.version /\ att.subs = conn.subs
  /\ att.busy <=> conn.requests # {}
  /\ conn.version = 2 => (att.plain <=> conn.requests # Subscriptions(conn.subs))

\* LatchFollowsCheckpoint and NothingSkipped, of one connection; a stream's fiber counts
\* from 1.
FiberOK(conn, f, r, got) ==
  f # NoFiber =>
    /\ f.next >= 1 /\ f.next <= got[KeyOf[r]] + 1
    /\ f.phase = "wait" <=> r \in conn.current
    /\ r \in conn.current => conn.subs[r].pending # <<>>

FibersOK(conn, fibs, got) == \A r \in Subscriptions(conn.subs) : FiberOK(conn, fibs[r], r, got)

\* NoLostCalls, of one connection, and of an attachment while the object sleeps.
Served(conn, fibs, awaits) == \A r \in awaits : r \in conn.requests /\ fibs[r] # NoFiber

Recorded(att, awaits) ==
  \A r \in awaits : att.busy /\ (att.version = 2 => Subscribed(att, r) \/ att.plain)

ConnectionOK(s) ==
  LET conn == connections[s] IN
  /\ conn # NoConnection =>
       /\ ConnOK(conn, sent[s]) /\ AgreeOK(conn, attach[s])
       /\ FibersOK(conn, fibers[conn.id], received[s])
       /\ Served(conn, fibers[conn.id], awaiting[s])
       /\ link[s] \in {"open", "closing"} /\ s \notin resetSockets
       /\ conn.id < nextClientId
  /\ awake /\ conn = NoConnection => link[s] # "open"

SocketOK(s) ==
  /\ AttachOK(attach[s], sent[s], received[s])
  /\ awaiting[s] # {} => link[s] = "open"
  /\ ~ awake => Recorded(attach[s], awaiting[s])
  /\ s \in resetSockets => link[s] # "unused"

\* Ids are of one socket each, and of none that the server is about to disconnect; a
\* sleeping object has nothing; the pair follows the connections.
Distinct == \A s, t \in Registered : connections[s].id = connections[t].id => s = t
Gone == \A c \in disconnects : c < nextClientId /\ \A s \in Registered : connections[s].id # c
Asleep == ~ awake => /\ Registered = {} /\ disconnects = {}
                     /\ \A c \in ClientIds, r \in Requests : fibers[c][r] = NoFiber
Paired == awake => (paired <=> Registered # {})

WebSocketIInv ==
  /\ WebSocketTypeOK
  /\ \A s \in Sockets : SocketOK(s) /\ ConnectionOK(s)
  /\ Distinct /\ Gone /\ Asleep /\ Paired
  /\ PairWhileOpen /\ NoOrphanFibers
-----------------------------------------------------------------------------
\* What becomes of a connection.

LEMMA NoSubsOK == NoSubs \in [Streams -> Sub \cup {NoSub}] /\ Subscriptions(NoSubs) = {}
BY DEF NoSubs, Subscriptions

LEMMA FreshOK ==
  ASSUME NEW id \in ClientIds, NEW v \in {1, 2}, NEW asked
  PROVE  LET conn == [Fresh(id) EXCEPT !.version = v]
         IN  conn \in Connection /\ conn.id = id /\ ConnOK(conn, asked) /\ conn.requests = {}
             /\ conn.version = v /\ conn.subs = NoSubs
BY NoSubsOK DEF Fresh, Connection, ConnOK, Requests

LEMMA ImageOK ==
  ASSUME ShapeAssumption, build \in Builds, NEW conn \in Connection, NEW asked, NEW got,
         ConnOK(conn, asked), SubsOK(conn.subs, asked, got)
  PROVE  /\ Image(conn) \in Attachment /\ AgreeOK(conn, Image(conn))
         /\ AttachOK(Image(conn), asked, got)
<1>1. Image(conn) \in Attachment
  BY DEF Image, Connection, Attachment
<1>2. QED
  BY <1>1 DEF Image, AgreeOK, AttachOK, ConnOK, ShapeAssumption

LEMMA SubMade ==
  ASSUME ShapeAssumption, NEW k \in StreamKeys, NEW ack \in 0..MaxValue, NEW pending \in Seq(Values)
  PROVE  LET sub == [key |-> k, ack |-> ack, pending |-> pending]
         IN  sub \in Sub /\ sub # NoSub
BY DEF Sub, ShapeAssumption

Reported(r, ack, got) == ack \in 0..MaxValue /\ (r \in Streams => ack <= got[KeyOf[r]])

MakesRequest(conn, new, r, ack, asked, got) ==
  /\ new \in Connection /\ new.id = conn.id
  /\ ConnOK(new, asked \cup {r}) /\ SubsOK(new.subs, asked \cup {r}, got)
  /\ new.requests = conn.requests \cup {r} /\ new.current = conn.current
  /\ r \notin conn.requests
  /\ IF Identified(r)
     THEN /\ Subscriptions(new.subs) = Subscriptions(conn.subs) \cup {r}
          /\ new.subs[r].ack = ack
          /\ \A q \in Streams \ {r} : new.subs[q] = conn.subs[q]
     ELSE new.subs = conn.subs

LEMMA TrackedOK ==
  ASSUME ShapeAssumption, NEW conn \in Connection, NEW asked, NEW got, NEW r \in Requests, NEW ack,
         ConnOK(conn, asked), SubsOK(conn.subs, asked, got), r \notin asked,
         Reported(r, ack, got)
  PROVE  MakesRequest(conn, Tracked(conn, r, ack), r, ack, asked, got)
<1>1. r \notin conn.requests /\ conn.subs \in [Streams -> Sub \cup {NoSub}]
  BY DEF ConnOK, Connection
<1>2. CASE ~ Identified(r)
  BY <1>1, <1>2 DEF Tracked, Connection, ConnOK, SubsOK, MakesRequest
<1>3. CASE Identified(r)
  <2> DEFINE sub == [key |-> KeyOf[r], ack |-> ack, pending |-> <<>>]
             subs == [conn.subs EXCEPT ![r] = sub]
  <2>0. r \in Streams /\ KeyOf[r] \in StreamKeys /\ <<>> \in Seq(Values)
    BY <1>3 DEF Identified, ShapeAssumption
  <2>1. r \in Streams /\ sub \in Sub /\ sub # NoSub /\ sub.key = KeyOf[r] /\ sub.ack = ack
    BY <2>0, SubMade DEF Reported
  <2>2. subs \in [Streams -> Sub \cup {NoSub}] /\ subs[r] = sub /\ \A q \in Streams \ {r} : subs[q] = conn.subs[q]
    BY <1>1, <2>1
  <2>3. Subscriptions(subs) = Subscriptions(conn.subs) \cup {r}
    BY <2>1, <2>2 DEF Subscriptions
  <2>5. SubsOK(subs, asked \cup {r}, got)
    BY <2>1, <2>2, <2>3 DEF SubsOK, Reported
  <2> DEFINE made == [conn EXCEPT !.requests = @ \cup {r}, !.version = 2, !.subs = subs]
  <2>4. Tracked(conn, r, ack) = made
    BY <1>3 DEF Tracked, Connection
  <2>6. /\ made \in Connection /\ made.id = conn.id /\ made.version = 2 /\ made.subs = subs
        /\ made.requests = conn.requests \cup {r} /\ made.plain = conn.plain
        /\ made.current = conn.current
    BY <2>2 DEF Connection
  <2>7. ConnOK(made, asked \cup {r})
    BY <1>1, <2>3, <2>6 DEF ConnOK
  <2> HIDE DEF made, subs, sub
  <2>8. QED
    BY <1>1, <1>3, <2>1, <2>2, <2>3, <2>4, <2>5, <2>6, <2>7 DEF MakesRequest
<1>4. QED
  BY <1>2, <1>3

Completes(conn, new, r, asked, got) ==
  /\ new \in Connection /\ new.id = conn.id
  /\ ConnOK(new, asked) /\ SubsOK(new.subs, asked, got)
  /\ new.requests = conn.requests \ {r} /\ new.current = conn.current \ {r}
  /\ Subscriptions(new.subs) = Subscriptions(conn.subs) \ {r}
  /\ \A q \in Streams \ {r} : new.subs[q] = conn.subs[q]

LEMMA CompletedOK ==
  ASSUME ShapeAssumption, NEW conn \in Connection, NEW asked, NEW got, NEW r \in Requests, NEW keep \in BOOLEAN,
         ConnOK(conn, asked), SubsOK(conn.subs, asked, got)
  PROVE  Completes(conn, Completed(conn, r, keep), r, asked, got)
<1> DEFINE subs == [q \in Streams |-> IF q = r THEN NoSub ELSE conn.subs[q]]
           next == Completed(conn, r, keep)
<1>1. subs \in [Streams -> Sub \cup {NoSub}] /\ Subscriptions(subs) = Subscriptions(conn.subs) \ {r}
  BY DEF Connection, Subscriptions
<1>2. SubsOK(subs, asked, got)
  BY <1>1 DEF SubsOK, Subscriptions
<1>3. /\ next.subs = subs /\ next.id = conn.id /\ next.version = conn.version
      /\ next.requests = conn.requests \ {r} /\ next.plain = conn.plain \ {r}
      /\ next.current = conn.current \ {r} /\ next.suppressed \subseteq Requests
  BY DEF Completed, Connection
<1>4. next \in Connection
  BY <1>1, <1>3 DEF Completed, Connection
<1>5. QED
  BY <1>1, <1>2, <1>3, <1>4 DEF ConnOK, Completes

Clears(conn, new, asked, got) ==
  /\ new \in Connection /\ new.id = conn.id /\ new.requests = {}
  /\ ConnOK(new, asked) /\ SubsOK(new.subs, asked, got) /\ Subscriptions(new.subs) = {}

LEMMA ClearedOK ==
  ASSUME NEW conn \in Connection, NEW asked, NEW got
  PROVE  Clears(conn, Cleared(conn), asked, got)
BY FreshOK, NoSubsOK DEF Cleared, Connection, SubsOK, Clears

KeepsPending(conn, new, r, values, asked, got) ==
  /\ new \in Connection /\ new.id = conn.id
  /\ ConnOK(new, asked) /\ SubsOK(new.subs, asked, got)
  /\ new.requests = conn.requests /\ new.current = conn.current \cup {r}
  /\ Subscriptions(new.subs) = Subscriptions(conn.subs)
  /\ new.subs[r].pending = values
  /\ \A q \in Streams \ {r} : new.subs[q] = conn.subs[q]

LEMMA WithPendingOK ==
  ASSUME ShapeAssumption, NEW conn \in Connection, NEW asked, NEW got, NEW r, NEW values \in Seq(Values),
         Subscribed(conn, r), ConnOK(conn, asked), SubsOK(conn.subs, asked, got)
  PROVE  KeepsPending(conn, WithPending(conn, r, values), r, values, asked, got)
<1> DEFINE sub == [conn.subs[r] EXCEPT !.pending = values]
           subs == [conn.subs EXCEPT ![r] = sub]
           next == WithPending(conn, r, values)
<1>1. r \in Streams /\ conn.subs \in [Streams -> Sub \cup {NoSub}] /\ conn.subs[r] \in Sub
  BY DEF Subscribed, Connection
<1>2. sub \in Sub /\ sub # NoSub /\ sub.key = conn.subs[r].key /\ sub.ack = conn.subs[r].ack /\ sub.pending = values
  BY <1>1 DEF Sub, ShapeAssumption
<1>3. /\ subs \in [Streams -> Sub \cup {NoSub}] /\ subs[r] = sub
      /\ \A q \in Streams \ {r} : subs[q] = conn.subs[q]
  BY <1>1, <1>2
<1>4. Subscriptions(subs) = Subscriptions(conn.subs)
  BY <1>1, <1>2, <1>3 DEF Subscriptions, Subscribed
<1>5. SubsOK(subs, asked, got)
  BY <1>2, <1>3, <1>4 DEF SubsOK, Subscriptions
<1>6. next = [conn EXCEPT !.subs = subs, !.current = @ \cup {r}]
  BY DEF WithPending, Connection
<1>7. r \in Requests /\ r \in Subscriptions(conn.subs)
  BY <1>1 DEF Requests, Subscriptions, Subscribed
<1> HIDE DEF subs, sub
<1>8. /\ next \in Connection /\ next.id = conn.id /\ next.version = conn.version
      /\ next.requests = conn.requests /\ next.plain = conn.plain /\ next.subs = subs
      /\ next.current = conn.current \cup {r}
  <2>1. next = [conn EXCEPT !.subs = subs, !.current = conn.current \cup {r}]
    BY <1>6
  <2>2. conn.current \cup {r} \in SUBSET Requests
    BY <1>7 DEF Connection
  <2> HIDE DEF next
  <2>3. QED
    BY <1>3, <2>1, <2>2 DEF Connection
<1>9. ConnOK(next, asked)
  BY <1>4, <1>7, <1>8 DEF ConnOK
<1> HIDE DEF next, subs, sub
<1>10. QED
  BY <1>2, <1>3, <1>4, <1>5, <1>8, <1>9 DEF next, KeepsPending

Checkpoints(conn, new, r, asked, got) ==
  /\ new \in Connection /\ new.id = conn.id
  /\ ConnOK(new, asked) /\ SubsOK(new.subs, asked, got)
  /\ new.requests = conn.requests
  /\ new.current \subseteq conn.current /\ conn.current \ {r} \subseteq new.current
  /\ r \in new.current => new.subs[r].pending # <<>>
  /\ Subscriptions(new.subs) = Subscriptions(conn.subs)
  /\ \A q \in Streams \ {r} : new.subs[q] = conn.subs[q]

LEMMA CheckpointedOK ==
  ASSUME ShapeAssumption, NEW conn \in Connection, NEW asked, NEW got, NEW r, Subscribed(conn, r),
         ConnOK(conn, asked), SubsOK(conn.subs, asked, got),
         NEW i \in DOMAIN conn.subs[r].pending, conn.subs[r].pending[i] <= got[KeyOf[r]]
  PROVE  Checkpoints(conn, Checkpointed(conn, r, i), r, asked, got)
<1> DEFINE pending == conn.subs[r].pending
           later == SubSeq(pending, i + 1, Len(pending))
           sub == [conn.subs[r] EXCEPT !.ack = pending[i], !.pending = later]
           subs == [conn.subs EXCEPT ![r] = sub]
           next == Checkpointed(conn, r, i)
<1>1. r \in Streams /\ conn.subs \in [Streams -> Sub \cup {NoSub}] /\ conn.subs[r] \in Sub
  BY DEF Subscribed, Connection
<1>2. pending \in Seq(Values) /\ i \in 1..Len(pending) /\ pending[i] \in Values
  BY <1>1 DEF Sub
<1>3. later \in Seq(Values) /\ (i # Len(pending) => Len(later) # 0)
  BY <1>2, SubSeqProperties
<1>4. i # Len(pending) => later # <<>>
  BY <1>3
<1>5. /\ sub \in Sub /\ sub # NoSub /\ sub.key = conn.subs[r].key /\ sub.ack = pending[i]
      /\ sub.pending = later
  <2>2. pending[i] \in 0..MaxValue
    BY <1>2 DEF Values, ShapeAssumption
  <2> HIDE DEF later, pending
  <2>3. QED
    BY <1>1, <1>3, <2>2 DEF Sub, ShapeAssumption
<1>6. /\ subs \in [Streams -> Sub \cup {NoSub}] /\ subs[r] = sub
      /\ \A q \in Streams \ {r} : subs[q] = conn.subs[q]
  BY <1>1, <1>5
<1>7. Subscriptions(subs) = Subscriptions(conn.subs)
  BY <1>1, <1>5, <1>6 DEF Subscriptions, Subscribed
<1>8. SubsOK(subs, asked, got)
  BY <1>5, <1>6, <1>7 DEF SubsOK, Subscriptions
<1>9. next = [conn EXCEPT !.subs = subs, !.current = IF i = Len(pending) THEN @ \ {r} ELSE @]
  BY ZenonT(60) DEF Checkpointed, Connection
<1>10. /\ next \in Connection /\ next.id = conn.id /\ next.version = conn.version
       /\ next.requests = conn.requests /\ next.plain = conn.plain /\ next.subs = subs
       /\ next.current = IF i = Len(pending) THEN conn.current \ {r} ELSE conn.current
  BY <1>6, <1>9, ZenonT(60) DEF Connection
<1>11. ConnOK(next, asked)
  BY <1>7, <1>10 DEF ConnOK
<1> HIDE DEF next, subs, sub, later
<1>12. QED
  BY <1>4, <1>5, <1>6, <1>7, <1>8, <1>10, <1>11 DEF next, Checkpoints

-----------------------------------------------------------------------------
\* What a step does to one socket leaves the others as they are.

LEMMA SocketUndisturbed ==
  ASSUME WebSocketIInv, awake, awake' = awake, NEW t \in Sockets,
         link'[t] = link[t], attach'[t] = attach[t], connections'[t] = connections[t],
         sent'[t] = sent[t], received'[t] = received[t], awaiting'[t] = awaiting[t],
         t \in resetSockets' <=> t \in resetSockets, nextClientId' = nextClientId,
         connections[t] # NoConnection => fibers'[connections[t].id] = fibers[connections[t].id]
  PROVE  SocketOK(t)' /\ ConnectionOK(t)'
<1>1. SocketOK(t) /\ ConnectionOK(t)
  BY DEF WebSocketIInv
<1>2. SocketOK(t)'
  BY <1>1 DEF SocketOK, AttachOK, SubsOK
<1>3. ConnectionOK(t)'
  BY <1>1 DEF ConnectionOK, ConnOK, AgreeOK, FibersOK, Served
<1>4. QED
  BY <1>2, <1>3

\* A step that keeps the socket s, and may move the fibers of its client.
LEMMA KeepStep ==
  ASSUME ShapeAssumption, WebSocketIInv, awake, Quiet, NEW s \in Registered, NEW conn \in Connection,
         NEW image \in Attachment, NEW awaits \in SUBSET Requests,
         Keep(s, conn, image, awaits), conn.id = connections[s].id,
         fibers' \in [ClientIds -> [Requests -> Fiber \cup {NoFiber}]],
         \A c \in ClientIds \ {conn.id} : fibers'[c] = fibers[c],
         sent' \in [Sockets -> SUBSET Requests], received' \in [Sockets -> [StreamKeys -> 0..MaxValue]],
         \A t \in Sockets \ {s} : sent'[t] = sent[t] /\ received'[t] = received[t],
         ConnOK(conn, sent'[s]), AgreeOK(conn, image), AttachOK(image, sent'[s], received'[s]),
         FibersOK(conn, fibers'[conn.id], received'[s]), Served(conn, fibers'[conn.id], awaits),
         awaits # {} => link[s] = "open"
  PROVE  WebSocketIInv'
<1>1. s \in Sockets /\ connections[s] # NoConnection /\ connections[s] \in Connection
  BY DEF Registered, WebSocketIInv, WebSocketTypeOK
<1>2. /\ connections'[s] = conn /\ attach'[s] = image /\ awaiting'[s] = awaits /\ conn # NoConnection
      /\ \A t \in Sockets \ {s} : connections'[t] = connections[t] /\ attach'[t] = attach[t] /\ awaiting'[t] = awaiting[t]
      /\ link' = link /\ resetSockets' = resetSockets /\ disconnects' = disconnects
      /\ awake' = awake /\ nextClientId' = nextClientId /\ paired' = Synced(connections')
  BY <1>1 DEF Keep, Quiet, WebSocketIInv, WebSocketTypeOK, ShapeAssumption
<1>3. WebSocketTypeOK'
  BY <1>1, <1>2 DEF Keep, Quiet, Synced, WebSocketIInv, WebSocketTypeOK
<1>4. Registered' = Registered
  BY <1>1, <1>2 DEF Registered
<1>5. \A t \in Registered : t # s => connections[t].id # conn.id /\ connections[t].id \in ClientIds
  BY <1>1 DEF WebSocketIInv, Distinct, WebSocketTypeOK, Registered, Connection
<1>6. ASSUME NEW t \in Sockets PROVE SocketOK(t)' /\ ConnectionOK(t)'
  <2>1. CASE t # s
    BY <1>2, <1>5, <2>1, SocketUndisturbed DEF Registered
  <2>2. CASE t = s
    <3>1. ConnectionOK(s)
      BY <1>1 DEF WebSocketIInv
    <3>2. SocketOK(s) /\ awake'
      BY <1>1, <1>2 DEF WebSocketIInv
    <3>3. SocketOK(s)'
      BY <1>2, <3>2 DEF SocketOK
    <3>4. ConnectionOK(s)'
      BY <1>1, <1>2, <3>1 DEF ConnectionOK
    <3>5. QED
      BY <2>2, <3>3, <3>4
  <2>3. QED
    BY <2>1, <2>2
<1>7. \A t \in Registered : connections'[t].id = connections[t].id
  BY <1>1, <1>2 DEF Registered
<1>11. Distinct'
  BY <1>4, <1>7 DEF Distinct, WebSocketIInv
<1>12. Gone'
  BY <1>2, <1>4, <1>7 DEF Gone, WebSocketIInv
<1>8. Asleep' /\ Paired' /\ PairWhileOpen'
  BY <1>1, <1>2, <1>4, <1>6 DEF Asleep, Paired, PairWhileOpen, Synced, Registered, ConnectionOK
<1>9. NoOrphanFibers'
  <2>1. \A c \in ClientIds : SocketOf(c)' = SocketOf(c)
    BY <1>4, <1>7 DEF SocketOf
  <2>2. s \in SocketOf(conn.id)
    BY DEF SocketOf
  <2>3. QED
    BY <1>2, <2>1, <2>2 DEF NoOrphanFibers, WebSocketIInv
<1>10. QED
  BY <1>3, <1>6, <1>8, <1>9, <1>11, <1>12 DEF WebSocketIInv

\* A step that resets the socket s.
LEMMA DropStep ==
  ASSUME ShapeAssumption, WebSocketIInv, awake, Quiet, NEW s \in Registered,
         NEW image \in Attachment, Drop(s, image),
         fibers' \in [ClientIds -> [Requests -> Fiber \cup {NoFiber}]],
         \A c \in ClientIds \ {connections[s].id} : fibers'[c] = fibers[c],
         sent' \in [Sockets -> SUBSET Requests], received' = received,
         \A t \in Sockets \ {s} : sent'[t] = sent[t],
         AttachOK(image, sent'[s], received'[s])
  PROVE  WebSocketIInv'
<1>1. s \in Sockets /\ connections[s] # NoConnection /\ connections[s] \in Connection /\ connections[s].id \in ClientIds
  BY DEF Registered, WebSocketIInv, WebSocketTypeOK, Connection
<1>2. /\ connections'[s] = NoConnection /\ attach'[s] = image /\ awaiting'[s] = {} /\ link'[s] = "closing"
      /\ \A t \in Sockets \ {s} : /\ connections'[t] = connections[t] /\ attach'[t] = attach[t]
                                  /\ awaiting'[t] = awaiting[t] /\ link'[t] = link[t]
      /\ resetSockets' = resetSockets \cup {s} /\ disconnects' = disconnects \cup {connections[s].id}
      /\ awake' = awake /\ nextClientId' = nextClientId /\ paired' = Synced(connections')
  BY <1>1 DEF Drop, Quiet, WebSocketIInv, WebSocketTypeOK
<1>3. WebSocketTypeOK'
  BY <1>1, <1>2 DEF Drop, Quiet, Synced, WebSocketIInv, WebSocketTypeOK
<1>4. Registered' = Registered \ {s}
  BY <1>1, <1>2 DEF Registered
<1>5. \A t \in Registered : t # s => connections[t].id # connections[s].id /\ connections[t].id \in ClientIds
  BY <1>1 DEF WebSocketIInv, Distinct, WebSocketTypeOK, Registered, Connection
<1>6. ASSUME NEW t \in Sockets PROVE SocketOK(t)' /\ ConnectionOK(t)'
  <2>1. CASE t # s
    BY <1>2, <1>5, <2>1, SocketUndisturbed DEF Registered
  <2>2. CASE t = s
    BY <1>2, <2>2 DEF SocketOK, ConnectionOK
  <2>3. QED
    BY <2>1, <2>2
<1>7. \A t \in Registered' : t \in Registered \ {s} /\ connections'[t].id = connections[t].id
  BY <1>1, <1>2, <1>4 DEF Registered
<1>11. Distinct'
  BY <1>7 DEF Distinct, WebSocketIInv
<1>12. Gone'
  <2>1. connections[s].id < nextClientId
    BY <1>1 DEF WebSocketIInv, ConnectionOK
  <2>2. QED
    BY <1>2, <1>5, <1>7, <2>1 DEF Gone, WebSocketIInv
<1>8. Asleep' /\ Paired' /\ PairWhileOpen'
  BY <1>1, <1>2, <1>4, <1>6 DEF Asleep, Paired, PairWhileOpen, Synced, Registered, ConnectionOK
<1>9. NoOrphanFibers'
  <2>1. \A c \in ClientIds \ {connections[s].id} : SocketOf(c)' = SocketOf(c)
    BY <1>1, <1>2, <1>4, <1>7 DEF SocketOf
  <2>2. connections[s].id \in disconnects'
    BY <1>2
  <2>3. QED
    BY <1>2, <2>1, <2>2 DEF NoOrphanFibers, WebSocketIInv
<1>10. QED
  BY <1>3, <1>6, <1>8, <1>9, <1>11, <1>12 DEF WebSocketIInv

\* What is known of a registered socket.
LEMMA RegisteredFacts ==
  ASSUME WebSocketIInv, NEW s \in Registered
  PROVE  LET conn == connections[s] IN
         /\ s \in Sockets /\ conn \in Connection /\ conn # NoConnection /\ conn.id \in ClientIds
         /\ attach[s] \in Attachment /\ awaiting[s] \in SUBSET Requests
         /\ ConnOK(conn, sent[s]) /\ AgreeOK(conn, attach[s])
         /\ AttachOK(attach[s], sent[s], received[s]) /\ SubsOK(conn.subs, sent[s], received[s])
         /\ FibersOK(conn, fibers[conn.id], received[s])
         /\ awake /\ Served(conn, fibers[conn.id], awaiting[s])
         /\ awaiting[s] # {} => link[s] = "open"
         /\ build \in Builds /\ fibers \in [ClientIds -> [Requests -> Fiber \cup {NoFiber}]]
         /\ SocketOf(conn.id) = {s}
<1>1. s \in Sockets /\ connections[s] # NoConnection /\ connections[s] \in Connection /\ connections[s].id \in ClientIds
  BY DEF Registered, WebSocketIInv, WebSocketTypeOK, Connection
<1>2. SocketOK(s) /\ ConnectionOK(s)
  BY <1>1 DEF WebSocketIInv
<1>3. attach[s] \in Attachment
  BY <1>1, <1>2 DEF WebSocketIInv, WebSocketTypeOK, ConnectionOK, AgreeOK
<1>4. SubsOK(connections[s].subs, sent[s], received[s])
  BY <1>1, <1>2 DEF SocketOK, ConnectionOK, AgreeOK, AttachOK
<1>5. awake
  BY DEF WebSocketIInv, Asleep
<1>6. SocketOf(connections[s].id) = {s}
  BY <1>1 DEF SocketOf, WebSocketIInv, Distinct
<1>7. QED
  BY <1>1, <1>2, <1>3, <1>4, <1>5, <1>6 DEF SocketOK, ConnectionOK, WebSocketIInv, WebSocketTypeOK

\* A step that moves the fiber of r alone, and keeps the subscriptions that r is not.
OthersStay(conn, new, r) ==
  /\ Subscriptions(new.subs) \subseteq Subscriptions(conn.subs) \cup {r}
  /\ \A q \in Streams \ {r} : new.subs[q] = conn.subs[q] /\ (q \in new.current <=> q \in conn.current)

GotMore(got, got2) == \A k \in StreamKeys : got[k] \in Nat /\ got2[k] \in Nat /\ got[k] <= got2[k]

LEMMA FibersMove ==
  ASSUME ShapeAssumption, NEW conn, NEW new, NEW r, NEW fibs, NEW fibs2, NEW got, NEW got2,
         FibersOK(conn, fibs, got), OthersStay(conn, new, r), GotMore(got, got2),
         fibs \in [Requests -> Fiber \cup {NoFiber}],
         \A q \in Requests \ {r} : fibs2[q] = fibs[q],
         r \in Subscriptions(new.subs) => FiberOK(new, fibs2[r], r, got2)
  PROVE  FibersOK(new, fibs2, got2)
<1> SUFFICES ASSUME NEW q \in Subscriptions(new.subs), fibs2[q] # NoFiber, q # r
             PROVE  FiberOK(new, fibs2[q], q, got2)
  BY DEF FibersOK, FiberOK
<1>1. /\ q \in Streams /\ q \in Requests /\ q \in Subscriptions(conn.subs) /\ fibs[q] = fibs2[q]
      /\ new.subs[q] = conn.subs[q] /\ (q \in new.current <=> q \in conn.current)
  BY DEF Subscriptions, Requests, OthersStay
<1>2. KeyOf[q] \in StreamKeys /\ fibs[q] \in Fiber
  BY <1>1 DEF ShapeAssumption
<1>3. fibs[q].next \in Int
  BY <1>2 DEF Fiber, ShapeAssumption
<1>4. fibs[q].next <= got2[KeyOf[q]] + 1 /\ fibs[q].next >= 1
  <2>1. fibs[q].next <= got[KeyOf[q]] + 1 /\ fibs[q].next >= 1
    BY <1>1 DEF FibersOK, FiberOK
  <2>2. got[KeyOf[q]] \in Nat /\ got2[KeyOf[q]] \in Nat /\ got[KeyOf[q]] <= got2[KeyOf[q]]
    BY <1>2 DEF GotMore
  <2>3. QED
    BY <1>3, <2>1, <2>2
<1>5. FiberOK(conn, fibs[q], q, got)
  BY <1>1 DEF FibersOK
<1>6. QED
  BY <1>1, <1>4, <1>5 DEF FiberOK

\* What a client has got counts.
LEMMA GotIsNat ==
  ASSUME ShapeAssumption, WebSocketIInv, NEW s \in Sockets
  PROVE  \A k \in StreamKeys : received[s][k] \in Nat /\ received[s][k] \in 0..MaxValue
<1>1. received[s] \in [StreamKeys -> 0..MaxValue] /\ MaxValue \in Nat
  BY DEF WebSocketIInv, WebSocketTypeOK, ShapeAssumption
<1>2. QED
  BY <1>1


LEMMA SetFiberOK ==
  ASSUME WebSocketIInv, NEW c \in ClientIds, NEW r \in Requests, NEW f \in Fiber \cup {NoFiber},
         SetFiber(c, r, f)
  PROVE  /\ fibers' \in [ClientIds -> [Requests -> Fiber \cup {NoFiber}]]
         /\ fibers'[c][r] = f /\ \A q \in Requests \ {r} : fibers'[c][q] = fibers[c][q]
         /\ \A d \in ClientIds \ {c} : fibers'[d] = fibers[d]
BY DEF SetFiber, WebSocketIInv, WebSocketTypeOK

LEMMA StreamsAreRequests == \A r \in Streams : r \in Requests
BY DEF Requests

LEMMA MoreAsked ==
  ASSUME NEW att, NEW asked, NEW more, NEW got, AttachOK(att, asked, got), asked \subseteq more
  PROVE  AttachOK(att, more, got)
BY DEF AttachOK, SubsOK

\* A step that changes no socket, and of the fibers only those of clients that are gone.
LEMMA FiberStep ==
  ASSUME WebSocketIInv, awake, Quiet, UNCHANGED <<platform, connections, resetSockets, client>>,
         fibers' \in [ClientIds -> [Requests -> Fiber \cup {NoFiber}]], disconnects' \subseteq disconnects,
         \A s \in Registered : fibers'[connections[s].id] = fibers[connections[s].id],
         NoOrphanFibers'
  PROVE  WebSocketIInv'
<1>1. /\ link' = link /\ attach' = attach /\ paired' = paired /\ connections' = connections
      /\ resetSockets' = resetSockets /\ sent' = sent /\ awaiting' = awaiting /\ received' = received
      /\ awake' = awake /\ nextClientId' = nextClientId /\ build' = build /\ restarts' = restarts
  BY DEF Quiet, platform, client
<1>2. WebSocketTypeOK'
  BY <1>1 DEF WebSocketIInv, WebSocketTypeOK
<1>3. ASSUME NEW t \in Sockets PROVE SocketOK(t)' /\ ConnectionOK(t)'
  BY <1>1, SocketUndisturbed DEF Registered
<1>4. Registered' = Registered
  BY <1>1 DEF Registered
<1>5. Distinct' /\ Gone' /\ Asleep' /\ Paired' /\ PairWhileOpen'
  BY <1>1, <1>4 DEF WebSocketIInv, Distinct, Gone, Asleep, Paired, PairWhileOpen
<1>6. QED
  BY <1>2, <1>3, <1>5 DEF WebSocketIInv

-----------------------------------------------------------------------------
\* Messages of a client.

LEMMA RequestOK ==
  ASSUME ShapeAssumption, WebSocketIInv, NEW s \in Sockets, NEW r \in Requests, Request(s, r)
  PROVE  WebSocketIInv'
<1> DEFINE conn == connections[s]
<1>1. s \in Registered /\ r \notin sent[s] /\ awake
  BY DEF Request, Hears
<1>2. /\ sent' \in [Sockets -> SUBSET Requests] /\ sent'[s] = sent[s] \cup {r}
      /\ \A t \in Sockets \ {s} : sent'[t] = sent[t]
      /\ received' = received /\ Quiet /\ received \in [Sockets -> [StreamKeys -> 0..MaxValue]]
  BY DEF Request, WebSocketIInv, WebSocketTypeOK
<1>3. AttachOK(attach[s], sent'[s], received'[s])
  BY <1>1, <1>2, RegisteredFacts, MoreAsked
<1>4. CASE Drop(s, attach[s]) /\ UNCHANGED fibers
  BY <1>1, <1>2, <1>3, <1>4, RegisteredFacts, DropStep
<1>5. ASSUME NEW ack \in IF r \in Streams THEN 0..received[s][KeyOf[r]] ELSE {0},
             Keep(s, Tracked(conn, r, ack), Image(Tracked(conn, r, ack)),
                  IF Sendable(s) THEN awaiting[s] \cup {r} ELSE awaiting[s]),
             SetFiber(conn.id, r, [phase |-> "run", next |-> IF Identified(r) THEN ack + 1 ELSE 0])
      PROVE  WebSocketIInv'
  <2> DEFINE new == Tracked(conn, r, ack)
             f == [phase |-> "run", next |-> IF Identified(r) THEN ack + 1 ELSE 0]
             awaits == IF Sendable(s) THEN awaiting[s] \cup {r} ELSE awaiting[s]
  <2>1. /\ ack \in 0..MaxValue
        /\ r \in Streams => ack <= received[s][KeyOf[r]] /\ received[s][KeyOf[r]] \in Nat
    BY <1>2 DEF ShapeAssumption
  <2>2. f \in Fiber /\ f # NoFiber /\ f.phase = "run" /\ (Identified(r) => f.next = ack + 1)
    BY <2>1 DEF Fiber, ShapeAssumption
  <2>3. /\ new \in Connection /\ new.id = conn.id
        /\ ConnOK(new, sent'[s]) /\ SubsOK(new.subs, sent'[s], received[s])
        /\ new.requests = conn.requests \cup {r} /\ new.current = conn.current
        /\ r \notin conn.requests
        /\ IF Identified(r)
           THEN /\ Subscriptions(new.subs) = Subscriptions(conn.subs) \cup {r}
                /\ new.subs[r].ack = ack
                /\ \A q \in Streams \ {r} : new.subs[q] = conn.subs[q]
           ELSE new.subs = conn.subs
    <3>1. conn \in Connection /\ ConnOK(conn, sent[s]) /\ SubsOK(conn.subs, sent[s], received[s])
      BY <1>1, RegisteredFacts
    <3>2. r \notin sent[s] /\ sent'[s] = sent[s] \cup {r}
      BY <1>1, <1>2
    <3>4. Reported(r, ack, received[s])
      BY <2>1 DEF Reported
    <3> HIDE DEF conn
    <3>5. MakesRequest(conn, new, r, ack, sent[s], received[s])
      BY <3>1, <3>2, <3>4, TrackedOK
    <3>6. QED
      BY <3>2, <3>5 DEF MakesRequest
  <2>4. Image(new) \in Attachment /\ AgreeOK(new, Image(new)) /\ AttachOK(Image(new), sent'[s], received'[s])
    BY <1>1, <1>2, <2>3, RegisteredFacts, ImageOK
  <2>5. /\ fibers' \in [ClientIds -> [Requests -> Fiber \cup {NoFiber}]]
        /\ fibers'[conn.id][r] = f /\ \A q \in Requests \ {r} : fibers'[conn.id][q] = fibers[conn.id][q]
        /\ \A d \in ClientIds \ {conn.id} : fibers'[d] = fibers[d]
    BY <1>1, <1>5, <2>2, RegisteredFacts, SetFiberOK
  <2> HIDE DEF new, f
  <2>6. FibersOK(new, fibers'[conn.id], received'[s])
    <3>1. /\ ConnOK(conn, sent[s]) /\ FibersOK(conn, fibers[conn.id], received[s])
          /\ fibers[conn.id] \in [Requests -> Fiber \cup {NoFiber}]
      BY <1>1, RegisteredFacts
    <3>2. GotMore(received[s], received'[s])
      BY <1>2, GotIsNat DEF GotMore
    <3>3. OthersStay(conn, new, r)
      BY <2>3 DEF OthersStay
    <3>4. ASSUME r \in Subscriptions(new.subs) PROVE FiberOK(new, fibers'[conn.id][r], r, received'[s])
      <4>1. Identified(r) /\ r \notin new.current /\ r \in Streams
        BY <2>3, <3>1, <3>4 DEF ConnOK, Subscriptions
      <4>2. QED
        BY <1>2, <2>1, <2>2, <2>5, <4>1 DEF FiberOK
    <3> HIDE DEF conn
    <3>5. QED
      BY <2>5, <3>1, <3>2, <3>3, <3>4, FibersMove
  <2>7. Served(new, fibers'[conn.id], awaits)
    BY <1>1, <2>2, <2>3, <2>5, RegisteredFacts DEF Served
  <2>8. awaits \in SUBSET Requests /\ (awaits # {} => link[s] = "open")
    BY <1>1, RegisteredFacts DEF Sendable
  <2>9. Keep(s, new, Image(new), awaits)
    BY <1>5 DEF new
  <2> HIDE DEF awaits
  <2>10. QED
    BY <1>1, <1>2, <2>3, <2>4, <2>5, <2>6, <2>7, <2>8, <2>9, KeepStep
<1>6. QED
  BY <1>4, <1>5 DEF Request

\* A step that leaves connections alone keeps every socket.
LEMMA Unmoved ==
  ASSUME WebSocketIInv, NEW s \in Registered,
         UNCHANGED <<platform, disconnects, connections, resetSockets, awaiting>>
  PROVE  Keep(s, connections[s], attach[s], awaiting[s])
<1>1. paired = Synced(connections)
  BY RegisteredFacts DEF WebSocketIInv, WebSocketTypeOK, Paired, Synced, Registered
<1>2. QED
  BY <1>1 DEF Keep, platform, WebSocketIInv, WebSocketTypeOK, Synced

\* The connection stays as it is, and of its fibers only that of r moves, which is no
\* subscription's.
LEMMA OneFiberMoves ==
  ASSUME ShapeAssumption, WebSocketIInv, Quiet, NEW s \in Registered, NEW r \in Requests, NEW f \in Fiber,
         NEW awaits \in SUBSET awaiting[s],
         SetFiber(connections[s].id, r, f), ~ Subscribed(connections[s], r),
         Keep(s, connections[s], attach[s], awaits), UNCHANGED <<sent, received>>
  PROVE  WebSocketIInv'
<1> DEFINE conn == connections[s]
<1>1. /\ fibers' \in [ClientIds -> [Requests -> Fiber \cup {NoFiber}]]
      /\ fibers'[conn.id][r] = f /\ \A q \in Requests \ {r} : fibers'[conn.id][q] = fibers[conn.id][q]
      /\ \A d \in ClientIds \ {conn.id} : fibers'[d] = fibers[d]
  BY RegisteredFacts, SetFiberOK
<1>2. r \notin Subscriptions(conn.subs) /\ \A q \in Subscriptions(conn.subs) : q \in Requests
  BY DEF Subscribed, Subscriptions, Requests
<1>3. FibersOK(conn, fibers'[conn.id], received'[s])
  BY <1>1, <1>2, RegisteredFacts DEF FibersOK
<1>4. Served(conn, fibers'[conn.id], awaits)
  BY <1>1, RegisteredFacts DEF Served, ShapeAssumption
<1>5. /\ sent' = sent /\ received' = received
      /\ sent \in [Sockets -> SUBSET Requests] /\ received \in [Sockets -> [StreamKeys -> 0..MaxValue]]
  BY DEF WebSocketIInv, WebSocketTypeOK
<1>6. /\ conn \in Connection /\ attach[s] \in Attachment /\ awaits \in SUBSET Requests /\ awake
      /\ ConnOK(conn, sent'[s]) /\ AgreeOK(conn, attach[s]) /\ AttachOK(attach[s], sent'[s], received'[s])
      /\ awaits # {} => link[s] = "open"
  BY <1>5, RegisteredFacts
<1>7. Keep(s, conn, attach[s], awaits) /\ conn.id = connections[s].id
  OBVIOUS
<1> HIDE DEF conn
<1>8. QED
  BY <1>1, <1>3, <1>4, <1>5, <1>6, <1>7, KeepStep

LEMMA AckOK ==
  ASSUME ShapeAssumption, WebSocketIInv, NEW s \in Sockets, NEW r \in Requests, Ack(s, r)
  PROVE  WebSocketIInv'
<1> DEFINE f == [fibers[connections[s].id][r] EXCEPT !.phase = "run"]
<1>1. /\ s \in Registered /\ fibers[connections[s].id][r] # NoFiber
      /\ ~ Subscribed(connections[s], r) /\ Quiet
      /\ SetFiber(connections[s].id, r, f)
      /\ UNCHANGED <<platform, disconnects, connections, resetSockets, awaiting>>
      /\ UNCHANGED <<sent, received>>
  BY DEF Ack, Hears, AckPasses, client
<1>2. fibers[connections[s].id][r] \in Fiber
  BY <1>1, RegisteredFacts
<1>3. f \in Fiber
  BY <1>2 DEF Fiber
<1>4. Keep(s, connections[s], attach[s], awaiting[s])
  BY <1>1, Unmoved
<1> HIDE DEF f
<1>5. QED
  BY <1>1, <1>3, <1>4, OneFiberMoves
\* A registered socket may always be reset, with what is attached to it.
LEMMA DropUnsaved ==
  ASSUME ShapeAssumption, WebSocketIInv, Quiet, NEW s \in Registered, Drop(s, attach[s]),
         fibers' \in [ClientIds -> [Requests -> Fiber \cup {NoFiber}]],
         \A c \in ClientIds \ {connections[s].id} : fibers'[c] = fibers[c],
         UNCHANGED <<sent, received>>
  PROVE  WebSocketIInv'
<1>1. sent' \in [Sockets -> SUBSET Requests] /\ \A t \in Sockets \ {s} : sent'[t] = sent[t]
  BY DEF WebSocketIInv, WebSocketTypeOK
<1>2. /\ awake /\ attach[s] \in Attachment /\ AttachOK(attach[s], sent'[s], received'[s])
  BY RegisteredFacts
<1>3. QED
  BY <1>1, <1>2, DropStep

\* completeRequest: its fiber may stop at its own pace, or has stopped.
LEMMA CompleteStep ==
  ASSUME ShapeAssumption, WebSocketIInv, Quiet, NEW s \in Registered, NEW r \in Requests,
         NEW f \in Fiber \cup {NoFiber}, SetFiber(connections[s].id, r, f), NEW keep \in BOOLEAN,
         PersistOrReset(s, Completed(connections[s], r, keep), awaiting[s] \ {r}),
         UNCHANGED <<sent, received>>
  PROVE  WebSocketIInv'
<1> DEFINE conn == connections[s]
           new == Completed(conn, r, keep)
<1>1. /\ fibers' \in [ClientIds -> [Requests -> Fiber \cup {NoFiber}]]
      /\ \A q \in Requests \ {r} : fibers'[conn.id][q] = fibers[conn.id][q]
      /\ \A d \in ClientIds \ {conn.id} : fibers'[d] = fibers[d]
  BY RegisteredFacts, SetFiberOK
<1>2. CASE Drop(s, attach[s])
  BY <1>1, <1>2, DropUnsaved
<1>3. CASE Keep(s, new, Image(new), awaiting[s] \ {r})
  <2>1. /\ conn \in Connection /\ ConnOK(conn, sent[s]) /\ SubsOK(conn.subs, sent[s], received[s])
        /\ FibersOK(conn, fibers[conn.id], received[s]) /\ Served(conn, fibers[conn.id], awaiting[s])
        /\ awake /\ build \in Builds /\ awaiting[s] \in SUBSET Requests /\ s \in Sockets
        /\ awaiting[s] # {} => link[s] = "open"
    BY RegisteredFacts
  <2>0. fibers[conn.id] \in [Requests -> Fiber \cup {NoFiber}]
    BY RegisteredFacts
  <2>2. /\ sent' = sent /\ received' = received
        /\ sent \in [Sockets -> SUBSET Requests] /\ received \in [Sockets -> [StreamKeys -> 0..MaxValue]]
    BY DEF WebSocketIInv, WebSocketTypeOK
  <2>3. \A k \in StreamKeys : received[s][k] \in Nat
    BY <2>1, GotIsNat
  <2>4. Keep(s, new, Image(new), awaiting[s] \ {r}) /\ conn.id = connections[s].id
    BY <1>3
  <2> HIDE DEF conn
  <2>5. Completes(conn, new, r, sent[s], received[s])
    BY <2>1, CompletedOK
  <2> HIDE DEF new
  <2>6. /\ new \in Connection /\ new.id = conn.id
        /\ ConnOK(new, sent[s]) /\ SubsOK(new.subs, sent[s], received[s])
        /\ new.requests = conn.requests \ {r} /\ new.current = conn.current \ {r}
        /\ Subscriptions(new.subs) = Subscriptions(conn.subs) \ {r}
        /\ \A q \in Streams \ {r} : new.subs[q] = conn.subs[q]
    BY <2>5 DEF Completes
  <2>7. Image(new) \in Attachment /\ AgreeOK(new, Image(new)) /\ AttachOK(Image(new), sent[s], received[s])
    BY <2>1, <2>6, ImageOK
  <2>8. FibersOK(new, fibers'[conn.id], received[s])
    <3>1. OthersStay(conn, new, r) /\ r \notin Subscriptions(new.subs)
      BY <2>6 DEF OthersStay
    <3>2. GotMore(received[s], received[s])
      BY <2>3 DEF GotMore
    <3>4. QED
      BY <1>1, <2>0, <2>1, <3>1, <3>2, FibersMove
  <2>9. Served(new, fibers'[conn.id], awaiting[s] \ {r})
    BY <1>1, <2>1, <2>6 DEF Served
  <2>10. QED
    BY <1>1, <2>1, <2>2, <2>4, <2>6, <2>7, <2>8, <2>9, KeepStep
<1>4. QED
  BY <1>2, <1>3 DEF PersistOrReset

LEMMA CallInterruptOK ==
  ASSUME ShapeAssumption, WebSocketIInv, NEW s \in Sockets, NEW r \in Requests, InterruptRequest(s, r)
  PROVE  WebSocketIInv'
<1> DEFINE f == [fibers[connections[s].id][r] EXCEPT !.phase = "stopping"]
<1>1. /\ s \in Registered /\ fibers[connections[s].id][r] # NoFiber /\ Quiet
      /\ SetFiber(connections[s].id, r, f) /\ UNCHANGED <<sent, received>>
      /\ PersistOrReset(s, Completed(connections[s], r, Subscribed(connections[s], r)),
                        awaiting[s] \ {r})
  BY DEF InterruptRequest, Hears
<1>2. fibers[connections[s].id][r] \in Fiber
  BY <1>1, RegisteredFacts
<1>3. f \in Fiber
  BY <1>2 DEF Fiber
<1> DEFINE keep == Subscribed(connections[s], r)
<1>4. keep \in BOOLEAN
  BY DEF Subscribed
<1>5. PersistOrReset(s, Completed(connections[s], r, keep), awaiting[s] \ {r})
  BY <1>1
<1> HIDE DEF f, keep
<1>6. QED
  BY <1>1, <1>3, <1>4, <1>5, CompleteStep

\* checkpoint: the fiber that waits goes on exactly when nothing is pending any more.
LEMMA CheckpointOK ==
  ASSUME ShapeAssumption, WebSocketIInv, NEW s \in Sockets, NEW r \in Streams, NEW v \in Values, Checkpoint(s, r, v)
  PROVE  WebSocketIInv'
<1> DEFINE conn == connections[s]
           f == fibers[conn.id][r]
           wakes == [f EXCEPT !.phase = "run"]
<1>1. s \in Registered /\ Subscribed(conn, r) /\ v <= received[s][KeyOf[r]] /\ Quiet /\ UNCHANGED <<sent, received>>
  BY DEF Checkpoint
<1>2. PICK i \in DOMAIN conn.subs[r].pending :
        /\ conn.subs[r].pending[i] = v
        /\ \/ /\ Keep(s, Checkpointed(conn, r, i), Image(Checkpointed(conn, r, i)), awaiting[s])
              /\ IF r \in conn.current \ Checkpointed(conn, r, i).current /\ f # NoFiber /\ f.phase = "wait"
                 THEN SetFiber(conn.id, r, wakes)
                 ELSE UNCHANGED fibers
           \/ Faults /\ Drop(s, attach[s]) /\ UNCHANGED fibers
  BY DEF Checkpoint
<1>3. /\ conn \in Connection /\ ConnOK(conn, sent[s]) /\ SubsOK(conn.subs, sent[s], received[s])
      /\ FibersOK(conn, fibers[conn.id], received[s]) /\ Served(conn, fibers[conn.id], awaiting[s])
      /\ awake /\ build \in Builds /\ awaiting[s] \in SUBSET Requests /\ conn.id \in ClientIds
      /\ awaiting[s] # {} => link[s] = "open"
      /\ fibers \in [ClientIds -> [Requests -> Fiber \cup {NoFiber}]]
  BY <1>1, RegisteredFacts
<1>4. CASE Drop(s, attach[s]) /\ UNCHANGED fibers
  BY <1>1, <1>3, <1>4, DropUnsaved
<1>5. CASE /\ Keep(s, Checkpointed(conn, r, i), Image(Checkpointed(conn, r, i)), awaiting[s])
           /\ IF r \in conn.current \ Checkpointed(conn, r, i).current /\ f # NoFiber /\ f.phase = "wait"
              THEN SetFiber(conn.id, r, wakes)
              ELSE UNCHANGED fibers
  <2> DEFINE new == Checkpointed(conn, r, i)
  <2>0. r \in Requests /\ r \in Subscriptions(conn.subs)
    BY <1>1 DEF Requests, Subscriptions, Subscribed
  <2>1. Checkpoints(conn, new, r, sent[s], received[s])
    BY <1>1, <1>2, <1>3, CheckpointedOK
  <2>2. Keep(s, new, Image(new), awaiting[s]) /\ conn.id = connections[s].id
        /\ IF r \in conn.current \ new.current /\ f # NoFiber /\ f.phase = "wait"
           THEN SetFiber(conn.id, r, wakes)
           ELSE UNCHANGED fibers
    BY <1>5
  <2> HIDE DEF new
  <2>3. /\ new \in Connection /\ new.id = conn.id
        /\ ConnOK(new, sent[s]) /\ SubsOK(new.subs, sent[s], received[s])
        /\ new.requests = conn.requests
        /\ new.current \subseteq conn.current /\ conn.current \ {r} \subseteq new.current
        /\ r \in new.current => new.subs[r].pending # <<>>
    BY <2>1 DEF Checkpoints
  <2>4. OthersStay(conn, new, r)
    BY <2>1, <2>3 DEF Checkpoints, OthersStay
  <2>5. Image(new) \in Attachment /\ AgreeOK(new, Image(new)) /\ AttachOK(Image(new), sent[s], received[s])
    BY <1>3, <2>3, ImageOK
  <2>6. f \in Fiber \cup {NoFiber}
    BY <1>3, <2>0
  <2>7. f # NoFiber => wakes \in Fiber /\ wakes.next = f.next /\ wakes.phase = "run" /\ wakes # NoFiber
    BY <2>6 DEF Fiber, ShapeAssumption
  <2>8. /\ fibers' \in [ClientIds -> [Requests -> Fiber \cup {NoFiber}]]
        /\ \A q \in Requests \ {r} : fibers'[conn.id][q] = fibers[conn.id][q]
        /\ \A d \in ClientIds \ {conn.id} : fibers'[d] = fibers[d]
        /\ fibers'[conn.id][r] = IF r \in conn.current \ new.current /\ f # NoFiber /\ f.phase = "wait"
                                 THEN wakes ELSE f
    <3>1. CASE r \in conn.current \ new.current /\ f # NoFiber /\ f.phase = "wait"
      BY <1>3, <2>0, <2>2, <2>7, <3>1, SetFiberOK
    <3>2. CASE ~ (r \in conn.current \ new.current /\ f # NoFiber /\ f.phase = "wait")
      BY <1>3, <2>2, <3>2
    <3>3. QED
      BY <3>1, <3>2
  <2> HIDE DEF wakes
  <2>9. FibersOK(new, fibers'[conn.id], received[s])
    <3>1. GotMore(received[s], received[s])
      BY GotIsNat DEF GotMore
    <3>2. FiberOK(conn, f, r, received[s])
      BY <1>3, <2>0 DEF FibersOK
    <3>3. FiberOK(new, fibers'[conn.id][r], r, received[s])
      BY <2>3, <2>7, <2>8, <3>2 DEF FiberOK
    <3>4. fibers[conn.id] \in [Requests -> Fiber \cup {NoFiber}]
      BY <1>3
    <3> HIDE DEF conn
    <3>5. QED
      BY <1>3, <2>4, <2>8, <3>1, <3>3, <3>4, FibersMove
  <2>10. Served(new, fibers'[conn.id], awaiting[s])
    BY <1>3, <2>3, <2>7, <2>8 DEF Served
  <2>11. /\ sent' = sent /\ received' = received
         /\ sent \in [Sockets -> SUBSET Requests] /\ received \in [Sockets -> [StreamKeys -> 0..MaxValue]]
    BY <1>1 DEF WebSocketIInv, WebSocketTypeOK
  <2> HIDE DEF conn
  <2>12. QED
    BY <1>1, <1>3, <2>2, <2>3, <2>5, <2>8, <2>9, <2>10, <2>11, KeepStep
<1>6. QED
  BY <1>2, <1>4, <1>5

-----------------------------------------------------------------------------
\* What the server does.

\* The fibers of a client that is gone move unseen.
LEMMA OrphanMoves ==
  ASSUME WebSocketIInv, awake, Quiet, NEW c \in ClientIds, NEW r \in Requests, NEW f \in Fiber \cup {NoFiber},
         fibers[c][r] # NoFiber, SetFiber(c, r, f), SocketOf(c) = {},
         UNCHANGED <<platform, connections, resetSockets, disconnects, client>>
  PROVE  WebSocketIInv'
<1>1. /\ fibers' \in [ClientIds -> [Requests -> Fiber \cup {NoFiber}]]
      /\ \A d \in ClientIds \ {c} : fibers'[d] = fibers[d]
  BY SetFiberOK
<1>2. ASSUME NEW s \in Registered PROVE fibers'[connections[s].id] = fibers[connections[s].id]
  <2>1. connections[s].id \in ClientIds /\ connections[s].id # c
    BY RegisteredFacts DEF SocketOf
  <2>2. QED
    BY <1>1, <2>1
<1>3. c \in disconnects
  BY DEF WebSocketIInv, NoOrphanFibers
<1>4. NoOrphanFibers'
  BY <1>1, <1>3 DEF WebSocketIInv, NoOrphanFibers, SocketOf, Registered
<1>5. QED
  BY <1>1, <1>2, <1>4, FiberStep

\* A Defect ends every request of the client.
LEMMA ClearStep ==
  ASSUME ShapeAssumption, WebSocketIInv, Quiet, NEW s \in Registered,
         Keep(s, Cleared(connections[s]),
              IF connections[s].requests = {} THEN attach[s] ELSE Image(Cleared(connections[s])), {}),
         fibers' \in [ClientIds -> [Requests -> Fiber \cup {NoFiber}]],
         \A c \in ClientIds \ {connections[s].id} : fibers'[c] = fibers[c],
         UNCHANGED <<sent, received>>
  PROVE  WebSocketIInv'
<1> DEFINE conn == connections[s]
           new == Cleared(conn)
           image == IF conn.requests = {} THEN attach[s] ELSE Image(new)
<1>1. /\ conn \in Connection /\ ConnOK(conn, sent[s]) /\ AgreeOK(conn, attach[s]) /\ attach[s] \in Attachment
      /\ AttachOK(attach[s], sent[s], received[s]) /\ awake /\ build \in Builds
  BY RegisteredFacts
<1>2. /\ sent' = sent /\ received' = received
      /\ sent \in [Sockets -> SUBSET Requests] /\ received \in [Sockets -> [StreamKeys -> 0..MaxValue]]
  BY DEF WebSocketIInv, WebSocketTypeOK
<1>3. Keep(s, new, image, {}) /\ conn.id = connections[s].id
  OBVIOUS
<1> HIDE DEF conn
<1>4. Clears(conn, new, sent[s], received[s]) /\ new.subs = NoSubs /\ new.version = conn.version
  BY <1>1, ClearedOK DEF Cleared, Fresh
<1> HIDE DEF new
<1>5. /\ new \in Connection /\ new.id = conn.id /\ new.requests = {}
      /\ ConnOK(new, sent[s]) /\ SubsOK(new.subs, sent[s], received[s]) /\ Subscriptions(new.subs) = {}
  BY <1>4 DEF Clears
<1>6. Image(new) \in Attachment /\ AgreeOK(new, Image(new)) /\ AttachOK(Image(new), sent[s], received[s])
  BY <1>1, <1>5, ImageOK
<1>7. conn.requests = {} => AgreeOK(new, attach[s])
  <2> SUFFICES ASSUME conn.requests = {} PROVE AgreeOK(new, attach[s])
    OBVIOUS
  <2>1. Subscriptions(conn.subs) = {} /\ conn.subs \in [Streams -> Sub \cup {NoSub}]
    BY <1>1 DEF ConnOK, Connection
  <2>2. \A r \in Streams : conn.subs[r] = NoSub
    BY <2>1 DEF Subscriptions
  <2>3. conn.subs = NoSubs
    BY <2>1, <2>2 DEF NoSubs
  <2>4. QED
    BY <1>1, <1>4, <1>5, <2>1, <2>3 DEF AgreeOK
<1>8. image \in Attachment /\ AgreeOK(new, image) /\ AttachOK(image, sent[s], received[s])
  BY <1>1, <1>6, <1>7
<1> HIDE DEF image
<1>9. FibersOK(new, fibers'[conn.id], received[s]) /\ Served(new, fibers'[conn.id], {})
  BY <1>5 DEF FibersOK, Served
<1>10. QED
  BY <1>1, <1>2, <1>3, <1>5, <1>8, <1>9, KeepStep

\* A batch is the next values of the stream, and none for anything else.
LEMMA BatchOK ==
  ASSUME ShapeAssumption, NEW f \in Fiber, NEW values \in Batches(f)
  PROVE  /\ values \in Seq(Values) /\ Len(values) \in Nat /\ f.next + Len(values) \in 0..(MaxValue + 1)
         /\ f.next >= 1 => /\ values # <<>> /\ values[Len(values)] = f.next + Len(values) - 1
                           /\ values[Len(values)] \in Values
<1>1. f.next \in 0..(MaxValue + 1) /\ MaxValue \in Nat /\ MaxChunk \in Nat
  BY DEF Fiber, ShapeAssumption
<1>2. CASE f.next = 0
  <2>1. values = <<>>
    BY <1>2 DEF Batches
  <2>2. QED
    BY <1>1, <1>2, <2>1
<1>3. CASE f.next # 0
  <2>1. PICK n \in {m \in 1..MaxChunk : f.next + m - 1 <= MaxValue} : values = [i \in 1..n |-> f.next + i - 1]
    BY <1>3 DEF Batches
  <2>2. n \in Nat /\ n >= 1 /\ f.next + n - 1 <= MaxValue
    BY <1>1, <2>1
  <2>3. \A i \in 1..n : f.next + i - 1 \in Values
    BY <1>1, <1>3, <2>2 DEF Values
  <2>4. values \in Seq(Values) /\ Len(values) = n
    BY <2>1, <2>2, <2>3
  <2>5. values[n] = f.next + n - 1
    BY <2>1, <2>2
  <2>6. QED
    BY <1>1, <1>3, <2>2, <2>3, <2>4, <2>5
<1>4. QED
  BY <1>2, <1>3

\* send, of a chunk.
LEMMA ChunkStep ==
  ASSUME ShapeAssumption, WebSocketIInv, Quiet, NEW s \in Registered, NEW r \in Requests,
         fibers[connections[s].id][r] # NoFiber,
         NEW values \in Batches(fibers[connections[s].id][r]),
         SetFiber(connections[s].id, r,
                  [phase |-> "wait", next |-> fibers[connections[s].id][r].next + Len(values)]),
         SendChunk(s, r, values), sent' = sent
  PROVE  WebSocketIInv'
<1> DEFINE conn == connections[s]
           f == fibers[conn.id][r]
           f2 == [phase |-> "wait", next |-> f.next + Len(values)]
           tracked == IF Subscribed(conn, r) THEN WithPending(conn, r, values) ELSE conn
           image == IF Subscribed(conn, r) THEN Image(tracked) ELSE attach[s]
<1>1. /\ conn \in Connection /\ ConnOK(conn, sent[s]) /\ SubsOK(conn.subs, sent[s], received[s])
      /\ FibersOK(conn, fibers[conn.id], received[s]) /\ Served(conn, fibers[conn.id], awaiting[s])
      /\ awake /\ build \in Builds /\ awaiting[s] \in SUBSET Requests /\ conn.id \in ClientIds /\ s \in Sockets
      /\ awaiting[s] # {} => link[s] = "open"
      /\ fibers \in [ClientIds -> [Requests -> Fiber \cup {NoFiber}]]
      /\ AgreeOK(conn, attach[s]) /\ attach[s] \in Attachment /\ AttachOK(attach[s], sent[s], received[s])
  BY RegisteredFacts
<1>2. f \in Fiber
  BY <1>1
<1>3. /\ values \in Seq(Values) /\ Len(values) \in Nat /\ f.next + Len(values) \in 0..(MaxValue + 1)
      /\ f.next >= 1 => /\ values # <<>> /\ values[Len(values)] = f.next + Len(values) - 1
                        /\ values[Len(values)] \in Values
  BY <1>2, BatchOK
<1>4. f2 \in Fiber /\ f2.phase = "wait" /\ f2.next = f.next + Len(values)
  BY <1>3 DEF Fiber
<1>5. SetFiber(conn.id, r, f2)
  OBVIOUS
<1>6. /\ sent \in [Sockets -> SUBSET Requests] /\ received \in [Sockets -> [StreamKeys -> 0..MaxValue]]
      /\ \A k \in StreamKeys : received[s][k] \in Nat /\ received[s][k] \in 0..MaxValue
  BY <1>1, GotIsNat DEF WebSocketIInv, WebSocketTypeOK
<1>7. \/ /\ Keep(s, tracked, image, awaiting[s])
         /\ received' = IF Subscribed(conn, r) /\ values[Len(values)] > received[s][KeyOf[r]]
                        THEN [received EXCEPT ![s][KeyOf[r]] = values[Len(values)]]
                        ELSE received
      \/ /\ Keep(s, Cleared(conn), IF conn.requests = {} THEN image ELSE Image(Cleared(conn)), {})
         /\ UNCHANGED received
      \/ /\ \E written \in {attach[s], image} : Drop(s, written)
         /\ UNCHANGED received
  BY DEF SendChunk
<1>8. conn.id = connections[s].id
  OBVIOUS
<1> HIDE DEF f2
<1>9. /\ fibers' \in [ClientIds -> [Requests -> Fiber \cup {NoFiber}]]
      /\ fibers'[conn.id][r] = f2 /\ \A q \in Requests \ {r} : fibers'[conn.id][q] = fibers[conn.id][q]
      /\ \A d \in ClientIds \ {conn.id} : fibers'[d] = fibers[d]
  BY <1>1, <1>4, <1>5, SetFiberOK
<1>10. ASSUME ~ Subscribed(conn, r), Keep(s, tracked, image, awaiting[s]), received' = received
       PROVE  WebSocketIInv'
  BY <1>4, <1>5, <1>10, OneFiberMoves
<1>14. ASSUME Keep(s, Cleared(conn), IF conn.requests = {} THEN image ELSE Image(Cleared(conn)), {}),
              UNCHANGED received
       PROVE  WebSocketIInv'
  <2>1. conn.requests = {} => image = attach[s]
    BY <1>1 DEF ConnOK, Subscribed, Subscriptions
  <2>2. Keep(s, Cleared(conn), IF conn.requests = {} THEN attach[s] ELSE Image(Cleared(conn)), {})
    BY <1>14, <2>1
  <2>3. QED
    BY <1>8, <1>9, <1>14, <2>2, ClearStep
<1> HIDE DEF conn
<1>11. ASSUME Subscribed(conn, r)
       PROVE  KeepsPending(conn, tracked, r, values, sent[s], received[s])
  BY <1>1, <1>3, <1>11, WithPendingOK
<1>12. image \in Attachment /\ AttachOK(image, sent[s], received[s]) /\ (Subscribed(conn, r) => AgreeOK(tracked, image))
  <2>1. CASE Subscribed(conn, r)
    BY <1>1, <1>11, <2>1, ImageOK DEF KeepsPending
  <2>2. CASE ~ Subscribed(conn, r)
    BY <1>1, <2>2
  <2>3. QED
    BY <2>1, <2>2
<1>13. ASSUME NEW written \in {attach[s], image}, Drop(s, written), UNCHANGED received PROVE WebSocketIInv'
  <2>1. written \in Attachment /\ AttachOK(written, sent'[s], received'[s])
    BY <1>1, <1>12, <1>13
  <2>2. sent' \in [Sockets -> SUBSET Requests] /\ (\A t \in Sockets \ {s} : sent'[t] = sent[t]) /\ received' = received
    BY <1>6, <1>13
  <2>3. QED
    BY <1>1, <1>8, <1>9, <1>13, <2>1, <2>2, DropStep
<1>15. ASSUME Subscribed(conn, r), Keep(s, tracked, image, awaiting[s]),
              received' = IF values[Len(values)] > received[s][KeyOf[r]]
                          THEN [received EXCEPT ![s][KeyOf[r]] = values[Len(values)]]
                          ELSE received
       PROVE  WebSocketIInv'
  <2>1. r \in Streams /\ r \in Subscriptions(conn.subs) /\ KeyOf[r] \in StreamKeys
    BY <1>15 DEF Subscribed, Subscriptions, ShapeAssumption
  <2>2. f.next >= 1 /\ f.next \in Nat
    BY <1>1, <1>2, <2>1 DEF FibersOK, FiberOK, Fiber, ShapeAssumption
  <2> DEFINE last == values[Len(values)]
  <2>3. values # <<>> /\ last = f2.next - 1 /\ last \in 0..MaxValue /\ f2.next \in Nat /\ f2.next >= 1
    <3>1. last \in 1..MaxValue /\ last = f.next + Len(values) - 1 /\ values # <<>>
      BY <1>3, <2>2 DEF Values
    <3> HIDE DEF last
    <3>2. QED
      BY <1>3, <1>4, <2>2, <3>1, SMTT(30) DEF ShapeAssumption
  <2>4. received' = IF last > received[s][KeyOf[r]] THEN [received EXCEPT ![s][KeyOf[r]] = last] ELSE received
    BY <1>15
  <2> HIDE DEF last
  <2>5. /\ received' \in [Sockets -> [StreamKeys -> 0..MaxValue]]
        /\ \A t \in Sockets \ {s} : received'[t] = received[t]
        /\ last <= received'[s][KeyOf[r]] /\ received'[s][KeyOf[r]] \in Nat
        /\ GotMore(received[s], received'[s])
    <3>1. CASE last > received[s][KeyOf[r]]
      <4>1. received' = [received EXCEPT ![s] = [received[s] EXCEPT ![KeyOf[r]] = last]]
        BY <1>6, <2>4, <3>1
      <4>2. [received[s] EXCEPT ![KeyOf[r]] = last] \in [StreamKeys -> 0..MaxValue]
        BY <1>1, <1>6, <2>1, <2>3
      <4>3. received'[s] = [received[s] EXCEPT ![KeyOf[r]] = last] /\ received[s] \in [StreamKeys -> 0..MaxValue]
        BY <1>1, <1>6, <4>1
      <4>4. received'[s][KeyOf[r]] = last /\ \A k \in StreamKeys \ {KeyOf[r]} : received'[s][k] = received[s][k]
        BY <2>1, <4>3
      <4>5. GotMore(received[s], received'[s])
        BY <1>6, <2>1, <2>3, <3>1, <4>4, SMTT(30) DEF GotMore, ShapeAssumption
      <4>6. QED
        BY <1>1, <1>6, <2>3, <4>1, <4>2, <4>4, <4>5 DEF ShapeAssumption
    <3>2. CASE ~ (last > received[s][KeyOf[r]])
      BY <1>6, <2>1, <2>3, <2>4, <3>2 DEF GotMore, ShapeAssumption
    <3>3. QED
      BY <3>1, <3>2
  <2>6. /\ tracked \in Connection /\ tracked.id = conn.id
        /\ ConnOK(tracked, sent[s]) /\ SubsOK(tracked.subs, sent[s], received[s])
        /\ tracked.requests = conn.requests /\ r \in tracked.current
        /\ tracked.subs[r].pending = values
        /\ OthersStay(conn, tracked, r)
    BY <1>11, <1>15 DEF KeepsPending, OthersStay
  <2> HIDE DEF tracked, image
  <2>7. FiberOK(tracked, f2, r, received'[s])
    BY <1>4, <2>3, <2>5, <2>6 DEF FiberOK
  <2>8. FibersOK(tracked, fibers'[conn.id], received'[s])
    <3>1. fibers[conn.id] \in [Requests -> Fiber \cup {NoFiber}]
      BY <1>1
    <3>2. QED
      BY <1>1, <1>9, <2>5, <2>6, <2>7, <3>1, FibersMove, ZenonT(60)
  <2>9. Served(tracked, fibers'[conn.id], awaiting[s])
    BY <1>1, <1>4, <1>9, <2>6 DEF Served, ShapeAssumption
  <2>10. AttachOK(image, sent[s], received'[s])
    <3>1. SubsOK(image.subs, sent[s], received[s]) /\ AttachOK(image, sent[s], received[s]) /\ image = Image(tracked)
      BY <1>12, <1>15, <2>6 DEF AttachOK, image, Image, tracked
    <3>2. image.subs = tracked.subs /\ tracked.subs \in [Streams -> Sub \cup {NoSub}]
      BY <2>6, <3>1 DEF Image, Connection
    <3>3. ASSUME NEW q \in Subscriptions(image.subs) PROVE image.subs[q].ack <= received'[s][KeyOf[q]]
      <4>1. q \in Streams /\ image.subs[q] \in Sub /\ KeyOf[q] \in StreamKeys
        BY <3>2 DEF Subscriptions, ShapeAssumption
      <4>2. image.subs[q].ack \in Int
        BY <4>1 DEF Sub, ShapeAssumption
      <4>3. image.subs[q].ack <= received[s][KeyOf[q]]
        BY <3>1 DEF SubsOK
      <4>4. QED
        BY <2>5, <4>1, <4>2, <4>3 DEF GotMore
    <3>4. QED
      BY <3>1, <3>3 DEF AttachOK, SubsOK
  <2>11. sent' \in [Sockets -> SUBSET Requests] /\ \A t \in Sockets \ {s} : sent'[t] = sent[t]
    BY <1>6
  <2>12. AgreeOK(tracked, image) /\ image \in Attachment
    BY <1>12, <1>15 
  <2>13. sent'[s] = sent[s]
    OBVIOUS
  <2>14. Keep(s, tracked, image, awaiting[s])
    BY <1>15
  <2>15. QED
    BY <1>1, <1>8, <1>9, <2>5, <2>6, <2>8, <2>9, <2>10, <2>11, <2>12, <2>13, <2>14, KeepStep, ZenonT(60)
<1>16. QED
  BY <1>7, <1>10, <1>13, <1>14, <1>15

LEMMA EmitOK ==
  ASSUME ShapeAssumption, WebSocketIInv, NEW c \in ClientIds, NEW r \in Requests, Emit(c, r)
  PROVE  WebSocketIInv'
<1>1. awake /\ fibers[c][r] # NoFiber /\ Quiet /\ sent' = sent
  BY DEF Emit
<1>2. PICK values \in Batches(fibers[c][r]) :
        /\ SetFiber(c, r, [phase |-> "wait", next |-> fibers[c][r].next + Len(values)])
        /\ IF SocketOf(c) = {}
           THEN UNCHANGED <<platform, connections, resetSockets, disconnects, awaiting, received>>
           ELSE \E s \in SocketOf(c) : SendChunk(s, r, values)
  BY DEF Emit
<1>3. CASE SocketOf(c) = {}
  <2>1. fibers[c][r] \in Fiber
    BY <1>1 DEF WebSocketIInv, WebSocketTypeOK
  <2>2. fibers[c][r].next + Len(values) \in 0..(MaxValue + 1)
    BY <2>1, BatchOK
  <2>3. [phase |-> "wait", next |-> fibers[c][r].next + Len(values)] \in Fiber \cup {NoFiber}
    BY <2>2 DEF Fiber
  <2>4. UNCHANGED <<platform, connections, resetSockets, disconnects, client>>
    BY <1>1, <1>2, <1>3 DEF client
  <2>5. QED
    BY <1>1, <1>2, <1>3, <2>3, <2>4, OrphanMoves
<1>4. CASE SocketOf(c) # {}
  <2>1. PICK s \in SocketOf(c) : SendChunk(s, r, values)
    BY <1>2, <1>4
  <2>2. s \in Registered /\ connections[s].id = c
    BY DEF SocketOf
  <2>3. QED
    BY <1>1, <1>2, <2>1, <2>2, ChunkStep
<1>5. QED
  BY <1>3, <1>4

\* send of an Exit, of a request that is no longer the connection's: only the filter of
\* late acknowledgements changes.
LEMMA ForgottenExit ==
  ASSUME ShapeAssumption, WebSocketIInv, Quiet, NEW s \in Registered, NEW r \in Requests,
         r \notin connections[s].requests, SetFiber(connections[s].id, r, NoFiber),
         Keep(s, [connections[s] EXCEPT !.suppressed = @ \ {r}], attach[s], awaiting[s] \ {r}),
         UNCHANGED <<sent, received>>
  PROVE  WebSocketIInv'
<1> DEFINE conn == connections[s]
           new == [conn EXCEPT !.suppressed = @ \ {r}]
<1>1. /\ conn \in Connection /\ ConnOK(conn, sent[s]) /\ AgreeOK(conn, attach[s])
      /\ FibersOK(conn, fibers[conn.id], received[s]) /\ Served(conn, fibers[conn.id], awaiting[s])
      /\ awake /\ awaiting[s] \in SUBSET Requests /\ conn.id \in ClientIds
      /\ awaiting[s] # {} => link[s] = "open"
      /\ attach[s] \in Attachment /\ AttachOK(attach[s], sent[s], received[s])
  BY RegisteredFacts
<1>2. /\ fibers' \in [ClientIds -> [Requests -> Fiber \cup {NoFiber}]]
      /\ \A q \in Requests \ {r} : fibers'[conn.id][q] = fibers[conn.id][q]
      /\ \A d \in ClientIds \ {conn.id} : fibers'[d] = fibers[d]
  BY <1>1, SetFiberOK
<1>3. /\ sent' = sent /\ received' = received
      /\ sent \in [Sockets -> SUBSET Requests] /\ received \in [Sockets -> [StreamKeys -> 0..MaxValue]]
  BY DEF WebSocketIInv, WebSocketTypeOK
<1>4. Keep(s, new, attach[s], awaiting[s] \ {r}) /\ conn.id = connections[s].id
  OBVIOUS
<1>5. fibers[conn.id] \in [Requests -> Fiber \cup {NoFiber}] /\ GotMore(received[s], received[s])
  BY RegisteredFacts, GotIsNat DEF GotMore
<1>0. r \notin conn.requests
  OBVIOUS
<1> HIDE DEF conn
<1>6. /\ new \in Connection /\ new.id = conn.id /\ new.version = conn.version /\ new.subs = conn.subs
      /\ new.requests = conn.requests /\ new.plain = conn.plain /\ new.current = conn.current
  BY <1>1 DEF Connection
<1> HIDE DEF new
<1>7. ConnOK(new, sent[s]) /\ AgreeOK(new, attach[s]) /\ r \notin Subscriptions(new.subs)
  <2>1. ConnOK(new, sent[s])
    BY <1>1, <1>6 DEF ConnOK
  <2>2. AgreeOK(new, attach[s])
    BY <1>1, <1>6 DEF AgreeOK
  <2>3. r \notin Subscriptions(new.subs)
    BY <1>0, <1>1, <1>6 DEF ConnOK
  <2>4. QED
    BY <2>1, <2>2, <2>3
<1>11. OthersStay(conn, new, r)
  BY <1>6 DEF OthersStay
<1>8. FibersOK(new, fibers'[conn.id], received[s])
  BY <1>1, <1>2, <1>5, <1>7, <1>11, FibersMove
<1>9. Served(new, fibers'[conn.id], awaiting[s] \ {r})
  BY <1>1, <1>2, <1>6 DEF Served
<1>12. /\ awaiting[s] \ {r} \in SUBSET Requests /\ (awaiting[s] \ {r} # {} => link[s] = "open")
       /\ ConnOK(new, sent'[s]) /\ AttachOK(attach[s], sent'[s], received'[s])
       /\ FibersOK(new, fibers'[conn.id], received'[s])
  BY <1>1, <1>3, <1>7, <1>8
<1>13. awake /\ attach[s] \in Attachment /\ new.id = connections[s].id
  BY <1>1, <1>4, <1>6
<1>10. QED
  BY <1>2, <1>3, <1>4, <1>6, <1>7, <1>9, <1>12, <1>13, KeepStep

LEMMA FinishOK ==
  ASSUME ShapeAssumption, WebSocketIInv, NEW c \in ClientIds, NEW r \in Requests, FinishRequest(c, r)
  PROVE  WebSocketIInv'
<1>1. /\ awake /\ fibers[c][r] # NoFiber /\ Quiet /\ UNCHANGED <<sent, received>> /\ SetFiber(c, r, NoFiber)
      /\ IF SocketOf(c) = {}
         THEN UNCHANGED <<platform, connections, resetSockets, disconnects, awaiting>>
         ELSE \E s \in SocketOf(c) : SendExit(s, r)
  BY DEF FinishRequest
<1>2. CASE SocketOf(c) = {}
  <2>1. UNCHANGED <<platform, connections, resetSockets, disconnects, client>>
    BY <1>1, <1>2 DEF client
  <2>2. QED
    BY <1>1, <1>2, <2>1, OrphanMoves
<1>3. CASE SocketOf(c) # {}
  <2>1. PICK s \in SocketOf(c) : SendExit(s, r)
    BY <1>1, <1>3
  <2>2. s \in Registered /\ connections[s].id = c
    BY DEF SocketOf
  <2>3. CASE r \in connections[s].requests /\ PersistOrReset(s, Completed(connections[s], r, FALSE), awaiting[s] \ {r})
    BY <1>1, <2>2, <2>3, CompleteStep
  <2>4. CASE /\ r \notin connections[s].requests
             /\ Keep(s, [connections[s] EXCEPT !.suppressed = @ \ {r}], attach[s], awaiting[s] \ {r})
    BY <1>1, <2>2, <2>4, ForgottenExit
  <2>5. CASE Drop(s, attach[s])
    BY <1>1, <2>2, <2>5, SetFiberOK, DropUnsaved
  <2>6. QED
    BY <2>1, <2>3, <2>4, <2>5 DEF SendExit
<1>4. QED
  BY <1>2, <1>3

LEMMA DisconnectOK ==
  ASSUME ShapeAssumption, WebSocketIInv, NEW c \in ClientIds, Disconnect(c)
  PROVE  WebSocketIInv'
<1>1. /\ awake /\ c \in disconnects /\ disconnects' = disconnects \ {c} /\ Quiet
      /\ fibers' = [fibers EXCEPT ![c] = [r \in Requests |-> NoFiber]]
      /\ UNCHANGED <<platform, connections, resetSockets, client>>
  BY DEF Disconnect
<1>2. /\ fibers' \in [ClientIds -> [Requests -> Fiber \cup {NoFiber}]]
      /\ fibers'[c] = [r \in Requests |-> NoFiber]
      /\ \A d \in ClientIds \ {c} : fibers'[d] = fibers[d]
  BY <1>1 DEF WebSocketIInv, WebSocketTypeOK
<1>3. ASSUME NEW s \in Registered PROVE fibers'[connections[s].id] = fibers[connections[s].id]
  <2>1. connections[s].id \in ClientIds /\ connections[s].id # c
    BY <1>1, RegisteredFacts DEF WebSocketIInv, Gone
  <2>2. QED
    BY <1>2, <2>1
<1>4. NoOrphanFibers'
  <2> SUFFICES ASSUME NEW d \in ClientIds, NEW r \in Requests, fibers'[d][r] # NoFiber
               PROVE  SocketOf(d)' # {} \/ d \in disconnects'
    BY DEF NoOrphanFibers
  <2>1. d # c /\ fibers[d][r] # NoFiber
    BY <1>2
  <2>2. SocketOf(d) # {} \/ d \in disconnects
    BY <2>1 DEF WebSocketIInv, NoOrphanFibers
  <2>3. QED
    BY <1>1, <2>1, <2>2 DEF SocketOf, Registered
<1>5. QED
  BY <1>1, <1>2, <1>3, <1>4, FiberStep

-----------------------------------------------------------------------------
\* What the platform and the client do to a socket.

\* A socket that closes on its way leaves everything else as it is.
LEMMA ClosingStep ==
  ASSUME ShapeAssumption, WebSocketIInv, NEW s \in Sockets, link[s] \in {"open", "closing"},
         link' = [link EXCEPT ![s] = "closing"], awaiting' = [awaiting EXCEPT ![s] = {}],
         UNCHANGED <<attach, paired, activation, server, sent, received, restarts>>
  PROVE  WebSocketIInv'
<1>1. /\ attach' = attach /\ paired' = paired /\ awake' = awake /\ build' = build /\ resetSockets' = resetSockets
      /\ nextClientId' = nextClientId /\ connections' = connections /\ fibers' = fibers
      /\ disconnects' = disconnects /\ sent' = sent /\ received' = received /\ restarts' = restarts
  BY DEF activation, server
<1>2. WebSocketTypeOK'
  BY <1>1 DEF WebSocketIInv, WebSocketTypeOK
<1>3. /\ link'[s] = "closing" /\ awaiting'[s] = {}
      /\ \A t \in Sockets \ {s} : link'[t] = link[t] /\ awaiting'[t] = awaiting[t]
  BY <1>1 DEF WebSocketIInv, WebSocketTypeOK
<1>4. ASSUME NEW t \in Sockets PROVE SocketOK(t)'
  <2>1. SocketOK(t)
    BY DEF WebSocketIInv
  <2>2. AttachOK(attach[t], sent[t], received[t])'
    BY <1>1, <2>1 DEF SocketOK
  <2>3. CASE t = s
    BY <1>1, <1>3, <2>1, <2>2, <2>3 DEF SocketOK, Recorded
  <2>4. CASE t # s
    BY <1>1, <1>3, <2>1, <2>2, <2>4 DEF SocketOK, Recorded
  <2>5. QED
    BY <2>3, <2>4
<1>5. ASSUME NEW t \in Sockets PROVE ConnectionOK(t)'
  <2>1. ConnectionOK(t)
    BY DEF WebSocketIInv
  <2>2. CASE t = s
    BY <1>1, <1>3, <2>1, <2>2 DEF ConnectionOK, Served
  <2>3. CASE t # s
    BY <1>1, <1>3, <2>1, <2>3 DEF ConnectionOK
  <2>4. QED
    BY <2>2, <2>3
<1>6. Registered' = Registered /\ \A c \in ClientIds : SocketOf(c)' = SocketOf(c)
  BY <1>1 DEF Registered, SocketOf
<1>7. Distinct' /\ Gone' /\ Asleep' /\ Paired' /\ NoOrphanFibers'
  BY <1>1, <1>6 DEF WebSocketIInv, Distinct, Gone, Asleep, Paired, NoOrphanFibers
<1>8. PairWhileOpen'
  BY <1>1, <1>3 DEF WebSocketIInv, PairWhileOpen
<1>9. QED
  BY <1>2, <1>4, <1>5, <1>7, <1>8 DEF WebSocketIInv

LEMMA LeaveOK ==
  ASSUME ShapeAssumption, WebSocketIInv, NEW s \in Sockets, Leave(s)
  PROVE  WebSocketIInv'
BY ClosingStep DEF Leave

LEMMA ErrorOK ==
  ASSUME ShapeAssumption, WebSocketIInv, NEW s \in Sockets, Error(s)
  PROVE  WebSocketIInv'
<1>1. awake /\ link[s] = "open" /\ Drop(s, attach[s]) /\ Quiet /\ UNCHANGED <<fibers, sent, received>>
  BY DEF Error
<1>2. s \in Registered
  BY <1>1 DEF WebSocketIInv, ConnectionOK, Registered
<1>3. fibers \in [ClientIds -> [Requests -> Fiber \cup {NoFiber}]]
  BY DEF WebSocketIInv, WebSocketTypeOK
<1>4. QED
  BY <1>1, <1>2, <1>3, DropUnsaved

LEMMA BadFrameOK ==
  ASSUME ShapeAssumption, WebSocketIInv, NEW s \in Sockets, BadFrame(s)
  PROVE  WebSocketIInv'
<1>1. s \in Registered /\ Quiet /\ UNCHANGED <<fibers, sent, received>> /\ link[s] \in {"open", "closing"}
  BY DEF BadFrame, Hears
<1>2. fibers \in [ClientIds -> [Requests -> Fiber \cup {NoFiber}]]
  BY DEF WebSocketIInv, WebSocketTypeOK
<1>3. CASE /\ link' = [link EXCEPT ![s] = "closing"] /\ awaiting' = [awaiting EXCEPT ![s] = {}]
           /\ UNCHANGED <<attach, paired, connections, resetSockets, disconnects>>
  <2>1. UNCHANGED <<attach, paired, activation, server, sent, received, restarts>>
    BY <1>1, <1>3 DEF Quiet, activation, server
  <2>2. QED
    BY <1>1, <1>3, <2>1, ClosingStep
<1>4. CASE Keep(s, Cleared(connections[s]),
                IF connections[s].requests = {} THEN attach[s] ELSE Image(Cleared(connections[s])), {})
  BY <1>1, <1>2, <1>4, ClearStep
<1>5. CASE Drop(s, attach[s])
  BY <1>1, <1>2, <1>5, DropUnsaved
<1>6. QED
  BY <1>3, <1>4, <1>5 DEF BadFrame

LEMMA CloseOK ==
  ASSUME ShapeAssumption, WebSocketIInv, NEW s \in Sockets, CloseSocket(s)
  PROVE  WebSocketIInv'
<1>1. /\ awake /\ link[s] = "closing" /\ Quiet
      /\ connections' = [connections EXCEPT ![s] = NoConnection] /\ link' = [link EXCEPT ![s] = "closed"]
      /\ resetSockets' = resetSockets \cup {s}
      /\ disconnects' = disconnects \cup (IF s \in Registered THEN {connections[s].id} ELSE {})
      /\ paired' = IF s \in Registered THEN Synced(connections') ELSE paired
      /\ attach' = attach /\ fibers' = fibers /\ sent' = sent /\ received' = received /\ awaiting' = awaiting
  BY DEF CloseSocket, client
<1>2. /\ connections'[s] = NoConnection /\ link'[s] = "closed"
      /\ \A t \in Sockets \ {s} : connections'[t] = connections[t] /\ link'[t] = link[t]
  BY <1>1 DEF WebSocketIInv, WebSocketTypeOK
<1>3. \A t \in Registered : connections[t].id \in ClientIds /\ (t # s /\ s \in Registered => connections[t].id # connections[s].id)
  BY RegisteredFacts DEF WebSocketIInv, Distinct
<1>4. WebSocketTypeOK'
  BY <1>1, <1>3 DEF Quiet, Synced, WebSocketIInv, WebSocketTypeOK
<1>5. Registered' = Registered \ {s}
  BY <1>1, <1>2 DEF Registered
<1>6. ASSUME NEW t \in Sockets PROVE SocketOK(t)' /\ ConnectionOK(t)'
  <2>1. CASE t # s
    <3>1. awake' = awake /\ nextClientId' = nextClientId
      BY <1>1 DEF Quiet
    <3>2. QED
      BY <1>1, <1>2, <2>1, <3>1, SocketUndisturbed
  <2>2. CASE t = s
    <3>1. SocketOK(s) /\ awaiting[s] = {} /\ awake' = awake
      BY <1>1 DEF WebSocketIInv, SocketOK, Quiet
    <3>2. QED
      BY <1>1, <1>2, <2>2, <3>1 DEF SocketOK, ConnectionOK
  <2>3. QED
    BY <2>1, <2>2
<1>7. \A t \in Registered' : t \in Registered \ {s} /\ connections'[t].id = connections[t].id
  BY <1>1, <1>2, <1>5 DEF Registered
<1>8. Distinct'
  BY <1>7 DEF Distinct, WebSocketIInv
<1>9. Gone'
  <2>1. s \in Registered => connections[s].id < nextClientId
    BY DEF WebSocketIInv, ConnectionOK, Registered
  <2>2. nextClientId' = nextClientId
    BY <1>1 DEF Quiet
  <2>3. QED
    BY <1>1, <1>3, <1>7, <2>1, <2>2 DEF Gone, WebSocketIInv
<1>10. Asleep' /\ Paired'
  <2>1. awake'
    BY <1>1 DEF Quiet
  <2>2. CASE s \in Registered
    BY <1>1, <1>5, <2>1, <2>2 DEF Asleep, Paired, Synced, Registered
  <2>3. CASE s \notin Registered
    BY <1>1, <1>5, <2>1, <2>3 DEF Asleep, Paired, WebSocketIInv
  <2>4. QED
    BY <2>2, <2>3
<1>11. PairWhileOpen'
  <2>1. awake'
    BY <1>1 DEF Quiet
  <2>2. QED
    BY <1>6, <1>10, <2>1 DEF PairWhileOpen, Paired, ConnectionOK, Registered
<1>12. NoOrphanFibers'
  <2> SUFFICES ASSUME NEW c \in ClientIds, NEW r \in Requests, fibers[c][r] # NoFiber
               PROVE  SocketOf(c)' # {} \/ c \in disconnects'
    BY <1>1 DEF NoOrphanFibers
  <2>1. CASE c \in disconnects
    BY <1>1, <2>1
  <2>2. CASE SocketOf(c) # {}
    <3>1. PICK t \in Registered : connections[t].id = c
      BY <2>2 DEF SocketOf
    <3>2. CASE t = s
      BY <1>1, <3>1, <3>2
    <3>3. CASE t # s
      <4>1. t \in Registered' /\ connections'[t].id = c
        BY <1>5, <1>7, <3>1, <3>3
      <4>2. QED
        BY <4>1 DEF SocketOf
    <3>4. QED
      BY <3>2, <3>3
  <2>3. QED
    BY <2>1, <2>2 DEF WebSocketIInv, NoOrphanFibers
<1>13. QED
  BY <1>4, <1>6, <1>8, <1>9, <1>10, <1>11, <1>12 DEF WebSocketIInv

\* Hibernation leaves what is attached, which says what each client still awaits.
LEMMA HibernateOK ==
  ASSUME ShapeAssumption, WebSocketIInv, Hibernate
  PROVE  WebSocketIInv'
<1>1. /\ awake /\ restarts < MaxRestarts /\ restarts' = restarts + 1 /\ awake' = FALSE
      /\ connections' = [s \in Sockets |-> NoConnection]
      /\ resetSockets' = {} /\ nextClientId' = 0 /\ disconnects' = {}
      /\ fibers' = [c \in ClientIds |-> [r \in Requests |-> NoFiber]]
      /\ link' = link /\ attach' = attach /\ paired' = paired /\ build' = build
      /\ sent' = sent /\ awaiting' = awaiting /\ received' = received
  BY DEF Hibernate, platform, client
<1>2. WebSocketTypeOK'
  <2>1. restarts \in 0..MaxRestarts /\ MaxRestarts \in Nat /\ MaxClients \in Nat
    BY DEF WebSocketIInv, WebSocketTypeOK, ShapeAssumption
  <2>2. restarts' \in 0..MaxRestarts /\ nextClientId' \in 0..MaxClients
    BY <1>1, <2>1
  <2>3. QED
    BY <1>1, <2>2 DEF WebSocketIInv, WebSocketTypeOK
<1>3. Registered' = {}
  BY <1>1 DEF Registered
<1>4. ASSUME NEW s \in Sockets PROVE ConnectionOK(s)'
  BY <1>1 DEF ConnectionOK
<1>5. ASSUME NEW s \in Sockets PROVE SocketOK(s)'
  <2>1. SocketOK(s) /\ ConnectionOK(s)
    BY DEF WebSocketIInv
  <2>2. Recorded(attach[s], awaiting[s])
    <3> SUFFICES ASSUME NEW r \in awaiting[s]
                 PROVE  attach[s].busy /\ (attach[s].version = 2 => Subscribed(attach[s], r) \/ attach[s].plain)
      BY DEF Recorded
    <3>1. s \in Registered
      BY <1>1, <2>1 DEF SocketOK, ConnectionOK, Registered
    <3>2. /\ AgreeOK(connections[s], attach[s]) /\ r \in connections[s].requests
          /\ ConnOK(connections[s], sent[s])
      BY <3>1, RegisteredFacts DEF Served
    <3>3. attach[s].busy
      BY <3>2 DEF AgreeOK
    <3>4. ASSUME attach[s].version = 2 PROVE Subscribed(attach[s], r) \/ attach[s].plain
      BY <3>2, <3>4 DEF AgreeOK, Subscribed, Subscriptions
    <3>5. QED
      BY <3>3, <3>4
  <2>3. AttachOK(attach[s], sent[s], received[s])'
    BY <1>1, <2>1 DEF SocketOK
  <2>4. Recorded(attach[s], awaiting[s])'
    BY <1>1, <2>2 DEF Recorded
  <2>5. QED
    BY <1>1, <2>1, <2>3, <2>4 DEF SocketOK
<1>6. Distinct' /\ Gone' /\ Asleep' /\ Paired' /\ PairWhileOpen' /\ NoOrphanFibers'
  BY <1>1, <1>3 DEF WebSocketIInv, Distinct, Gone, Asleep, Paired, PairWhileOpen, NoOrphanFibers
<1>7. QED
  BY <1>2, <1>4, <1>5, <1>6 DEF WebSocketIInv

\* A new socket gets an id that no other has.
LEMMA AcceptOK ==
  ASSUME ShapeAssumption, WebSocketIInv, NEW s \in Sockets, Accept(s)
  PROVE  WebSocketIInv'
<1> DEFINE conn == Fresh(nextClientId)
<1>1. /\ awake /\ link[s] = "unused" /\ nextClientId \in ClientIds /\ nextClientId' = nextClientId + 1
      /\ attach' = [attach EXCEPT ![s] = Image(conn)] /\ link' = [link EXCEPT ![s] = "open"]
      /\ connections' = [connections EXCEPT ![s] = conn] /\ paired' = Synced(connections')
      /\ awake' = awake /\ build' = build /\ resetSockets' = resetSockets /\ fibers' = fibers
      /\ disconnects' = disconnects /\ sent' = sent /\ awaiting' = awaiting /\ received' = received
      /\ restarts' = restarts
  BY DEF Accept, reserveClientId, server, client
<1>2. /\ conn \in Connection /\ conn.id = nextClientId /\ ConnOK(conn, sent[s]) /\ conn.requests = {}
      /\ conn.subs = NoSubs /\ conn # NoConnection
  BY <1>1, NoSubsOK DEF Fresh, Connection, ConnOK, ShapeAssumption
<1> HIDE DEF conn
<1>3. SubsOK(conn.subs, sent[s], received[s]) /\ Subscriptions(conn.subs) = {}
  BY <1>2, NoSubsOK DEF SubsOK
<1>4. build \in Builds
  BY DEF WebSocketIInv, WebSocketTypeOK
<1>5. /\ Image(conn) \in Attachment /\ AgreeOK(conn, Image(conn))
      /\ AttachOK(Image(conn), sent[s], received[s])
  BY <1>2, <1>3, <1>4, ImageOK
<1>6. nextClientId \in Nat /\ nextClientId' \in 0..MaxClients
  BY <1>1 DEF ClientIds, ShapeAssumption
<1>7. WebSocketTypeOK'
  BY <1>1, <1>2, <1>5, <1>6 DEF WebSocketIInv, WebSocketTypeOK, Synced
<1>8. /\ connections'[s] = conn /\ attach'[s] = Image(conn) /\ link'[s] = "open"
      /\ \A t \in Sockets \ {s} : connections'[t] = connections[t] /\ attach'[t] = attach[t] /\ link'[t] = link[t]
  BY <1>1 DEF WebSocketIInv, WebSocketTypeOK
<1>9. SocketOK(s) /\ ConnectionOK(s)
  BY DEF WebSocketIInv
<1>10. connections[s] = NoConnection /\ awaiting[s] = {} /\ s \notin resetSockets
  BY <1>1, <1>9 DEF ConnectionOK, SocketOK
<1>11. \A t \in Registered : /\ t # s /\ connections[t].id < nextClientId /\ connections[t].id \in Nat
                             /\ connections[t].id \in ClientIds
  <2> SUFFICES ASSUME NEW t \in Registered
               PROVE  /\ t # s /\ connections[t].id < nextClientId /\ connections[t].id \in Nat
                      /\ connections[t].id \in ClientIds
    OBVIOUS
  <2>1. ConnectionOK(t) /\ connections[t].id \in ClientIds /\ connections[t] # NoConnection
    BY RegisteredFacts DEF WebSocketIInv
  <2>2. QED
    BY <1>10, <2>1 DEF ConnectionOK, ClientIds, ShapeAssumption
<1>12. Registered' = Registered \cup {s}
  BY <1>2, <1>8 DEF Registered
<1>13. ASSUME NEW t \in Sockets PROVE SocketOK(t)' /\ ConnectionOK(t)'
  <2>1. CASE t = s
    <3>1. SocketOK(s)'
      BY <1>1, <1>5, <1>8, <1>10 DEF SocketOK
    <3>2. FibersOK(conn, fibers[conn.id], received[s]) /\ Served(conn, fibers[conn.id], {})
      BY <1>3 DEF FibersOK, Served
    <3>3. conn.id < nextClientId'
      BY <1>1, <1>2, <1>6
    <3>4. ConnectionOK(s)'
      BY <1>1, <1>2, <1>5, <1>8, <1>10, <3>2, <3>3 DEF ConnectionOK
    <3>5. QED
      BY <2>1, <3>1, <3>4
  <2>2. CASE t # s
    <3>1. SocketOK(t) /\ ConnectionOK(t)
      BY DEF WebSocketIInv
    <3>2. SocketOK(t)'
      BY <1>1, <1>8, <2>2, <3>1 DEF SocketOK
    <3>3. t \in Registered => connections[t].id < nextClientId'
      BY <1>1, <1>6, <1>11
    <3>4. ConnectionOK(t)'
      BY <1>1, <1>8, <2>2, <3>1, <3>3 DEF ConnectionOK, Registered
    <3>5. QED
      BY <3>2, <3>4
  <2>3. QED
    BY <2>1, <2>2
<1>14. \A t \in Registered : connections'[t] = connections[t] /\ connections[t].id # conn.id
  BY <1>2, <1>6, <1>8, <1>11 DEF Registered
<1>15. Distinct'
  BY <1>8, <1>12, <1>14 DEF Distinct, WebSocketIInv
<1>16. Gone'
  <2> SUFFICES ASSUME NEW c \in disconnects
               PROVE  c < nextClientId' /\ \A t \in Registered' : connections'[t].id # c
    BY <1>1 DEF Gone
  <2>1. c < nextClientId /\ c \in Nat /\ \A t \in Registered : connections[t].id # c
    BY DEF WebSocketIInv, Gone, WebSocketTypeOK, ClientIds
  <2>2. QED
    BY <1>1, <1>2, <1>6, <1>8, <1>12, <1>14, <2>1
<1>17. Asleep' /\ Paired' /\ PairWhileOpen'
  BY <1>1, <1>2, <1>8, <1>12 DEF Asleep, Paired, PairWhileOpen, Synced, Registered
<1>18. NoOrphanFibers'
  <2>1. \A c \in ClientIds : SocketOf(c) \subseteq SocketOf(c)'
    BY <1>12, <1>14 DEF SocketOf
  <2>2. QED
    BY <1>1, <2>1 DEF WebSocketIInv, NoOrphanFibers
<1>19. QED
  BY <1>7, <1>13, <1>15, <1>16, <1>17, <1>18 DEF WebSocketIInv

-----------------------------------------------------------------------------
\* The next activation.

\* A set of naturals that is not empty has a least member.
LEMMA LeastNat ==
  ASSUME NEW T \in SUBSET Nat, T # {}
  PROVE  \E x \in T : \A y \in T : x <= y
<1>1. IsWellFoundedOn(OpToRel(<, Nat), Nat)
  BY NatLessThanWellFounded
<1>2. PICK x \in T : \A y \in T : ~ (<<y, x>> \in OpToRel(<, Nat))
  BY <1>1, WFMin
<1>3. ASSUME NEW y \in T PROVE x <= y
  <2>1. x \in Nat /\ y \in Nat /\ ~ (<<y, x>> \in OpToRel(<, Nat))
    BY <1>2
  <2>2. ~ (y < x)
    BY <2>1 DEF OpToRel
  <2>3. x \in Nat /\ y \in Nat
    OBVIOUS
  <2>4. QED
    BY <2>2, <2>3
<1>4. QED
  BY <1>3

\* The ids that are restored are taken: the next one is above them.
LEMMA NextIdOK ==
  ASSUME ShapeAssumption, NEW kept, \A s \in kept : attach[s].id \in ClientIds
  PROVE  NextId(kept) \in 0..MaxClients /\ \A s \in kept : attach[s].id < NextId(kept)
<1>1. MaxClients \in Nat
  BY DEF ShapeAssumption
<1>2. CASE kept = {}
  BY <1>1, <1>2 DEF NextId
<1>3. CASE kept # {}
  <2> DEFINE free == {MaxClients - attach[s].id : s \in kept}
  <2>1. \A s \in kept : attach[s].id \in Nat /\ attach[s].id < MaxClients
    BY <1>1 DEF ClientIds
  <2>2. free \in SUBSET Nat /\ free # {}
    BY <1>1, <1>3, <2>1
  <2>3. PICK x \in free : \A y \in free : x <= y
    <3> HIDE DEF free
    <3>1. QED
      BY <2>2, LeastNat
  <2>4. PICK last \in kept : x = MaxClients - attach[last].id
    BY DEF free
  <2>5. \A s \in kept : attach[s].id <= attach[last].id
    <3> SUFFICES ASSUME NEW s \in kept PROVE attach[s].id <= attach[last].id
      OBVIOUS
    <3>1. x <= MaxClients - attach[s].id
      BY <2>3
    <3>2. QED
      BY <1>1, <2>1, <2>4, <3>1
  <2>6. \E c \in ClientIds : /\ \E s \in kept : attach[s].id = c
                             /\ \A s \in kept : attach[s].id <= c
    BY <2>5
  <2>7. LastId(kept) \in ClientIds /\ \A s \in kept : attach[s].id <= LastId(kept)
    BY <2>6 DEF LastId
  <2>8. QED
    BY <1>1, <1>3, <2>1, <2>7 DEF NextId, ClientIds
<1>4. QED
  BY <1>2, <1>3

\* What is restored of an intact attachment is its connection at rest.
LEMMA RestoredOK ==
  ASSUME ShapeAssumption, WebSocketIInv, NEW s \in Sockets, NEW b, Intact(s, b)
  PROVE  LET conn == Restored(s) IN
         /\ conn \in Connection /\ ConnOK(conn, sent[s]) /\ AgreeOK(conn, attach[s])
         /\ conn.id = attach[s].id /\ conn.subs = attach[s].subs /\ conn.current = {}
         /\ conn.requests = Subscriptions(attach[s].subs)
<1> DEFINE conn == Restored(s)
<1>1. attach[s] \in Attachment /\ attach[s] # NoAttachment
  BY DEF Intact, readAttachment, WebSocketIInv, WebSocketTypeOK
<1>2. SubsOK(attach[s].subs, sent[s], received[s]) /\ (attach[s].version = 1 => Subscriptions(attach[s].subs) = {})
  BY <1>1 DEF WebSocketIInv, SocketOK, AttachOK
<1>3. Subscriptions(attach[s].subs) \subseteq Requests
  BY DEF Subscriptions, Requests
<1>4. /\ attach[s].id \in ClientIds /\ attach[s].version \in {1, 2}
      /\ attach[s].subs \in [Streams -> Sub \cup {NoSub}]
  BY <1>1 DEF Attachment
<1>5. /\ conn \in Connection /\ conn.id = attach[s].id /\ conn.version = attach[s].version
      /\ conn.subs = attach[s].subs /\ conn.requests = Subscriptions(attach[s].subs)
      /\ conn.plain = {} /\ conn.current = {}
  BY <1>3, <1>4 DEF Restored, Fresh, Connection
<1> HIDE DEF conn
<1>6. ConnOK(conn, sent[s])
  BY <1>2, <1>5 DEF ConnOK, SubsOK
<1>7. AgreeOK(conn, attach[s])
  BY <1>1, <1>2, <1>4, <1>5 DEF AgreeOK, Intact
<1>8. QED
  BY <1>5, <1>6, <1>7 DEF conn

\* A subscription of a kept socket goes on one value behind its checkpoint.
LEMMA ReplayedOK ==
  ASSUME ShapeAssumption, WebSocketIInv, NEW kept \in SUBSET Sockets, NEW s \in kept, NEW r \in Streams,
         \A p, q \in kept : attach[p].id = attach[q].id => p = q,
         Subscribed(attach[s], r)
  PROVE  Replayed(kept, attach[s].id, r) = [phase |-> "run", next |-> attach[s].subs[r].ack + 1]
<1>1. (CHOOSE t \in kept : attach[t].id = attach[s].id) = s
  OBVIOUS
<1>2. QED
  BY <1>1 DEF Replayed

LEMMA ReplayTyped ==
  ASSUME ShapeAssumption, WebSocketIInv, NEW kept \in SUBSET Sockets, NEW c, NEW r \in Requests,
         \A s \in kept : attach[s] \in Attachment,
         \A p, q \in kept : attach[p].id = attach[q].id => p = q
  PROVE  /\ Replayed(kept, c, r) \in Fiber \cup {NoFiber}
         /\ Replayed(kept, c, r) # NoFiber => \E s \in kept : attach[s].id = c
<1>1. CASE \E s \in kept : attach[s].id = c /\ Subscribed(attach[s], r)
  <2>1. PICK s \in kept : attach[s].id = c /\ Subscribed(attach[s], r)
    BY <1>1
  <2>2. r \in Streams /\ attach[s].subs[r] \in Sub
    BY <2>1 DEF Subscribed, Attachment
  <2>3. attach[s].subs[r].ack \in 0..MaxValue /\ MaxValue \in Nat
    BY <2>2 DEF Sub, ShapeAssumption
  <2>4. attach[s].subs[r].ack + 1 \in 0..(MaxValue + 1)
    BY <2>3
  <2>5. Replayed(kept, c, r) = [phase |-> "run", next |-> attach[s].subs[r].ack + 1]
    BY <2>1, <2>2, ReplayedOK
  <2>6. QED
    BY <2>1, <2>4, <2>5 DEF Fiber
<1>2. CASE ~ \E s \in kept : attach[s].id = c /\ Subscribed(attach[s], r)
  BY <1>2 DEF Replayed
<1>3. QED
  BY <1>1, <1>2

\* What a kept socket comes back to: its connection, and a fiber for each request.
LEMMA KeptOK ==
  ASSUME ShapeAssumption, WebSocketIInv, ~ awake, NEW kept \in SUBSET Sockets, NEW s \in kept, NEW b, Intact(s, b),
         \A p, q \in kept : attach[p].id = attach[q].id => p = q,
         fibers' = [c \in ClientIds |-> [r \in Requests |-> Replayed(kept, c, r)]]
  PROVE  /\ FibersOK(Restored(s), fibers'[attach[s].id], received[s])
         /\ Served(Restored(s), fibers'[attach[s].id], awaiting[s])
<1> DEFINE conn == Restored(s)
<1>1. /\ conn \in Connection /\ ConnOK(conn, sent[s]) /\ AgreeOK(conn, attach[s])
      /\ conn.id = attach[s].id /\ conn.subs = attach[s].subs /\ conn.current = {}
      /\ conn.requests = Subscriptions(attach[s].subs)
  BY RestoredOK
<1>2. /\ attach[s] \in Attachment /\ SubsOK(attach[s].subs, sent[s], received[s])
      /\ Recorded(attach[s], awaiting[s]) /\ awaiting[s] \in SUBSET Requests
  BY DEF Intact, readAttachment, WebSocketIInv, WebSocketTypeOK, SocketOK, AttachOK
<1> HIDE DEF conn
<1>3. ASSUME NEW r \in Subscriptions(attach[s].subs)
      PROVE  /\ r \in Streams /\ r \in Requests /\ attach[s].subs[r].ack \in Nat
             /\ fibers'[attach[s].id][r] = [phase |-> "run", next |-> attach[s].subs[r].ack + 1]
  <2>1. r \in Streams /\ r \in Requests /\ Subscribed(attach[s], r) /\ attach[s].id \in ClientIds
        /\ attach[s].subs[r] \in Sub
    BY <1>2 DEF Subscriptions, Requests, Subscribed, Attachment
  <2>2. attach[s].subs[r].ack \in Nat
    BY <2>1 DEF Sub, ShapeAssumption
  <2>3. fibers'[attach[s].id][r] = Replayed(kept, attach[s].id, r)
    BY <2>1
  <2>4. QED
    BY <2>1, <2>2, <2>3, ReplayedOK
<1>4. FibersOK(conn, fibers'[attach[s].id], received[s])
  <2> SUFFICES ASSUME NEW r \in Subscriptions(conn.subs)
               PROVE  FiberOK(conn, fibers'[attach[s].id][r], r, received[s])
    BY DEF FibersOK
  <2>1. /\ r \in Subscriptions(attach[s].subs) /\ r \notin conn.current
    BY <1>1
  <2>2. /\ KeyOf[r] \in StreamKeys /\ attach[s].subs[r].ack <= received[s][KeyOf[r]]
        /\ received[s][KeyOf[r]] \in Nat
    BY <1>2, <1>3, <2>1, GotIsNat DEF SubsOK, ShapeAssumption
  <2> DEFINE f == fibers'[attach[s].id][r]
  <2>6. f = [phase |-> "run", next |-> attach[s].subs[r].ack + 1] /\ attach[s].subs[r].ack \in Nat
    BY <1>3, <2>1
  <2> HIDE DEF f
  <2>3. f.phase = "run" /\ f.next = attach[s].subs[r].ack + 1 /\ attach[s].subs[r].ack \in Nat
    BY <2>6
  <2>4. FiberOK(conn, f, r, received[s])
    BY <2>1, <2>2, <2>3 DEF FiberOK
  <2>5. QED
    BY <2>4 DEF f
<1>5. Served(conn, fibers'[attach[s].id], awaiting[s])
  <2> SUFFICES ASSUME NEW r \in awaiting[s]
               PROVE  r \in conn.requests /\ fibers'[attach[s].id][r] # NoFiber
    BY DEF Served
  <2>1. /\ attach[s].busy /\ (attach[s].version = 2 => Subscribed(attach[s], r) \/ attach[s].plain)
    BY <1>2 DEF Recorded
  <2>2. attach[s].version \in {1, 2}
    BY <1>2 DEF Attachment
  <2>3. Subscribed(attach[s], r)
    BY <2>1, <2>2 DEF Intact
  <2>4. r \in Subscriptions(attach[s].subs) /\ r \in Streams
    BY <2>3 DEF Subscribed, Subscriptions
  <2>5. attach[s].subs[r].ack + 1 \in 0..(MaxValue + 1)
    BY <1>2, <2>3, <2>4 DEF Attachment, Subscribed, Sub, ShapeAssumption
  <2>8. fibers'[attach[s].id][r] = [phase |-> "run", next |-> attach[s].subs[r].ack + 1]
    BY <1>3, <2>4
  <2>6. fibers'[attach[s].id][r] \in Fiber
    BY <2>5, <2>8 DEF Fiber
  <2>7. QED
    BY <1>1, <2>4, <2>6 DEF ShapeAssumption
<1>6. QED
  BY <1>4, <1>5 DEF conn

LEMMA WakeOK ==
  ASSUME ShapeAssumption, WebSocketIInv, Wake
  PROVE  WebSocketIInv'
<1>1. /\ ~ awake /\ awake' /\ attach' = attach /\ disconnects' = disconnects /\ sent' = sent
      /\ received' = received /\ restarts' = restarts
  BY DEF Wake
<1>2. PICK b \in Builds, closing \in SUBSET {s \in Sockets : link[s] = "closing"} :
        LET listed == {s \in Sockets : link[s] = "open"} \cup closing
            intact == {s \in listed : Intact(s, b)}
        IN  \E kept \in SUBSET intact :
              /\ \A s, t \in kept : attach[s].id = attach[t].id => s = t
              /\ \A s \in intact \ kept :
                   \/ \E t \in kept : attach[s].id = attach[t].id
                   \/ Faults /\ attach[s].version = 1
              /\ build' = b
              /\ connections' = [s \in Sockets |-> IF s \in kept THEN Restored(s) ELSE NoConnection]
              /\ resetSockets' = listed \ kept
              /\ nextClientId' = NextId(kept)
              /\ link' = [s \in Sockets |-> IF s \in listed \ kept THEN "closing" ELSE link[s]]
              /\ awaiting' = [s \in Sockets |-> IF s \in listed \ kept THEN {} ELSE awaiting[s]]
              /\ fibers' = [c \in ClientIds |-> [r \in Requests |-> Replayed(kept, c, r)]]
              /\ paired' = Synced(connections')
  BY DEF Wake
<1> DEFINE listed == {s \in Sockets : link[s] = "open"} \cup closing
           intact == {s \in listed : Intact(s, b)}
<1>3. PICK kept \in SUBSET intact :
        /\ \A s, t \in kept : attach[s].id = attach[t].id => s = t
        /\ build' = b
        /\ connections' = [s \in Sockets |-> IF s \in kept THEN Restored(s) ELSE NoConnection]
        /\ resetSockets' = listed \ kept
        /\ nextClientId' = NextId(kept)
        /\ link' = [s \in Sockets |-> IF s \in listed \ kept THEN "closing" ELSE link[s]]
        /\ awaiting' = [s \in Sockets |-> IF s \in listed \ kept THEN {} ELSE awaiting[s]]
        /\ fibers' = [c \in ClientIds |-> [r \in Requests |-> Replayed(kept, c, r)]]
        /\ paired' = Synced(connections')
  BY <1>2
<1>4. /\ listed \in SUBSET Sockets /\ kept \in SUBSET listed /\ kept \in SUBSET Sockets
      /\ \A s \in listed : link[s] \in {"open", "closing"}
      /\ \A s \in Sockets : link[s] = "open" => s \in listed
      /\ \A s \in kept : Intact(s, b)
  OBVIOUS
<1> HIDE DEF listed, intact
<1>5. \A s \in kept : attach[s] \in Attachment /\ attach[s].id \in ClientIds
  <2>1. \A s \in kept : attach[s] \in Attachment
    BY <1>4 DEF Intact, readAttachment, WebSocketIInv, WebSocketTypeOK
  <2>2. QED
    BY <2>1 DEF Attachment
<1>6. NextId(kept) \in 0..MaxClients /\ \A s \in kept : attach[s].id < NextId(kept)
  BY <1>5, NextIdOK
<1>7. ASSUME NEW s \in kept
      PROVE  /\ Restored(s) \in Connection /\ ConnOK(Restored(s), sent[s]) /\ AgreeOK(Restored(s), attach[s])
             /\ Restored(s).id = attach[s].id /\ Restored(s) # NoConnection
             /\ FibersOK(Restored(s), fibers'[attach[s].id], received[s])
             /\ Served(Restored(s), fibers'[attach[s].id], awaiting[s])
  <2>1. s \in Sockets /\ Intact(s, b)
    BY <1>4
  <2>2. /\ Restored(s) \in Connection /\ ConnOK(Restored(s), sent[s]) /\ AgreeOK(Restored(s), attach[s])
        /\ Restored(s).id = attach[s].id
    BY <2>1, RestoredOK
  <2>3. /\ FibersOK(Restored(s), fibers'[attach[s].id], received[s])
        /\ Served(Restored(s), fibers'[attach[s].id], awaiting[s])
    BY <1>1, <1>3, <1>4, <2>1, KeptOK
  <2>4. QED
    BY <2>2, <2>3 DEF ShapeAssumption
<1>8. Registered' = kept /\ \A s \in kept : connections'[s] = Restored(s)
  BY <1>3, <1>4, <1>7 DEF Registered
<1>9. WebSocketTypeOK'
  <2>1. fibers' \in [ClientIds -> [Requests -> Fiber \cup {NoFiber}]]
    BY <1>3, <1>4, <1>5, ReplayTyped
  <2>2. connections' \in [Sockets -> Connection \cup {NoConnection}]
    BY <1>3, <1>7
  <2>3. /\ link' \in [Sockets -> {"unused", "open", "closing", "closed"}]
        /\ awaiting' \in [Sockets -> SUBSET Requests]
        /\ resetSockets' \subseteq Sockets /\ nextClientId' \in 0..MaxClients /\ paired' \in BOOLEAN
        /\ awake' \in BOOLEAN /\ build' \in Builds
    BY <1>1, <1>3, <1>4, <1>6 DEF WebSocketIInv, WebSocketTypeOK, Synced, Wake
  <2>4. QED
    BY <1>1, <2>1, <2>2, <2>3 DEF WebSocketIInv, WebSocketTypeOK
<1>10. ASSUME NEW s \in Sockets PROVE ConnectionOK(s)'
  <2>1. CASE s \in kept
    <3>1. connections'[s] = Restored(s) /\ link'[s] = link[s] /\ awaiting'[s] = awaiting[s] /\ s \notin resetSockets'
      BY <1>3, <1>4, <2>1
    <3>2. Restored(s).id < nextClientId' /\ link[s] \in {"open", "closing"}
      BY <1>3, <1>4, <1>6, <1>7, <2>1
    <3>3. QED
      BY <1>1, <1>7, <2>1, <3>1, <3>2 DEF ConnectionOK
  <2>2. CASE s \notin kept
    <3>1. connections'[s] = NoConnection
      BY <1>3, <2>2
    <3>2. link'[s] # "open"
      BY <1>3, <1>4, <2>2
    <3>3. QED
      BY <3>1, <3>2 DEF ConnectionOK
  <2>3. QED
    BY <2>1, <2>2
<1>11. ASSUME NEW s \in Sockets PROVE SocketOK(s)'
  <2>1. SocketOK(s)
    BY DEF WebSocketIInv
  <2>2. AttachOK(attach[s], sent[s], received[s])'
    BY <1>1, <2>1 DEF SocketOK
  <2>3. awaiting'[s] # {} => link'[s] = "open"
    BY <1>3, <2>1 DEF SocketOK
  <2>4. s \in resetSockets' => link'[s] # "unused"
    BY <1>3
  <2>5. QED
    BY <1>1, <2>2, <2>3, <2>4 DEF SocketOK
<1>12. Distinct'
  <2>1. \A s \in kept : connections'[s].id = attach[s].id
    BY <1>7, <1>8
  <2>2. ASSUME NEW s \in kept, NEW t \in kept, connections'[s].id = connections'[t].id PROVE s = t
    <3>1. attach[s].id = attach[t].id
      BY <2>1, <2>2
    <3>2. QED
      BY <1>3, <3>1
  <2>3. QED
    BY <1>8, <2>2 DEF Distinct
<1>13. Gone' /\ Asleep' /\ Paired'
  BY <1>1, <1>3, <1>8 DEF WebSocketIInv, Gone, Asleep, Paired, Synced, Registered
<1>14. PairWhileOpen'
  BY <1>1, <1>10, <1>13 DEF PairWhileOpen, Paired, ConnectionOK, Registered
<1>15. NoOrphanFibers'
  <2> SUFFICES ASSUME NEW c \in ClientIds, NEW r \in Requests, fibers'[c][r] # NoFiber
               PROVE  SocketOf(c)' # {}
    BY DEF NoOrphanFibers
  <2>1. Replayed(kept, c, r) # NoFiber
    BY <1>3
  <2>2. PICK s \in kept : attach[s].id = c
    BY <1>3, <1>4, <1>5, <2>1, ReplayTyped
  <2>3. QED
    BY <1>7, <1>8, <2>2 DEF SocketOf
<1>16. QED
  BY <1>9, <1>10, <1>11, <1>12, <1>13, <1>14, <1>15 DEF WebSocketIInv

-----------------------------------------------------------------------------
\* The invariant, and what it says.

LEMMA WebSocketInitOK ==
  ASSUME ShapeAssumption, WebSocketInit
  PROVE  WebSocketIInv
<1>1. /\ link = [s \in Sockets |-> "unused"] /\ attach = [s \in Sockets |-> NoAttachment]
      /\ paired = FALSE /\ awake = TRUE /\ build \in Builds
      /\ connections = [s \in Sockets |-> NoConnection] /\ resetSockets = {} /\ nextClientId = 0
      /\ fibers = [c \in ClientIds |-> [r \in Requests |-> NoFiber]] /\ disconnects = {}
      /\ sent = [s \in Sockets |-> {}] /\ awaiting = [s \in Sockets |-> {}]
      /\ received = [s \in Sockets |-> [k \in StreamKeys |-> 0]] /\ restarts = 0
  BY DEF WebSocketInit
<1>2. 0 \in 0..MaxClients /\ 0 \in 0..MaxValue /\ 0 \in 0..MaxRestarts
  BY DEF ShapeAssumption
<1>3. WebSocketTypeOK
  BY <1>1, <1>2 DEF WebSocketTypeOK
<1>4. Registered = {}
  BY <1>1 DEF Registered
<1>5. ASSUME NEW s \in Sockets PROVE SocketOK(s) /\ ConnectionOK(s)
  BY <1>1 DEF SocketOK, ConnectionOK, AttachOK
<1>6. Distinct /\ Gone /\ Asleep /\ Paired /\ PairWhileOpen /\ NoOrphanFibers
  BY <1>1, <1>4 DEF Distinct, Gone, Asleep, Paired, PairWhileOpen, NoOrphanFibers
<1>7. QED
  BY <1>3, <1>5, <1>6 DEF WebSocketIInv

LEMMA WebSocketNextOK ==
  ASSUME ShapeAssumption, WebSocketIInv, [WebSocketNext]_webSocketVars
  PROVE  WebSocketIInv'
<1>1. CASE WebSocketNext
  <2>1. ASSUME NEW s \in Sockets, Accept(s) \/ Leave(s) \/ CloseSocket(s) \/ Error(s) \/ BadFrame(s)
        PROVE  WebSocketIInv'
    BY <2>1, AcceptOK, LeaveOK, CloseOK, ErrorOK, BadFrameOK
  <2>2. ASSUME NEW s \in Sockets, NEW r \in Requests, Request(s, r) \/ Ack(s, r) \/ InterruptRequest(s, r)
        PROVE  WebSocketIInv'
    BY <2>2, RequestOK, AckOK, CallInterruptOK
  <2>3. ASSUME NEW s \in Sockets, NEW r \in Streams, NEW v \in Values, Checkpoint(s, r, v)
        PROVE  WebSocketIInv'
    BY <2>3, CheckpointOK
  <2>4. ASSUME NEW c \in ClientIds, NEW r \in Requests, Emit(c, r) \/ FinishRequest(c, r)
        PROVE  WebSocketIInv'
    BY <2>4, EmitOK, FinishOK
  <2>5. ASSUME NEW c \in ClientIds, Disconnect(c) PROVE WebSocketIInv'
    BY <2>5, DisconnectOK
  <2>6. QED
    BY <1>1, <2>1, <2>2, <2>3, <2>4, <2>5, HibernateOK, WakeOK DEF WebSocketNext
<1>2. CASE UNCHANGED webSocketVars
  <2>1. /\ link' = link /\ attach' = attach /\ paired' = paired /\ awake' = awake /\ build' = build
        /\ connections' = connections /\ resetSockets' = resetSockets /\ nextClientId' = nextClientId
        /\ fibers' = fibers /\ disconnects' = disconnects /\ sent' = sent /\ awaiting' = awaiting
        /\ received' = received /\ restarts' = restarts
    BY <1>2 DEF webSocketVars
  <2>2. WebSocketTypeOK' /\ Registered' = Registered /\ \A c \in ClientIds : SocketOf(c)' = SocketOf(c)
    BY <2>1 DEF WebSocketIInv, WebSocketTypeOK, Registered, SocketOf
  <2>3. ASSUME NEW s \in Sockets PROVE SocketOK(s)' /\ ConnectionOK(s)'
    <3>1. SocketOK(s) /\ ConnectionOK(s)
      BY DEF WebSocketIInv
    <3>2. SocketOK(s)'
      BY <2>1, <3>1 DEF SocketOK
    <3>3. ConnectionOK(s)'
      BY <2>1, <3>1 DEF ConnectionOK
    <3>4. QED
      BY <3>2, <3>3
  <2>4. Distinct' /\ Gone' /\ Asleep' /\ Paired' /\ PairWhileOpen' /\ NoOrphanFibers'
    BY <2>1, <2>2 DEF WebSocketIInv, Distinct, Gone, Asleep, Paired, PairWhileOpen, NoOrphanFibers
  <2>5. QED
    BY <2>2, <2>3, <2>4 DEF WebSocketIInv
<1>3. QED
  BY <1>1, <1>2

LEMMA WebSocketInvariance == ASSUME ShapeAssumption PROVE WebSocketSpec => []WebSocketIInv
<1>1. WebSocketInit => WebSocketIInv
  BY WebSocketInitOK
<1>2. WebSocketIInv /\ [WebSocketNext]_webSocketVars => WebSocketIInv'
  BY WebSocketNextOK
<1>3. QED
  BY <1>1, <1>2, PTL DEF WebSocketSpec

LEMMA AgreeFollows == WebSocketIInv => AttachmentAgrees
<1> SUFFICES ASSUME WebSocketIInv, NEW s \in Registered PROVE AgreeOK(connections[s], attach[s])
  BY DEF AttachmentAgrees, AgreeOK
<1>1. QED
  BY RegisteredFacts

LEMMA LatchFollows == WebSocketIInv => LatchFollowsCheckpoint
<1> SUFFICES ASSUME WebSocketIInv, NEW s \in Registered, NEW r \in Streams, Subscribed(connections[s], r)
             PROVE  FiberOK(connections[s], fibers[connections[s].id][r], r, received[s])
  BY DEF LatchFollowsCheckpoint, FiberOK
<1>1. FibersOK(connections[s], fibers[connections[s].id], received[s])
  BY RegisteredFacts
<1>2. QED
  BY <1>1 DEF FibersOK, Subscribed, Subscriptions

LEMMA CallsFollow == WebSocketIInv => NoLostCalls
<1> SUFFICES ASSUME WebSocketIInv, NEW s \in Sockets, NEW r \in awaiting[s]
             PROVE  IF awake
                    THEN /\ s \in Registered
                         /\ r \in connections[s].requests
                         /\ fibers[connections[s].id][r] # NoFiber
                    ELSE attach[s].busy /\ (attach[s].version = 2 => Subscribed(attach[s], r) \/ attach[s].plain)
  BY DEF NoLostCalls
<1>1. SocketOK(s) /\ ConnectionOK(s)
  BY DEF WebSocketIInv
<1>2. CASE awake
  <2>1. s \in Registered
    BY <1>1, <1>2 DEF SocketOK, ConnectionOK, Registered
  <2>2. Served(connections[s], fibers[connections[s].id], awaiting[s])
    BY <2>1, RegisteredFacts
  <2>3. QED
    BY <1>2, <2>1, <2>2 DEF Served
<1>3. CASE ~ awake
  BY <1>1, <1>3 DEF SocketOK, Recorded
<1>4. QED
  BY <1>2, <1>3

LEMMA NothingSkippedFollows == WebSocketIInv => NothingSkipped
<1> SUFFICES ASSUME WebSocketIInv, NEW s \in Sockets
             PROVE  /\ attach[s] # NoAttachment =>
                         \A r \in Subscriptions(attach[s].subs) :
                           attach[s].subs[r].ack <= received[s][attach[s].subs[r].key]
                    /\ s \in Registered =>
                         \A r \in Subscriptions(connections[s].subs) :
                           LET f == fibers[connections[s].id][r]
                           IN  f # NoFiber => f.next <= received[s][KeyOf[r]] + 1
  BY DEF NothingSkipped
<1>1. AttachOK(attach[s], sent[s], received[s])
  BY DEF WebSocketIInv, SocketOK
<1>2. s \in Registered => FibersOK(connections[s], fibers[connections[s].id], received[s])
  BY RegisteredFacts
<1>3. attach[s] # NoAttachment =>
        \A r \in Subscriptions(attach[s].subs) :
          attach[s].subs[r].ack <= received[s][attach[s].subs[r].key]
  BY <1>1 DEF AttachOK, SubsOK
<1>4. s \in Registered =>
        \A r \in Subscriptions(connections[s].subs) :
          LET f == fibers[connections[s].id][r]
          IN  f # NoFiber => f.next <= received[s][KeyOf[r]] + 1
  BY <1>2 DEF FibersOK, FiberOK
<1>5. QED
  BY <1>3, <1>4

LEMMA OpenFollows == WebSocketIInv => OpenIsRegistered
<1> SUFFICES ASSUME WebSocketIInv PROVE OpenIsRegistered
  OBVIOUS
<1>1. \A s \in Sockets : ConnectionOK(s)
  BY DEF WebSocketIInv
<1>2. QED
  BY <1>1 DEF OpenIsRegistered, ConnectionOK, Registered, Distinct, WebSocketIInv

\* What the transport keeps is of its types, whatever is evicted and when.
THEOREM WebSocketTypeCorrect == ASSUME ShapeAssumption PROVE WebSocketSpec => []WebSocketTypeOK
<1>1. WebSocketIInv => WebSocketTypeOK
  BY DEF WebSocketIInv
<1>2. QED
  BY <1>1, WebSocketInvariance, PTL

\* What a connection knows of its requests and subscriptions is in its attachment
\* whenever it rests (persistConnection): the object may be evicted there.
THEOREM AttachmentsSayWhatConnectionsKnow == ASSUME ShapeAssumption PROVE WebSocketSpec => []AttachmentAgrees
BY AgreeFollows, WebSocketInvariance, PTL

\* A stream waits for an acknowledgement exactly while a checkpoint is owed for its
\* batch (the filter of Acks, shouldAck in checkpoint).
THEOREM StreamsWaitForCheckpoints == ASSUME ShapeAssumption PROVE WebSocketSpec => []LatchFollowsCheckpoint
BY LatchFollows, WebSocketInvariance, PTL

\* No client waits on an open socket for a call that the object has forgotten.
THEOREM NoCallIsLost == ASSUME ShapeAssumption PROVE WebSocketSpec => []NoLostCalls
BY CallsFollow, WebSocketInvariance, PTL

\* No eviction, and no late or repeated checkpoint, makes a client miss a value.
THEOREM NoValueIsSkipped == ASSUME ShapeAssumption PROVE WebSocketSpec => []NothingSkipped
BY NothingSkippedFollows, WebSocketInvariance, PTL

\* Every open socket belongs to the running activation, under an id of its own.
THEOREM OpenSocketsAreServed == ASSUME ShapeAssumption PROVE WebSocketSpec => []OpenIsRegistered
BY OpenFollows, WebSocketInvariance, PTL

\* An object may be evicted between any two steps and goes on with its sockets.
THEOREM HibernationIsSurvived == ASSUME ShapeAssumption PROVE WebSocketSpec => []SocketsSurviveHibernation
<1>1. WebSocketIInv => SocketsSurviveHibernation
  BY AgreeFollows, LatchFollows, CallsFollow, NothingSkippedFollows, OpenFollows
  DEF SocketsSurviveHibernation, WebSocketIInv
<1>2. QED
  BY <1>1, WebSocketInvariance, PTL

----------------------------------------------------------------------------
(* The fetches of a Worker. *)

\* How far a request is says what it holds: the layer's exporter and the flush since the
\* layer was built, the scope until it closed, a body as long as the scope is the body's.
HoldsOK(q) ==
    /\ q.phase \in {"new", "layer"} => ~ q.finalizer
    /\ q.phase = "running" => q.finalizer
    /\ q.phase \in {"new", "layer", "running"} => q.span = "open" /\ q.body = "none"
    /\ q.scope # "closed" =>
          /\ q.flushes = {}
          /\ q.exporter = (IF q.finalizer /\ HasEventLayer THEN "open" ELSE "none")
    /\ q.scope = "transferred" => q.body = "open" /\ q.finalizer
    /\ q.body = "open" => q.scope = "transferred"

\* How far it is says how far its scope and its span are.
WhereOK(q) ==
    /\ q.phase \in {"layer", "running"} => q.scope = "open"
    /\ q.phase = "new" => q.scope = "none"
    /\ q.phase = "exiting" => q.scope \in {"open", "transferred"} /\ q.span # "open"
    /\ q.phase \in {"handled", "returned", "dropped"} =>
          /\ q.scope \in {"transferred", "closed"} /\ q.span # "open"
          /\ (HasEventLayer /\ q.finalizer) => q.span = "published"

FlushesOK(r, q) == \A f \in q.flushes : f = <<"published", IF HasEventLayer THEN "open" ELSE "none", r>>

FetchOK(r, q) == q \in RequestState /\ HoldsOK(q) /\ WhereOK(q) /\ FlushesOK(r, q)

FetchIInv ==
    /\ base \in Fetches \cup {Nobody} /\ req = [r \in Fetches |-> req[r]]
    /\ \A r \in Fetches : FetchOK(r, req[r])

LEMMA FetchInitOK == ASSUME LayerAssumption, FetchInit PROVE FetchIInv
<1>1. base \in Fetches \cup {Nobody} /\ req = [r \in Fetches |-> req[r]]
  BY DEF FetchInit
<1>2. ASSUME NEW r \in Fetches PROVE FetchOK(r, req[r])
  <2>1. PICK a \in BOOLEAN : req[r] = New(a)
    BY DEF FetchInit
  <2>2. QED
    BY <2>1 DEF New, FetchOK, RequestState, HoldsOK, WhereOK, FlushesOK, Responses, Exporters, Spans
<1>3. QED
  BY <1>1, <1>2 DEF FetchIInv

\* One request changes, the others stay.
LEMMA OneRequest ==
  ASSUME FetchIInv, NEW r \in Fetches, NEW q, FetchOK(r, q), req' = [req EXCEPT ![r] = q],
         base' \in Fetches \cup {Nobody}
  PROVE  FetchIInv'
<1>1. req' = [p \in Fetches |-> IF p = r THEN q ELSE req[p]]
  BY DEF FetchIInv
<1>2. req' = [p \in Fetches |-> req'[p]]
  BY <1>1
<1>3. \A p \in Fetches : FetchOK(p, req'[p])
  BY <1>1 DEF FetchIInv
<1>4. QED
  BY <1>2, <1>3 DEF FetchIInv, FetchOK, FlushesOK

\* A request arrives; its scope opens.
LEMMA ArriveOK ==
  ASSUME LayerAssumption, FetchIInv, NEW r \in Fetches, Arrive(r) PROVE FetchIInv'
<1> DEFINE q == [req[r] EXCEPT !.phase = "layer", !.scope = "open", !.listener = ~ req[r].aborted,
                            !.interrupted = req[r].aborted]
<1>1. FetchOK(r, req[r])
  BY DEF FetchIInv
<1>2. req[r].phase = "new" /\ req' = [req EXCEPT ![r] = q] /\ base' \in Fetches \cup {Nobody}
  BY DEF Arrive, InterruptsAtOnce, FetchIInv
<1>3. q \in RequestState
  BY <1>1 DEF FetchOK, RequestState
<1>4. HoldsOK(q) /\ WhereOK(q) /\ FlushesOK(r, q)
  BY <1>1, <1>2 DEF FetchOK, RequestState, HoldsOK, WhereOK, FlushesOK
<1>5. FetchOK(r, q)
  BY <1>3, <1>4 DEF FetchOK
<1> HIDE DEF q
<1>6. QED
  BY <1>2, <1>5, OneRequest

\* The client leaves, which no resource notices yet.
LEMMA AbortOK ==
  ASSUME LayerAssumption, FetchIInv, NEW r \in Fetches, Abort(r) PROVE FetchIInv'
<1> DEFINE q == [req[r] EXCEPT !.aborted = TRUE, !.interrupted = @ \/ req[r].listener]
<1>1. FetchOK(r, req[r])
  BY DEF FetchIInv
<1>2. TRUE /\ req' = [req EXCEPT ![r] = q] /\ base' \in Fetches \cup {Nobody}
  BY DEF Abort, Update, FetchIInv
<1>3. q \in RequestState
  BY <1>1 DEF FetchOK, RequestState
<1>4. HoldsOK(q) /\ WhereOK(q) /\ FlushesOK(r, q)
  BY <1>1, <1>2 DEF FetchOK, RequestState, HoldsOK, WhereOK, FlushesOK
<1>5. FetchOK(r, q)
  BY <1>3, <1>4 DEF FetchOK
<1> HIDE DEF q
<1>6. QED
  BY <1>2, <1>5, OneRequest

\* The event layer is built, or breaks.
LEMMA BuildLayerOK ==
  ASSUME LayerAssumption, FetchIInv, NEW r \in Fetches, BuildLayer(r) PROVE FetchIInv'
<1> DEFINE q == [req[r] EXCEPT !.phase = "running", !.finalizer = TRUE,
                            !.exporter = IF HasEventLayer THEN "open" ELSE "none"]
<1>1. FetchOK(r, req[r])
  BY DEF FetchIInv
<1>2. req[r].phase = "layer" /\ req' = [req EXCEPT ![r] = q] /\ base' \in Fetches \cup {Nobody}
  BY DEF BuildLayer, Update, FetchIInv
<1>3. q \in RequestState
  BY <1>1 DEF FetchOK, RequestState, Exporters
<1>4. HoldsOK(q) /\ WhereOK(q) /\ FlushesOK(r, q)
  BY <1>1, <1>2 DEF FetchOK, RequestState, HoldsOK, WhereOK, FlushesOK
<1>5. FetchOK(r, q)
  BY <1>3, <1>4 DEF FetchOK
<1> HIDE DEF q
<1>6. QED
  BY <1>2, <1>5, OneRequest

LEMMA LayerBrokenOK ==
  ASSUME LayerAssumption, FetchIInv, NEW r \in Fetches, LayerBroken(r) PROVE FetchIInv'
<1> DEFINE q == [req[r] EXCEPT !.phase = "exiting", !.response = "error", !.span = "queued"]
<1>1. FetchOK(r, req[r])
  BY DEF FetchIInv
<1>2. req[r].phase = "layer" /\ req' = [req EXCEPT ![r] = q] /\ base' \in Fetches \cup {Nobody}
  BY DEF LayerBroken, Update, FetchIInv
<1>3. q \in RequestState
  BY <1>1 DEF FetchOK, RequestState, Responses, Spans
<1>4. HoldsOK(q) /\ WhereOK(q) /\ FlushesOK(r, q)
  BY <1>1, <1>2 DEF FetchOK, RequestState, HoldsOK, WhereOK, FlushesOK
<1>5. FetchOK(r, q)
  BY <1>3, <1>4 DEF FetchOK
<1> HIDE DEF q
<1>6. QED
  BY <1>2, <1>5, OneRequest

\* There is a response, from the handler or from its interruption.
LEMMA RespondOK ==
  ASSUME LayerAssumption, FetchIInv, NEW r \in Fetches, NEW response \in Responses,
         req[r].phase \in {"layer", "running"}, response = "stream" => req[r].phase = "running",
         Respond(r, response)
  PROVE  FetchIInv'
<1> DEFINE q == [req[r] EXCEPT !.phase = "exiting", !.response = response, !.span = "queued",
                            !.scope = IF response = "stream" THEN "transferred" ELSE "open",
                            !.body = IF response = "stream" THEN "open" ELSE "none"]
<1>1. FetchOK(r, req[r])
  BY DEF FetchIInv
<1>2. req' = [req EXCEPT ![r] = q] /\ base' \in Fetches \cup {Nobody}
  BY DEF Respond, Transfers, Update, FetchIInv
<1>3. q \in RequestState
  BY <1>1 DEF FetchOK, RequestState, Spans
<1>4. HoldsOK(q) /\ WhereOK(q) /\ FlushesOK(r, q)
  BY <1>1 DEF FetchOK, RequestState, HoldsOK, WhereOK, FlushesOK
<1>5. FetchOK(r, q)
  BY <1>3, <1>4 DEF FetchOK
<1> HIDE DEF q
<1>6. QED
  BY <1>2, <1>5, OneRequest

LEMMA HandlerOK ==
  ASSUME LayerAssumption, FetchIInv, NEW r \in Fetches, Handle(r) \/ Interrupted(r) PROVE FetchIInv'
<1>1. CASE Handle(r)
  BY <1>1, RespondOK DEF Handle
<1>2. CASE Interrupted(r)
  <2>1. "error" \in Responses /\ "error" # "stream"
    BY DEF Responses
  <2>2. QED
    BY <1>2, <2>1, RespondOK DEF Interrupted
<1>3. QED
  BY <1>1, <1>2

\* The tracer publishes the span, which its fiber had ended.
LEMMA PublishedOK ==
  ASSUME LayerAssumption, FetchIInv, NEW r \in Fetches, SpanPublished(r) PROVE FetchIInv'
<1> DEFINE q == [req[r] EXCEPT !.span = "published"]
<1>1. FetchOK(r, req[r])
  BY DEF FetchIInv
<1>2. req[r].span = "queued" /\ req' = [req EXCEPT ![r] = q] /\ base' \in Fetches \cup {Nobody}
  BY DEF SpanPublished, Update, FetchIInv
<1>3. q \in RequestState
  BY <1>1 DEF FetchOK, RequestState, Spans
<1>4. HoldsOK(q) /\ WhereOK(q) /\ FlushesOK(r, q)
  BY <1>1, <1>2 DEF FetchOK, RequestState, HoldsOK, WhereOK, FlushesOK
<1>5. FetchOK(r, q)
  BY <1>3, <1>4 DEF FetchOK
<1> HIDE DEF q
<1>6. QED
  BY <1>2, <1>5, OneRequest

\* A scope closes: the flush finds the span published and the exporter still there.
LEMMA ClosingOK ==
  ASSUME LayerAssumption, FetchIInv, NEW r \in Fetches, NEW q \in RequestState, FlushesOK(r, q),
         q.exporter = (IF q.finalizer /\ HasEventLayer THEN "open" ELSE "none"), q.phase \in {"handled", "returned", "dropped"}, q.body # "open",
         q.span # "open", q.span = req[r].span,
         (HasEventLayer /\ q.finalizer) => q.span = "published", CloseScope(r, q)
  PROVE  FetchIInv'
<1> DEFINE f == <<q.span, q.exporter, r>>
           n == [q EXCEPT !.scope = "closed", !.exporter = IF @ = "open" THEN "closed" ELSE @,
                          !.flushes = @ \union IF q.finalizer THEN {f} ELSE {}]
<1>1. req' = [req EXCEPT ![r] = n] /\ base' \in Fetches \cup {Nobody}
  BY DEF CloseScope, FlushContext, Update, FetchIInv
<1>2. q.finalizer => f = <<"published", IF HasEventLayer THEN "open" ELSE "none", r>>
  <2>1. (q.finalizer /\ ~ HasEventLayer) => q.span = "published"
    BY DEF CloseScope, YieldedBeforeFlush
  <2>2. q.finalizer => q.exporter = (IF HasEventLayer THEN "open" ELSE "none")
    OBVIOUS
  <2>3. QED
    BY <2>1, <2>2 DEF LayerAssumption
<1>3. f \in Spans \X Exporters \X Fetches
  BY DEF RequestState
<1>4. n \in RequestState
  <2>1. (q.flushes \union IF q.finalizer THEN {f} ELSE {}) \in SUBSET (Spans \X Exporters \X Fetches)
    BY <1>3 DEF RequestState
  <2>2. (IF q.exporter = "open" THEN "closed" ELSE q.exporter) \in Exporters
    BY DEF RequestState, Exporters
  <2> HIDE DEF f
  <2>3. QED
    BY <2>1, <2>2 DEF RequestState
<1>5. n.phase = q.phase /\ n.scope = "closed" /\ n.span = q.span /\ n.body = q.body /\ n.finalizer = q.finalizer
  BY DEF RequestState
<1>6. HoldsOK(n) /\ WhereOK(n)
  <2> HIDE DEF n
  <2>1. QED
    BY <1>5 DEF HoldsOK, WhereOK
<1>7. FlushesOK(r, n)
  <2>1. n.flushes = q.flushes \union IF q.finalizer THEN {f} ELSE {}
    BY DEF RequestState
  <2> HIDE DEF n, f
  <2>2. QED
    BY <1>2, <2>1 DEF FlushesOK
<1>8. FetchOK(r, n)
  BY <1>4, <1>6, <1>7 DEF FetchOK
<1> HIDE DEF n
<1>9. QED
  BY <1>1, <1>8, OneRequest

LEMMA ExitOK ==
  ASSUME LayerAssumption, FetchIInv, NEW r \in Fetches, Exit(r) PROVE FetchIInv'
<1> DEFINE q == [req[r] EXCEPT !.phase = "handled"]
<1>1. FetchOK(r, req[r])
  BY DEF FetchIInv
<1>2. /\ req[r].phase = "exiting"
      /\ (HasEventLayer /\ req[r].finalizer) => req[r].span = "published"
  BY DEF Exit, YieldedToTracer
<1>3. /\ q.phase = "handled" /\ q.scope = req[r].scope /\ q.span = req[r].span /\ q.body = req[r].body
      /\ q.finalizer = req[r].finalizer /\ q.exporter = req[r].exporter /\ q.flushes = req[r].flushes
      /\ q \in RequestState
  BY <1>1 DEF FetchOK, RequestState
<1> HIDE DEF q
<1>4. HoldsOK(q) /\ FlushesOK(r, q) /\ q.span # "open" /\ ((HasEventLayer /\ q.finalizer) => q.span = "published")
  BY <1>1, <1>2, <1>3 DEF FetchOK, HoldsOK, WhereOK, FlushesOK
<1>5. CASE req[r].scope = "transferred"
  <2>1. req' = [req EXCEPT ![r] = q] /\ base' \in Fetches \cup {Nobody}
    BY <1>5 DEF Exit, Update, FetchIInv, q
  <2>2. WhereOK(q)
    BY <1>3, <1>4, <1>5 DEF WhereOK
  <2>3. QED
    BY <1>3, <1>4, <2>1, <2>2, OneRequest DEF FetchOK
<1>6. CASE req[r].scope # "transferred"
  <2>1. CloseScope(r, q)
    BY <1>6 DEF Exit, q
  <2>2. q.body # "open" /\ q.exporter = (IF q.finalizer /\ HasEventLayer THEN "open" ELSE "none")
    BY <1>1, <1>2, <1>3, <1>6 DEF FetchOK, HoldsOK, WhereOK
  <2>3. QED
    BY <1>3, <1>4, <2>1, <2>2, ClosingOK
<1>7. QED
  BY <1>5, <1>6

\* The response is handed over, or dropped.
LEMMA ReturnOK ==
  ASSUME LayerAssumption, FetchIInv, NEW r \in Fetches, Return(r) PROVE FetchIInv'
<1>1. PICK end \in {"returned", "dropped"} :
         req' = [req EXCEPT ![r] = [req[r] EXCEPT !.phase = end, !.listener = FALSE]]
  BY DEF Return, Update
<1>2. FetchOK(r, req[r]) /\ req[r].phase = "handled" /\ base' \in Fetches \cup {Nobody}
  BY DEF Return, Update, FetchIInv
<1> DEFINE q == [req[r] EXCEPT !.phase = end, !.listener = FALSE]
<1>3. q \in RequestState
  BY <1>2 DEF FetchOK, RequestState
<1>4. HoldsOK(q) /\ WhereOK(q) /\ FlushesOK(r, q)
  BY <1>2 DEF FetchOK, RequestState, HoldsOK, WhereOK, FlushesOK
<1>5. FetchOK(r, q)
  BY <1>3, <1>4 DEF FetchOK
<1> HIDE DEF q
<1>6. QED
  BY <1>1, <1>2, <1>5, OneRequest DEF q

\* The body that had the scope ends, or is canceled.
LEMMA BodyOK ==
  ASSUME LayerAssumption, FetchIInv, NEW r \in Fetches, BodyEnds(r) \/ BodyCanceled(r) PROVE FetchIInv'
<1>1. PICK how \in {"ended", "canceled"} : BodyCloses(r, how) /\ req[r].phase \in {"returned", "dropped"}
  BY DEF BodyEnds, BodyCanceled, SignalReaches
<1> DEFINE q == [req[r] EXCEPT !.body = how]
<1>2. FetchOK(r, req[r]) /\ req[r].scope = "transferred" /\ CloseScope(r, q)
  BY <1>1 DEF FetchIInv, BodyCloses
<1>3. /\ q.phase = req[r].phase /\ q.scope = req[r].scope /\ q.span = req[r].span /\ q.body = how
      /\ q.finalizer = req[r].finalizer /\ q.exporter = req[r].exporter /\ q.flushes = req[r].flushes
      /\ q \in RequestState
  BY <1>2 DEF FetchOK, RequestState
<1> HIDE DEF q
<1>4. /\ q.span # "open" /\ ((HasEventLayer /\ q.finalizer) => q.span = "published")
      /\ q.body # "open" /\ q.exporter = (IF q.finalizer /\ HasEventLayer THEN "open" ELSE "none")
      /\ FlushesOK(r, q)
  BY <1>1, <1>2, <1>3 DEF FetchOK, HoldsOK, WhereOK, FlushesOK
<1>5. CloseScope(r, q) /\ q.phase \in {"handled", "returned", "dropped"} /\ q.span = req[r].span
  BY <1>1, <1>2, <1>3
<1>6. QED
  BY <1>3, <1>4, <1>5, ClosingOK

LEMMA FetchInvariance == ASSUME LayerAssumption, FetchIInv, [FetchNext]_fetchVars PROVE FetchIInv'
<1>1. CASE UNCHANGED fetchVars
  BY <1>1 DEF fetchVars, FetchIInv, FetchOK, FlushesOK
<1>2. CASE FetchNext
  <2>1. PICK r \in Fetches :
           \/ Arrive(r) \/ Abort(r) \/ BuildLayer(r) \/ LayerBroken(r) \/ Handle(r) \/ Interrupted(r)
           \/ SpanPublished(r) \/ Exit(r) \/ Return(r) \/ BodyEnds(r) \/ BodyCanceled(r)
    BY <1>2 DEF FetchNext
  <2>2. CASE Arrive(r) \/ Abort(r) \/ BuildLayer(r) \/ LayerBroken(r)
    BY <2>2, ArriveOK, AbortOK, BuildLayerOK, LayerBrokenOK
  <2>3. CASE Handle(r) \/ Interrupted(r) \/ SpanPublished(r)
    BY <2>3, HandlerOK, PublishedOK
  <2>4. CASE Exit(r) \/ Return(r) \/ BodyEnds(r) \/ BodyCanceled(r)
    BY <2>4, ExitOK, ReturnOK, BodyOK
  <2>5. QED
    BY <2>1, <2>2, <2>3, <2>4
<1>3. QED
  BY <1>1, <1>2

LEMMA FetchMeans == ASSUME FetchIInv PROVE FetchesAreWhole
<1>1. FetchTypeOK
  <2>1. \A r \in Fetches : req[r] \in RequestState
    BY DEF FetchIInv, FetchOK
  <2>2. QED
    BY <2>1 DEF FetchIInv, FetchTypeOK
<1>2. ASSUME NEW r \in Fetches
      PROVE  /\ req[r].body = "open" => req[r].scope = "transferred" /\ req[r].exporter # "closed"
             /\ req[r].phase \in {"returned", "dropped"} /\ req[r].body # "open" => req[r].scope = "closed"
             /\ \A f \in req[r].flushes : f = <<"published", IF HasEventLayer THEN "open" ELSE "none", r>>
  BY DEF FetchIInv, FetchOK, HoldsOK, WhereOK, FlushesOK
<1>3. ResourcesFollowBody /\ FlushFindsSpan
  BY <1>2 DEF ResourcesFollowBody, FlushFindsSpan
<1>4. QED
  BY <1>1, <1>3 DEF FetchesAreWhole

\* Any number of requests, with or without an event layer: the resources of an event last
\* as long as its body and no longer, and a flush finds the span published, the exporter
\* open and the context of its own request, whenever clients leave.
THEOREM EveryFetchIsWhole == ASSUME LayerAssumption PROVE FetchSpec => []FetchesAreWhole
<1>1. FetchInit => FetchIInv
  BY FetchInitOK
<1>2. FetchIInv /\ [FetchNext]_fetchVars => FetchIInv'
  BY FetchInvariance
<1>3. FetchIInv => FetchesAreWhole
  BY FetchMeans
<1>4. QED
  BY <1>1, <1>2, <1>3, PTL DEF FetchSpec

----------------------------------------------------------------------------
CONSTANTS
    Steps, MaxAttempts,        \* of workflows
    MaxProbes,                 \* of the wait for a container
    Fibers, Runs, MaxTries, None, \* of workspaces
    OpenStreams, StreamChunks, \* of a WebTransport
    Sources, LogChunks         \* of the logs of a process

VARIABLES
    step_result, step_attempts, step_native, step_call, step_fibers, step_body, step_fatal, step_crashes,
    ready_running, ready_phase, ready_probe, ready_fetch, ready_lastFailure,
    runs_host, runs_client, runs_backend, runs_at, runs_how, runs_run, runs_handle, runs_asked, runs_wild,
    runs_tries,
    stream_session, stream_native, stream_exit, stream_stream, stream_writable, stream_lock, stream_write,
    stream_accepted,
    logs_native, logs_reading, logs_ready, logs_remaining, logs_pull, logs_stopped, logs_cleanup, logs_locks,
    logs_merged, logs_out

Stepping == INSTANCE WorkflowSteps WITH
    result <- step_result, attempts <- step_attempts, native <- step_native, call <- step_call,
    fibers <- step_fibers, body <- step_body, fatal <- step_fatal, crashes <- step_crashes

Readiness == INSTANCE ContainerReadiness WITH
    running <- ready_running, phase <- ready_phase, probe <- ready_probe, fetch <- ready_fetch,
    lastFailure <- ready_lastFailure

Running == INSTANCE WorkspaceRuns WITH
    host <- runs_host, client <- runs_client, backend <- runs_backend, at <- runs_at, how <- runs_how,
    run <- runs_run, handle <- runs_handle, asked <- runs_asked, wild <- runs_wild, tries <- runs_tries

Opened == INSTANCE WebTransportStreams WITH
    Streams <- OpenStreams, MaxChunks <- StreamChunks, session <- stream_session, native <- stream_native,
    exit <- stream_exit, stream <- stream_stream, writable <- stream_writable, lock <- stream_lock,
    write <- stream_write, accepted <- stream_accepted

Logs == INSTANCE ContainerLogs WITH
    MaxChunks <- LogChunks, native <- logs_native, reading <- logs_reading,
    ready <- logs_ready, remaining <- logs_remaining, pull <- logs_pull, stopped <- logs_stopped,
    cleanup <- logs_cleanup, locks <- logs_locks, merged <- logs_merged, out <- logs_out

----------------------------------------------------------------------------
(* The steps of a workflow. *)

\* Cloudflare calls back only for a step without a result; an attempt has a fiber, which
\* runs while the effect of the step is open and stops before it is over.
StepOK(s) ==
    /\ step_call[s] = "none" => step_native[s] = "none"
    /\ step_native[s] \in {"attempt", "delay"} => step_result[s] = "open"
    /\ step_body[s] # "none" => step_native[s] = "attempt"
    /\ step_body[s] = "running" => step_call[s] = "open"
    /\ step_body[s] = "interrupting" => step_call[s] = "joining"
    /\ s \in step_fatal => step_result[s] = "failed"

StepsIInv == Stepping!TypeOK /\ \A s \in Steps : StepOK(s)

LEMMA StepsInitOK == ASSUME Stepping!WorkflowAssumption, Stepping!Init PROVE StepsIInv
BY DEF Stepping!WorkflowAssumption, Stepping!Init, Stepping!All, StepsIInv, Stepping!TypeOK, StepOK

\* What a step does is its own.
LEMMA StepTypes ==
  ASSUME Stepping!WorkflowAssumption, StepsIInv, NEW s \in Steps,
         \/ Stepping!Do(s) \/ Stepping!Attempt(s) \/ Stepping!BodyEnds(s) \/ Stepping!BodyStops(s)
         \/ Stepping!Settle(s) \/ Stepping!Return(s) \/ Stepping!Interrupt(s) \/ Stepping!Joined(s)
  PROVE  /\ Stepping!TypeOK'
         /\ \A t \in Steps \ {s} :
              /\ step_result'[t] = step_result[t] /\ step_attempts'[t] = step_attempts[t]
              /\ step_native'[t] = step_native[t] /\ step_call'[t] = step_call[t]
              /\ step_fibers'[t] = step_fibers[t] /\ step_body'[t] = step_body[t]
              /\ t \in step_fatal' => t \in step_fatal
<1>1. CASE Stepping!Do(s)
  BY <1>1 DEF StepsIInv, Stepping!TypeOK, Stepping!Do
<1>2. CASE Stepping!Attempt(s)
  <2>1. step_attempts[s] + 1 \in 0..MaxAttempts
    BY <1>2 DEF StepsIInv, Stepping!TypeOK, Stepping!Attempt, Stepping!WorkflowAssumption
  <2>2. step_attempts' \in [Steps -> 0..MaxAttempts]
    BY <1>2, <2>1 DEF StepsIInv, Stepping!TypeOK, Stepping!Attempt
  <2>3. QED
    BY <1>2, <2>2 DEF StepsIInv, Stepping!TypeOK, Stepping!Attempt, Stepping!Runs
<1>3. CASE Stepping!BodyEnds(s) \/ Stepping!BodyStops(s)
  BY <1>3 DEF StepsIInv, Stepping!TypeOK, Stepping!BodyEnds, Stepping!BodyStops
<1>4. CASE Stepping!Settle(s)
  <2>1. PICK end \in {"done", "failed", "open"} :
          /\ step_result' = [step_result EXCEPT ![s] = end]
          /\ step_native' = [step_native EXCEPT ![s] = IF end = "open" THEN "delay" ELSE "settled"]
    BY <1>4 DEF Stepping!Settle
  <2>2. /\ step_result' \in [Steps -> {"open", "done", "failed"}]
        /\ step_native' \in [Steps -> {"none", "attempt", "delay", "settled"}]
        /\ \A t \in Steps \ {s} : step_result'[t] = step_result[t] /\ step_native'[t] = step_native[t]
    BY <2>1 DEF StepsIInv, Stepping!TypeOK
  <2>3. QED
    BY <1>4, <2>2 DEF StepsIInv, Stepping!TypeOK, Stepping!Settle
<1>5. CASE Stepping!Return(s) \/ Stepping!Interrupt(s) \/ Stepping!Joined(s)
  BY <1>5 DEF StepsIInv, Stepping!TypeOK, Stepping!Return, Stepping!Interrupt, Stepping!Joined, Stepping!ClosesSet
<1>6. QED
  BY <1>1, <1>2, <1>3, <1>4, <1>5

LEMMA StepsStepOK ==
  ASSUME Stepping!WorkflowAssumption, StepsIInv, NEW s \in Steps,
         \/ Stepping!Do(s) \/ Stepping!Attempt(s) \/ Stepping!BodyEnds(s) \/ Stepping!BodyStops(s)
         \/ Stepping!Settle(s) \/ Stepping!Return(s) \/ Stepping!Interrupt(s) \/ Stepping!Joined(s)
  PROVE  StepsIInv'
<1>1. ASSUME NEW t \in Steps, t # s PROVE StepOK(t)'
  BY <1>1, StepTypes DEF StepsIInv, StepOK
<1>2. StepOK(s)'
  <2>1. CASE Stepping!Do(s)
    BY <2>1 DEF StepsIInv, Stepping!TypeOK, StepOK, Stepping!Do
  <2>2. CASE Stepping!Attempt(s)
    BY <2>2 DEF StepsIInv, Stepping!TypeOK, StepOK, Stepping!Attempt, Stepping!Runs
  <2>3. CASE Stepping!BodyEnds(s) \/ Stepping!BodyStops(s)
    BY <2>3 DEF StepsIInv, Stepping!TypeOK, StepOK, Stepping!BodyEnds, Stepping!BodyStops
  <2>4. CASE Stepping!Settle(s)
    <3>1. PICK end \in {"done", "failed", "open"} :
            /\ step_result' = [step_result EXCEPT ![s] = end]
            /\ step_native' = [step_native EXCEPT ![s] = IF end = "open" THEN "delay" ELSE "settled"]
            /\ step_body[s] = "fatal" => end = "failed"
      BY <2>4 DEF Stepping!Settle, Stepping!Exposed
    <3>2. /\ step_result'[s] = end /\ step_native'[s] = (IF end = "open" THEN "delay" ELSE "settled")
          /\ step_body'[s] = "none" /\ step_call' = step_call
          /\ s \in step_fatal' => s \in step_fatal \/ step_body[s] = "fatal"
      BY <2>4, <3>1 DEF StepsIInv, Stepping!TypeOK, Stepping!Settle
    <3>3. step_native[s] = "attempt"
      BY <2>4 DEF Stepping!Settle
    <3>4. QED
      BY <3>1, <3>2, <3>3 DEF StepsIInv, StepOK
  <2>5. CASE Stepping!Return(s) \/ Stepping!Interrupt(s) \/ Stepping!Joined(s)
    BY <2>5 DEF StepsIInv, Stepping!TypeOK, StepOK, Stepping!Return, Stepping!Interrupt, Stepping!Joined,
                Stepping!Joins
  <2>6. QED
    BY <2>1, <2>2, <2>3, <2>4, <2>5
<1>3. QED
  BY <1>1, <1>2, StepTypes DEF StepsIInv

LEMMA StepsInvariance ==
  ASSUME Stepping!WorkflowAssumption, StepsIInv, [Stepping!Next]_Stepping!vars PROVE StepsIInv'
<1>1. CASE Stepping!Crash
  BY <1>1 DEF StepsIInv, Stepping!TypeOK, StepOK, Stepping!Crash, Stepping!All, Stepping!WorkflowAssumption
<1>2. CASE UNCHANGED Stepping!vars
  BY <1>2 DEF StepsIInv, Stepping!TypeOK, StepOK, Stepping!vars
<1>3. QED
  BY <1>1, <1>2, StepsStepOK DEF Stepping!Next

\* Once a step is over nothing of it runs, although Cloudflare goes on calling back; what must
\* not be retried is not, not even after an eviction; and no attempt starts late.
THEOREM StepsAreFinal ==
  ASSUME Stepping!WorkflowAssumption
  PROVE  Stepping!Spec =>
           /\ [](Stepping!TypeOK /\ Stepping!NothingOutlivesStep /\ Stepping!FatalIsFinal)
           /\ Stepping!NoLateAttempt
<1>1. Stepping!Init => StepsIInv
  BY StepsInitOK
<1>2. StepsIInv /\ [Stepping!Next]_Stepping!vars => StepsIInv'
  BY StepsInvariance
<1>3. StepsIInv => Stepping!TypeOK /\ Stepping!NothingOutlivesStep /\ Stepping!FatalIsFinal
  BY DEF StepsIInv, StepOK, Stepping!TypeOK, Stepping!NothingOutlivesStep, Stepping!FatalIsFinal
<1>4. ASSUME StepsIInv, [Stepping!Next]_Stepping!vars, NEW s \in Steps,
             step_body[s] # "running", step_body'[s] = "running"
      PROVE  step_call[s] = "open" /\ step_result[s] = "open"
  <2>1. ~ UNCHANGED step_body /\ ~ Stepping!Crash
    BY <1>4 DEF Stepping!Crash, Stepping!All
  <2>2. PICK t \in Steps : Stepping!Attempt(t) \/ Stepping!BodyEnds(t) \/ Stepping!BodyStops(t)
                           \/ Stepping!Settle(t) \/ Stepping!Interrupt(t)
    BY <1>4, <2>1 DEF Stepping!Next, Stepping!vars, Stepping!Do, Stepping!Return, Stepping!Joined
  <2>3. t = s /\ Stepping!Attempt(s)
    BY <1>4, <2>2 DEF StepsIInv, Stepping!TypeOK, Stepping!Attempt, Stepping!BodyEnds, Stepping!BodyStops,
                      Stepping!Settle, Stepping!Interrupt
  <2>4. QED
    BY <1>4, <2>3 DEF StepsIInv, Stepping!TypeOK, StepOK, Stepping!Attempt, Stepping!Runs
<1>5. StepsIInv /\ [Stepping!Next]_Stepping!vars =>
        [\A s \in Steps : step_body[s] # "running" /\ step_body'[s] = "running" =>
            step_call[s] = "open" /\ step_result[s] = "open"]_Stepping!vars
  BY <1>4
<1>6. QED
  BY <1>1, <1>2, <1>3, <1>5, PTL DEF Stepping!Spec, Stepping!NoLateAttempt

----------------------------------------------------------------------------
(* The wait for a container. *)

\* Only the present probe is on the network, and only while it is probed; the last failure
\* is of the probe that was over last.
ReadinessIInv ==
    /\ Readiness!TypeOK
    /\ \A p \in Readiness!Probes :
         ready_fetch[p] = "pending" => p = ready_probe /\ ready_phase = "probing"
    /\ ready_phase = "probing" => ready_probe >= 1 /\ ready_lastFailure = ready_probe - 1
    /\ ready_phase \in {"check", "sleeping"} => ready_lastFailure = ready_probe
    /\ Readiness!ReportsLastFailure

LEMMA ReadinessInvariance ==
  ASSUME Readiness!MaxProbesAssumption, ReadinessIInv, [Readiness!Next]_Readiness!vars PROVE ReadinessIInv'
<1> USE DEF Readiness!MaxProbesAssumption, ReadinessIInv, Readiness!TypeOK, Readiness!Probes, Readiness!Ended,
            Readiness!ReportsLastFailure
<1>1. CASE Readiness!Stopped
  BY <1>1 DEF Readiness!Stopped
<1>2. CASE Readiness!Probe
  BY <1>2 DEF Readiness!Probe
<1>3. CASE Readiness!Answered
  BY <1>3 DEF Readiness!Answered
<1>4. CASE Readiness!Refused
  BY <1>4 DEF Readiness!Refused, Readiness!LatestFailure
<1>5. CASE Readiness!AttemptTimesOut
  BY <1>5 DEF Readiness!AttemptTimesOut, Readiness!LatestFailure, Readiness!Aborted
<1>6. CASE Readiness!Wakes
  BY <1>6 DEF Readiness!Wakes
<1>7. CASE Readiness!TimesOut
  BY <1>7 DEF Readiness!TimesOut, Readiness!Aborted
<1>8. CASE Readiness!Interrupt
  BY <1>8 DEF Readiness!Interrupt, Readiness!Aborted
<1>9. CASE \E p \in Readiness!Probes, how \in {"ok", "bad", "failed"} : Readiness!Respond(p, how)
  BY <1>9 DEF Readiness!Respond
<1>10. CASE Readiness!Toggle \/ UNCHANGED Readiness!vars
  BY <1>10 DEF Readiness!Toggle, Readiness!vars
<1>11. QED
  BY <1>1, <1>2, <1>3, <1>4, <1>5, <1>6, <1>7, <1>8, <1>9, <1>10 DEF Readiness!Next

\* However a wait ends, no probe is left on the network, a timeout reports the failure of the
\* last probe, and no container that was seen stopped is probed.
THEOREM WaitsLeaveNoProbe ==
  ASSUME Readiness!MaxProbesAssumption
  PROVE  Readiness!Spec =>
           /\ [](Readiness!TypeOK /\ Readiness!NoProbeLeft /\ Readiness!ReportsLastFailure)
           /\ Readiness!StopIsSeen
<1>1. Readiness!Init => ReadinessIInv
  BY DEF Readiness!Init, ReadinessIInv, Readiness!TypeOK, Readiness!Probes, Readiness!Ended,
         Readiness!ReportsLastFailure, Readiness!MaxProbesAssumption
<1>2. ReadinessIInv /\ [Readiness!Next]_Readiness!vars => ReadinessIInv'
  BY ReadinessInvariance
<1>3. ReadinessIInv => Readiness!TypeOK /\ Readiness!NoProbeLeft /\ Readiness!ReportsLastFailure
  BY DEF ReadinessIInv, Readiness!NoProbeLeft
<1>4. ReadinessIInv /\ [Readiness!Next]_Readiness!vars =>
        [ready_probe' # ready_probe => ready_running]_Readiness!vars
  BY DEF Readiness!Next, Readiness!vars, Readiness!Stopped, Readiness!Probe, Readiness!StillRunning, Readiness!Answered,
         Readiness!Refused, Readiness!AttemptTimesOut, Readiness!Wakes, Readiness!TimesOut, Readiness!Interrupt,
         Readiness!Respond, Readiness!Toggle
<1>5. QED
  BY <1>1, <1>2, <1>3, <1>4, PTL DEF Readiness!Spec, Readiness!StopIsSeen

----------------------------------------------------------------------------
(* The runs of a workspace. *)

RunsIInv == Running!TypeOK /\ Running!HandlesAreOwned

LEMMA RunsInvariance ==
  ASSUME Running!TriesAssumption, RunsIInv, [Running!Next]_Running!vars PROVE RunsIInv'
<1> USE DEF RunsIInv, Running!TypeOK, Running!HandlesAreOwned, Running!TriesAssumption
<1>1. CASE Running!Construct \/ Running!Register \/ Running!BuildLayer \/ Running!Import \/ Running!GetWorkspace
           \/ Running!CloseLayer
  BY <1>1 DEF Running!Construct, Running!Register, Running!BuildLayer, Running!HasHost, Running!Import,
              Running!GetWorkspace, Running!CloseLayer, Running!Users
<1>2. CASE UNCHANGED Running!vars
  BY <1>2 DEF Running!vars
<1>3. ASSUME NEW f \in Fibers, NEW r \in Runs, NEW h \in {"exec", "collect", "get"}, Running!Acquire(f, r, h)
      PROVE  RunsIInv'
  <2>1. runs_tries[f] + 1 \in 0..MaxTries
    BY <1>3 DEF Running!Acquire
  <2>2. runs_tries' \in [Fibers -> 0..MaxTries]
    BY <1>3, <2>1 DEF Running!Acquire
  <2>3. QED
    BY <1>3, <2>2 DEF Running!Acquire
<1>4. ASSUME NEW f \in Fibers, Running!Interrupt(f) PROVE RunsIInv'
  BY <1>4 DEF Running!Interrupt, Running!Abandons, Running!CloseScope
<1>5. ASSUME NEW f \in Fibers, Running!Acquired(f) PROVE RunsIInv'
  BY <1>5 DEF Running!Acquired, Running!Granted, Running!Then, Running!CloseScope
<1>6. ASSUME NEW f \in Fibers,
             Running!NotAcquired(f) \/ Running!Await(f) \/ Running!Result(f) \/ Running!Release(f)
      PROVE  RunsIInv'
  BY <1>6 DEF Running!NotAcquired, Running!Await, Running!Result, Running!Release, Running!CloseScope
<1>7. ASSUME NEW f \in Fibers, Running!Call(f) PROVE RunsIInv'
  <2>1. runs_tries[f] + 1 \in 0..MaxTries
    BY <1>7 DEF Running!Call
  <2>2. runs_tries' \in [Fibers -> 0..MaxTries]
    BY <1>7, <2>1 DEF Running!Call
  <2>3. QED
    BY <1>7, <2>2 DEF Running!Call
<1>8. ASSUME NEW f \in Fibers, Running!Answer(f) \/ Running!Kill(f) \/ Running!Finish(f) PROVE RunsIInv'
  BY <1>8 DEF Running!Answer, Running!Kill, Running!Finish
<1>9. ASSUME NEW r \in Runs, Running!Exit(r) PROVE RunsIInv'
  BY <1>9 DEF Running!Exit
<1>10. QED
  BY <1>1, <1>2, <1>3, <1>4, <1>5, <1>6, <1>7, <1>8, <1>9 DEF Running!Next, Running!Closed

\* Wherever interrupts arrive, every handle that the platform gives out is owned by the scope
\* of a fiber that still uses it.
THEOREM HandlesStayOwned ==
  ASSUME Running!TriesAssumption
  PROVE  Running!Spec => [](Running!TypeOK /\ Running!HandlesAreOwned)
<1>1. Running!Init => RunsIInv
  BY DEF Running!Init, RunsIInv, Running!TypeOK, Running!HandlesAreOwned, Running!TriesAssumption
<1>2. RunsIInv /\ [Running!Next]_Running!vars => RunsIInv'
  BY RunsInvariance
<1>3. RunsIInv => Running!TypeOK /\ Running!HandlesAreOwned
  BY DEF RunsIInv
<1>4. QED
  BY <1>1, <1>2, <1>3, PTL DEF Running!Spec

----------------------------------------------------------------------------
(* The streams of a WebTransport. *)

\* How far the session is says what its streams may be: none before it was ready, none
\* that is not given back once its scope closes it.
SessionOK ==
    /\ stream_session \in {"none", "connecting"} => stream_exit = "running" /\ \A s \in OpenStreams : stream_stream[s] = "none"
    /\ stream_session \in {"closing", "gone"} => \A s \in OpenStreams : Opened!Closed(s)

\* A writer that is not through has its stream open, and the lock is its own; one that is
\* through has ended the writable.
WriterOK(s) ==
    /\ stream_write[s] \notin {"none", "done"} => stream_stream[s] = "open"
    /\ stream_lock[s] = "writer" => stream_write[s] \notin {"none", "done"}
    /\ stream_write[s] = "done" => stream_lock[s] = "free" /\ stream_writable[s] # "open"
    /\ stream_write[s] \in {"waiting", "queued"} => stream_accepted[s] < StreamChunks

ScopesIInv == Opened!TypeOK /\ SessionOK /\ \A s \in OpenStreams : WriterOK(s)

LEMMA ScopesInitOK == ASSUME Opened!StreamsAssumption, Opened!Init PROVE ScopesIInv
BY DEF Opened!StreamsAssumption, Opened!Init, ScopesIInv, Opened!TypeOK, SessionOK, WriterOK

\* The session goes on, and none of its streams changes but by losing the connection.
LEMMA SessionSteps ==
  ASSUME ScopesIInv, UNCHANGED <<stream_stream, stream_lock, stream_write, stream_accepted>>,
         \/ Opened!Connect \/ Opened!ConstructorThrows \/ Opened!Established \/ Opened!ConnectFails \/ Opened!NativeOpens
         \/ Opened!NativeCloses \/ Opened!ReleaseSession \/ Opened!SessionReleased
         \/ \E how \in {"success", "failure"} : Opened!Leave(how)
  PROVE  ScopesIInv'
<1>1. UNCHANGED stream_writable \/ (/\ stream_writable' = [s \in OpenStreams |-> IF stream_writable[s] = "open" THEN "errored" ELSE stream_writable[s]]
                                    /\ UNCHANGED <<stream_session, stream_exit>>
                                    /\ stream_native' = "closed")
  BY DEF Opened!Connect, Opened!ConstructorThrows, Opened!Established, Opened!ConnectFails,
         Opened!NativeOpens, Opened!NativeCloses, Opened!ReleaseSession,
         Opened!SessionReleased, Opened!Leave, Opened!streaming
<1>2. stream_writable' \in [OpenStreams -> {"open", "fin", "reset", "errored"}]
  BY <1>1 DEF ScopesIInv, Opened!TypeOK
<1>3. /\ stream_session' \in {"none", "connecting", "ready", "closing", "gone"}
      /\ stream_native' \in {"none", "opening", "open", "closed"}
      /\ stream_exit' \in {"running", "success", "failure"}
  BY DEF ScopesIInv, Opened!TypeOK, Opened!Connect, Opened!ConstructorThrows, Opened!Established,
         Opened!ConnectFails, Opened!AfterLeave, Opened!NativeOpens,
         Opened!NativeCloses, Opened!ReleaseSession, Opened!SessionReleased, Opened!Leave
<1>4. Opened!TypeOK'
  BY <1>2, <1>3 DEF ScopesIInv, Opened!TypeOK
<1>5. SessionOK'
  BY DEF ScopesIInv, Opened!TypeOK, SessionOK, Opened!Closed, Opened!InnerScopesDone, Opened!Connect,
         Opened!ConstructorThrows, Opened!Established,
         Opened!ConnectFails, Opened!AfterLeave, Opened!NativeOpens, Opened!NativeCloses,
         Opened!ReleaseSession, Opened!SessionReleased, Opened!Leave
<1>6. ASSUME NEW s \in OpenStreams PROVE WriterOK(s)'
  <2>1. stream_writable[s] # "open" => stream_writable'[s] # "open"
    BY <1>1 DEF ScopesIInv, Opened!TypeOK
  <2>2. QED
    BY <2>1 DEF ScopesIInv, WriterOK
<1>7. QED
  BY <1>4, <1>5, <1>6 DEF ScopesIInv

\* A step of one stream leaves the others alone.
LEMMA OneStream ==
  ASSUME ScopesIInv, Opened!TypeOK', SessionOK', NEW s \in OpenStreams, WriterOK(s)',
         \A t \in OpenStreams \ {s} : /\ stream_stream'[t] = stream_stream[t] /\ stream_writable'[t] = stream_writable[t]
                                      /\ stream_lock'[t] = stream_lock[t]
                                      /\ stream_write'[t] = stream_write[t]
                                      /\ stream_accepted'[t] = stream_accepted[t]
  PROVE  ScopesIInv'
BY DEF ScopesIInv, WriterOK

\* A stream is opened, refused or left out, and given back when no writer is on it.
LEMMA StreamSteps ==
  ASSUME ScopesIInv, NEW s \in OpenStreams,
         Opened!Open(s) \/ (\E ok \in BOOLEAN : Opened!Opened(s, ok)) \/ Opened!ReleaseStream(s) \/ Opened!Skip(s)
  PROVE  ScopesIInv'
<1>1. PICK st \in {"opening", "open", "released", "unused"}, wr \in {stream_writable[s], "fin"} :
        /\ stream_stream' = [stream_stream EXCEPT ![s] = st]
        /\ stream_writable' = [stream_writable EXCEPT ![s] = wr]
        /\ UNCHANGED <<stream_lock, stream_write, stream_accepted>>
        /\ UNCHANGED <<stream_session, stream_native, stream_exit>>
  BY DEF ScopesIInv, Opened!TypeOK, Opened!Open, Opened!Opened, Opened!ReleaseStream, Opened!Skip,
         Opened!Keep
<1>2. Opened!TypeOK'
  BY <1>1 DEF ScopesIInv, Opened!TypeOK
<1>3. stream_stream[s] # "open" \/ stream_write[s] \in {"none", "done"}
  BY DEF Opened!Open, Opened!Opened, Opened!ReleaseStream, Opened!Skip
<1>4. WriterOK(s)'
  BY <1>1, <1>3 DEF ScopesIInv, Opened!TypeOK, WriterOK
<1>5. SessionOK'
  <2>1. stream_session \notin {"none", "connecting"}
    BY DEF ScopesIInv, SessionOK, Opened!Open, Opened!Opened, Opened!ReleaseStream, Opened!Skip
  <2>2. stream_session \in {"closing", "gone"} => st \in {"unused", "released"}
    BY <1>1 DEF ScopesIInv, Opened!TypeOK, SessionOK, Opened!Closed, Opened!Open, Opened!Opened,
           Opened!ReleaseStream, Opened!Skip
  <2>3. QED
    BY <1>1, <2>1, <2>2 DEF ScopesIInv, Opened!TypeOK, SessionOK, Opened!Closed
<1>6. \A t \in OpenStreams \ {s} : stream_stream'[t] = stream_stream[t] /\ stream_writable'[t] = stream_writable[t]
  BY <1>1 DEF ScopesIInv, Opened!TypeOK
<1>7. QED
  BY <1>1, <1>2, <1>4, <1>5, <1>6, OneStream

\* The writable's lock is taken, chunks are written, and the writer's scope ends.
LEMMA WriterSteps ==
  ASSUME Opened!StreamsAssumption, ScopesIInv, NEW s \in OpenStreams,
         \/ Opened!Write(s) \/ Opened!Queued(s) \/ Opened!Written(s) \/ Opened!WriteFails(s)
         \/ (\E ok \in BOOLEAN : Opened!ReleaseWriter(s, ok)) \/ (\E who \in {"writer", "raw"} : Opened!Take(s, who))
  PROVE  ScopesIInv'
<1>1. UNCHANGED stream_stream /\ UNCHANGED <<stream_session, stream_native, stream_exit>>
  BY DEF Opened!Write, Opened!Queued, Opened!Written, Opened!WriteFails, Opened!ReleaseWriter,
         Opened!Take, Opened!Keep
<1>2. /\ stream_writable' \in [OpenStreams -> {"open", "fin", "reset", "errored"}]
      /\ stream_lock' \in [OpenStreams -> {"free", "writer", "raw"}]
      /\ stream_write' \in [OpenStreams -> {"none", "idle", "waiting", "queued", "failed", "done"}]
      /\ \A t \in OpenStreams \ {s} : /\ stream_writable'[t] = stream_writable[t] /\ stream_lock'[t] = stream_lock[t]
                                      /\ stream_write'[t] = stream_write[t]
                                      /\ stream_accepted'[t] = stream_accepted[t]
  BY DEF ScopesIInv, Opened!TypeOK, Opened!Write, Opened!Queued, Opened!Written, Opened!WriteFails,
         Opened!ReleaseWriter, Opened!EndOfStream, Opened!LockReleased, Opened!Take
<1>3. Opened!TypeOK'
  <2>1. stream_write[s] = "queued" => stream_accepted[s] + 1 \in 0..StreamChunks
    BY DEF ScopesIInv, Opened!TypeOK, WriterOK, Opened!StreamsAssumption
  <2>2. stream_accepted' \in [OpenStreams -> 0..StreamChunks]
    BY <2>1 DEF ScopesIInv, Opened!TypeOK, Opened!Write, Opened!Queued, Opened!Written, Opened!Counted,
           Opened!WriteFails, Opened!ReleaseWriter, Opened!Take
  <2>3. QED
    BY <1>1, <1>2, <2>2 DEF ScopesIInv, Opened!TypeOK
<1>4. SessionOK'
  BY <1>1 DEF ScopesIInv, SessionOK, Opened!Closed
<1>5. WriterOK(s)'
  <2>1. CASE Opened!Write(s) \/ Opened!Queued(s) \/ Opened!WriteFails(s)
    BY <1>1, <2>1 DEF ScopesIInv, Opened!TypeOK, WriterOK, Opened!Write, Opened!Queued, Opened!WriteFails
  <2>2. CASE Opened!Written(s)
    BY <1>1, <2>2 DEF ScopesIInv, Opened!TypeOK, WriterOK, Opened!Written
  <2>3. CASE \E ok \in BOOLEAN : Opened!ReleaseWriter(s, ok)
    BY <1>1, <2>3 DEF ScopesIInv, Opened!TypeOK, WriterOK, Opened!ReleaseWriter, Opened!EndOfStream,
           Opened!LockReleased
  <2>4. CASE \E who \in {"writer", "raw"} : Opened!Take(s, who)
    BY <1>1, <2>4 DEF ScopesIInv, Opened!TypeOK, WriterOK, Opened!Take
  <2>5. QED
    BY <2>1, <2>2, <2>3, <2>4
<1>6. QED
  BY <1>1, <1>2, <1>3, <1>4, <1>5, OneStream

LEMMA ScopesInvariance == ASSUME Opened!StreamsAssumption, ScopesIInv, [Opened!Next]_Opened!vars PROVE ScopesIInv'
<1>1. CASE UNCHANGED Opened!vars
  BY <1>1 DEF ScopesIInv, Opened!TypeOK, SessionOK, Opened!Closed, WriterOK, Opened!vars
<1>2. ASSUME \/ Opened!Connect \/ Opened!ConstructorThrows \/ Opened!Established \/ Opened!ConnectFails \/ Opened!NativeOpens
             \/ Opened!NativeCloses \/ Opened!ReleaseSession \/ Opened!SessionReleased
             \/ \E how \in {"success", "failure"} : Opened!Leave(how)
      PROVE  ScopesIInv'
  <2>1. UNCHANGED <<stream_stream, stream_lock, stream_write, stream_accepted>>
    BY <1>2 DEF Opened!Connect, Opened!ConstructorThrows, Opened!Established, Opened!ConnectFails,
           Opened!NativeOpens, Opened!NativeCloses,
                Opened!ReleaseSession, Opened!SessionReleased, Opened!Leave, Opened!streaming
  <2>2. QED
    BY <1>2, <2>1, SessionSteps
<1>3. CASE Opened!Over \/ Opened!Rest
  BY <1>1, <1>3 DEF Opened!Over, Opened!Rest
<1>4. ASSUME NEW s \in OpenStreams,
             Opened!Open(s) \/ (\E ok \in BOOLEAN : Opened!Opened(s, ok)) \/ Opened!ReleaseStream(s) \/ Opened!Skip(s)
      PROVE  ScopesIInv'
  BY <1>4, StreamSteps
<1>5. ASSUME NEW s \in OpenStreams,
             \/ Opened!Write(s) \/ Opened!Queued(s) \/ Opened!Written(s) \/ Opened!WriteFails(s)
             \/ (\E ok \in BOOLEAN : Opened!ReleaseWriter(s, ok)) \/ (\E who \in {"writer", "raw"} : Opened!Take(s, who))
      PROVE  ScopesIInv'
  BY <1>5, WriterSteps
<1>6. QED
  BY <1>1, <1>2, <1>3, <1>4, <1>5 DEF Opened!Next

\* FIN is sent by a writer that is through with its last write, or by a stream that nobody
\* wrote to.
LEMMA FinStep ==
  ASSUME ScopesIInv, [Opened!Next]_Opened!vars, NEW s \in OpenStreams, stream_writable[s] = "open", stream_writable'[s] = "fin"
  PROVE  /\ stream_write[s] \notin {"waiting", "queued"}
         /\ stream_write[s] # "none" => stream_exit # "failure"
<1>1. ~ UNCHANGED stream_writable /\ ~ Opened!NativeCloses
  BY DEF Opened!NativeCloses, ScopesIInv, Opened!TypeOK
<1>2. PICK t \in OpenStreams : Opened!ReleaseStream(t) \/ \E ok \in BOOLEAN : Opened!ReleaseWriter(t, ok)
  BY <1>1 DEF Opened!Next, Opened!vars, Opened!streaming, Opened!Connect, Opened!ConstructorThrows,
         Opened!Established, Opened!ConnectFails, Opened!NativeOpens,
              Opened!ReleaseSession, Opened!SessionReleased, Opened!Over, Opened!Rest, Opened!Leave,
              Opened!Open, Opened!Opened, Opened!Take, Opened!Write, Opened!Queued,
              Opened!Written, Opened!WriteFails, Opened!Skip
<1>3. t = s
  BY <1>2 DEF Opened!ReleaseStream, Opened!ReleaseWriter, ScopesIInv, Opened!TypeOK
<1>4. CASE Opened!ReleaseStream(s)
  BY <1>4 DEF Opened!ReleaseStream, ScopesIInv, WriterOK
<1>5. CASE \E ok \in BOOLEAN : Opened!ReleaseWriter(s, ok)
  BY <1>5 DEF Opened!ReleaseWriter, Opened!EndOfStream, ScopesIInv, Opened!TypeOK
<1>6. QED
  BY <1>2, <1>3, <1>4, <1>5

\* For any streams and writes, however scopes end and whenever the session is lost: a
\* session is closed after its streams, a writer that is gone left no lock, and FIN ends
\* complete streams only.
THEOREM StreamsEndInOrder ==
  ASSUME Opened!StreamsAssumption
  PROVE  Opened!Spec => [](Opened!TypeOK /\ Opened!NoLockLeft /\ Opened!StreamsBeforeSession) /\ Opened!FinIsComplete
<1>1. Opened!Init => ScopesIInv
  BY ScopesInitOK
<1>2. ScopesIInv /\ [Opened!Next]_Opened!vars => ScopesIInv'
  BY ScopesInvariance
<1>3. ScopesIInv => Opened!TypeOK /\ Opened!NoLockLeft /\ Opened!StreamsBeforeSession
  BY DEF ScopesIInv, SessionOK, WriterOK, Opened!Closed, Opened!NoLockLeft, Opened!StreamsBeforeSession
<1>4. ASSUME ScopesIInv, [Opened!Next]_Opened!vars
      PROVE  [\A s \in OpenStreams :
                stream_writable[s] = "open" /\ stream_writable'[s] = "fin" =>
                  /\ stream_write[s] \notin {"waiting", "queued"}
                  /\ stream_write[s] # "none" => stream_exit # "failure"]_Opened!vars
  BY <1>4, FinStep
<1>5. QED
  BY <1>1, <1>2, <1>3, <1>4, PTL DEF Opened!Spec, Opened!FinIsComplete

----------------------------------------------------------------------------
(* The merged logs of a container process. *)

Results == {"chunk", "done", "error"}

LogTypes == Logs!TypeOK /\ logs_ready \in Seq(Sources \X Results)

\* What holds however far the stream is: a stream that ended has no chunk left, and the
\* merged one closed with every lock given back, or failed after the cleanup did.
LogsSettled ==
    /\ \A s \in Sources : logs_native[s].state = "ended" => logs_native[s].left = 0
    /\ logs_merged = "closed" => ~ logs_stopped /\ logs_pull = "idle" /\ logs_locks = {}
    /\ logs_merged = "failed" => logs_cleanup = "done"
    /\ logs_cleanup = "done" => logs_locks = {}
    /\ logs_cleanup # "none" <=> logs_stopped

\* Until it is stopped: a source that has its lock has one read under way or one result in
\* ready, an end in ready is an end, and a source without a lock is out completely.
LogsGoing ==
    ~ logs_stopped =>
        /\ logs_pull # "failing" /\ logs_merged \in {"open", "closed"}
        /\ \A s \in Sources : logs_native[s].state # "canceled"
        /\ logs_remaining = Logs!Cardinality(logs_locks)
        /\ logs_remaining = Len(logs_ready) + Logs!Cardinality(logs_reading)
        /\ logs_reading \subseteq logs_locks
        /\ \A i \in DOMAIN logs_ready :
             /\ logs_ready[i][1] \in logs_locks
             /\ logs_ready[i][2] = "done" => logs_native[logs_ready[i][1]].state = "ended"
        /\ \A s \in Sources \ logs_locks : logs_native[s].state = "ended" /\ logs_out[s] = LogChunks

LogsIInv == LogTypes /\ LogsSettled /\ Logs!OneResult /\ LogsGoing

\* Sets of sources can be counted.
LEMMA SourcesCount ==
  ASSUME Logs!SourcesAssumption, NEW S \in SUBSET Sources
  PROVE  /\ Logs!Cardinality(S) \in Nat /\ Logs!Cardinality(S) <= Logs!Cardinality(Sources)
         /\ Logs!Cardinality(Sources) \in Nat
         /\ Logs!Cardinality(S) = 0 <=> S = {}
         /\ \A s \in S : Logs!Cardinality(S \ {s}) = Logs!Cardinality(S) - 1
         /\ \A s \in Sources \ S : Logs!Cardinality(S \union {s}) = Logs!Cardinality(S) + 1
<1>1. IsFiniteSet(Sources) /\ IsFiniteSet(S)
  <2>1. IsFiniteSet(Sources)
    BY DEF Logs!SourcesAssumption, Logs!IsFiniteSet, IsFiniteSet
  <2>2. QED
    BY <2>1, FS_Subset
<1>2. /\ Cardinality(S) \in Nat /\ Cardinality(S) <= Cardinality(Sources) /\ Cardinality(Sources) \in Nat
      /\ Cardinality(S) = 0 <=> S = {}
      /\ \A s \in S : Cardinality(S \ {s}) = Cardinality(S) - 1
      /\ \A s \in Sources \ S : Cardinality(S \union {s}) = Cardinality(S) + 1
  BY <1>1, FS_Subset, FS_CardinalityType, FS_EmptySet, FS_AddElement, FS_RemoveElement
<1>3. ASSUME NEW T PROVE Logs!Cardinality(T) = Cardinality(T)
  BY DEF Logs!Cardinality, Cardinality
<1>4. QED
  BY <1>2, <1>3

LEMMA LogsInitOK == ASSUME Logs!SourcesAssumption, Logs!Init PROVE LogsIInv
<1>1. Logs!Cardinality(Sources) \in Nat
  <2>1. Sources \in SUBSET Sources
    OBVIOUS
  <2>2. QED
    BY <2>1, SourcesCount
<1>2. DOMAIN logs_ready = {} /\ Len(logs_ready) = 0 /\ logs_ready \in Seq(Sources \X Results)
  BY DEF Logs!Init
<1>3. LogTypes
  <2>1. Len(logs_ready) <= Logs!Cardinality(Sources) /\ logs_remaining \in 0..Logs!Cardinality(Sources)
    BY <1>1, <1>2 DEF Logs!Init
  <2>2. /\ logs_native \in [Sources -> [left : 0..LogChunks, state : {"open", "ended", "broken", "canceled"}]]
        /\ logs_out \in [Sources -> 0..LogChunks]
    BY DEF Logs!Init, Logs!SourcesAssumption
  <2>3. QED
    BY <1>2, <2>1, <2>2 DEF LogTypes, Logs!TypeOK, Logs!Init
<1>4. Logs!OneResult
  <2>1. \A s \in Sources : LogChunks - logs_native[s].left = logs_out[s] + Logs!Queued(s)
    BY <1>2 DEF Logs!Init, Logs!Queued, Logs!SourcesAssumption
  <2>2. QED
    BY <1>2, <2>1 DEF Logs!OneResult
<1>5. LogsSettled
  BY DEF LogsSettled, Logs!Init
<1>6. LogsGoing
  BY <1>1, <1>2 DEF LogsGoing, Logs!Init
<1>7. QED
  BY <1>3, <1>4, <1>5, <1>6 DEF LogsIInv

\* A result joins ready at its end, and leaves it at its head.
LEMMA ResultJoins ==
  ASSUME NEW E, NEW q \in Seq(E), NEW e \in E
  PROVE  /\ Append(q, e) \in Seq(E) /\ Len(Append(q, e)) = Len(q) + 1
         /\ DOMAIN Append(q, e) = DOMAIN q \union {Len(q) + 1} /\ DOMAIN q = 1..Len(q) /\ Len(q) \in Nat
         /\ \A i \in DOMAIN q : Append(q, e)[i] = q[i]
         /\ Append(q, e)[Len(q) + 1] = e
<1>1. /\ Append(q, e) \in Seq(E) /\ Len(Append(q, e)) = Len(q) + 1
      /\ \A i \in 1..Len(q) : Append(q, e)[i] = q[i]
      /\ Append(q, e)[Len(q) + 1] = e /\ DOMAIN q = 1..Len(q) /\ Len(q) \in Nat
      /\ DOMAIN Append(q, e) = 1..Len(q) + 1
  OBVIOUS
<1>2. QED
  BY <1>1

LEMMA ResultLeaves ==
  ASSUME NEW E, NEW q \in Seq(E), q # <<>>
  PROVE  /\ Tail(q) \in Seq(E) /\ Len(Tail(q)) = Len(q) - 1 /\ Len(q) \in Nat \ {0}
         /\ 1 \in DOMAIN q /\ Head(q) = q[1] /\ Head(q) \in E
         /\ \A i \in DOMAIN Tail(q) : i + 1 \in DOMAIN q /\ Tail(q)[i] = q[i + 1] /\ i + 1 # 1 /\ i \in Nat
         /\ \A i \in DOMAIN q : i # 1 => i - 1 \in DOMAIN Tail(q) /\ q[i] = Tail(q)[i - 1]
<1>1. /\ Tail(q) \in Seq(E) /\ Len(Tail(q)) = Len(q) - 1 /\ Len(q) \in Nat \ {0}
      /\ DOMAIN q = 1..Len(q) /\ DOMAIN Tail(q) = 1..(Len(q) - 1)
      /\ Head(q) = q[1] /\ Head(q) \in E
      /\ \A i \in 1..(Len(q) - 1) : Tail(q)[i] = q[i + 1]
  OBVIOUS
<1>2. QED
  BY <1>1

\* The read of a source settles; a stopped pull hears nothing of it.
LEMMA ReadSettlesOK ==
  ASSUME Logs!SourcesAssumption, LogsIInv, NEW s \in Sources, NEW result \in Results, Logs!ReadSettles(s, result)
  PROVE  LogsIInv'
<1> DEFINE E == Sources \X Results
           e == <<s, result>>
<1>0. /\ logs_ready \in Seq(E) /\ e \in E /\ s \in logs_reading
      /\ logs_native[s] \in [left : 0..LogChunks, state : {"open", "ended", "broken", "canceled"}]
      /\ result = "chunk" => logs_native[s].left > 0 /\ logs_native[s].state = "open"
      /\ result = "done" => logs_native[s].state \in {"ended", "canceled"}
      /\ UNCHANGED <<logs_remaining, logs_stopped, logs_cleanup, logs_locks, logs_merged, logs_out>>
      /\ logs_reading' = logs_reading \ {s}
  BY DEF LogsIInv, LogTypes, Logs!TypeOK, Logs!ReadSettles, Results
<1> DEFINE left == IF result = "chunk" THEN logs_native[s].left - 1 ELSE logs_native[s].left
<1>1. /\ logs_native' = [logs_native EXCEPT ![s].left = left] /\ left \in 0..LogChunks
  BY <1>0 DEF Logs!ReadSettles, LogsIInv, LogTypes, Logs!TypeOK, Logs!SourcesAssumption
<1>2. /\ logs_native' \in [Sources -> [left : 0..LogChunks, state : {"open", "ended", "broken", "canceled"}]]
      /\ logs_native'[s].left = left
      /\ \A t \in Sources : logs_native'[t].state = logs_native[t].state /\ (t # s => logs_native'[t] = logs_native[t])
  BY <1>0, <1>1 DEF LogsIInv, LogTypes, Logs!TypeOK
<1>3. LogsSettled'
  <2>1. logs_pull = "idle" => logs_pull' = "idle"
    BY DEF Logs!ReadSettles, Logs!Notify, Logs!Woken
  <2>2. logs_native[s].state = "ended" => left = logs_native[s].left
    BY <1>0
  <2>3. QED
    BY <1>0, <1>2, <2>1, <2>2 DEF LogsIInv, LogsSettled
<1>4. CASE logs_stopped
  <2>1. UNCHANGED <<logs_ready, logs_pull>>
    BY <1>4 DEF Logs!ReadSettles, Logs!Notify
  <2>2. LogTypes'
    BY <1>0, <1>2, <2>1 DEF LogsIInv, LogTypes, Logs!TypeOK
  <2>3. QED
    BY <1>0, <1>3, <1>4, <2>2 DEF LogsIInv, Logs!OneResult, LogsGoing
<1>5. CASE ~ logs_stopped
  <2>1. logs_ready' = Append(logs_ready, e) /\ logs_pull' = Logs!Woken
    BY <1>5 DEF Logs!ReadSettles, Logs!Notify
  <2> HIDE DEF E, e, left
  <2>2. /\ logs_ready' \in Seq(E) /\ Len(logs_ready') = Len(logs_ready) + 1 /\ Len(logs_ready) \in Nat
        /\ DOMAIN logs_ready' = DOMAIN logs_ready \union {Len(logs_ready) + 1}
        /\ DOMAIN logs_ready = 1..Len(logs_ready)
        /\ \A i \in DOMAIN logs_ready : logs_ready'[i] = logs_ready[i]
        /\ logs_ready'[Len(logs_ready) + 1] = e
    BY <1>0, <2>1, ResultJoins
  <2>3. /\ Logs!Cardinality(logs_reading) \in Nat
        /\ Logs!Cardinality(logs_reading') = Logs!Cardinality(logs_reading) - 1
        /\ Logs!Cardinality(logs_reading') \in Nat
        /\ Logs!Cardinality(logs_locks) \in Nat
        /\ Logs!Cardinality(logs_locks) <= Logs!Cardinality(Sources) /\ Logs!Cardinality(Sources) \in Nat
    <3>1. logs_reading \in SUBSET Sources /\ logs_reading' \in SUBSET Sources /\ logs_locks \in SUBSET Sources
      BY <1>0 DEF LogsIInv, LogTypes, Logs!TypeOK
    <3>2. QED
      BY <1>0, <3>1, SourcesCount
  <2>4. /\ logs_remaining = Logs!Cardinality(logs_locks)
        /\ logs_remaining = Len(logs_ready) + Logs!Cardinality(logs_reading)
        /\ logs_reading \subseteq logs_locks /\ s \in logs_locks
    BY <1>0, <1>5 DEF LogsIInv, LogsGoing
  <2>5. e[1] = s /\ e[2] = result
    BY DEF e
  <2>6. LogTypes'
    <3>1. Len(logs_ready') <= Logs!Cardinality(Sources)
      BY <2>2, <2>3, <2>4
    <3>2. logs_pull' \in {"idle", "woken", "failing"}
      BY <2>1 DEF Logs!Woken, LogsIInv, LogTypes, Logs!TypeOK
    <3>3. logs_ready' \in Seq(Sources \X Results)
      BY <2>2 DEF E
    <3>4. QED
      BY <1>0, <1>2, <3>1, <3>2, <3>3 DEF LogsIInv, LogTypes, Logs!TypeOK
  <2>7. \A i \in DOMAIN logs_ready : logs_ready[i][1] # s
    BY <1>0, <1>5 DEF LogsIInv, Logs!OneResult
  <2>8. Logs!OneResult'
    <3>1. \A i, j \in DOMAIN logs_ready' : logs_ready'[i][1] = logs_ready'[j][1] => i = j
      <4>1. \A i, j \in DOMAIN logs_ready : logs_ready[i][1] = logs_ready[j][1] => i = j
        BY <1>5 DEF LogsIInv, Logs!OneResult
      <4>2. QED
        BY <2>2, <2>5, <2>7, <4>1
    <3>2. \A i \in DOMAIN logs_ready' : logs_ready'[i][1] \notin logs_reading'
      <4>1. \A i \in DOMAIN logs_ready : logs_ready[i][1] \notin logs_reading
        BY <1>5 DEF LogsIInv, Logs!OneResult
      <4>2. QED
        BY <1>0, <2>2, <2>5, <4>1
    <3>3. ASSUME NEW t \in Sources PROVE LogChunks - logs_native'[t].left = logs_out'[t] + Logs!Queued(t)'
      <4>1. LogChunks - logs_native[t].left = logs_out[t] + Logs!Queued(t)
        BY <1>5 DEF LogsIInv, Logs!OneResult
      <4>2. CASE t # s
        <5>1. Logs!Queued(t)' = Logs!Queued(t)
          BY <2>2, <2>5, <4>2 DEF Logs!Queued
        <5>2. QED
          BY <1>0, <1>2, <4>1, <4>2, <5>1
      <4>3. CASE t = s
        <5>1. Logs!Queued(s) = 0
          BY <2>7 DEF Logs!Queued
        <5>2. Logs!Queued(s)' = IF result = "chunk" THEN 1 ELSE 0
          BY <2>2, <2>7 DEF Logs!Queued, e
        <5>3. QED
          BY <1>0, <1>2, <4>1, <4>3, <5>1, <5>2 DEF left, LogsIInv, LogTypes, Logs!TypeOK,
                 Logs!SourcesAssumption
      <4>4. QED
        BY <4>2, <4>3
    <3>4. QED
      BY <3>1, <3>2, <3>3 DEF Logs!OneResult
  <2>9. LogsGoing'
    <3>1. logs_pull' # "failing" /\ logs_merged' \in {"open", "closed"} /\ \A t \in Sources : logs_native'[t].state # "canceled"
      BY <1>0, <1>2, <1>5, <2>1 DEF LogsIInv, LogsGoing, Logs!Woken
    <3>2. logs_remaining' = Logs!Cardinality(logs_locks') /\ logs_remaining' = Len(logs_ready') + Logs!Cardinality(logs_reading')
      BY <1>0, <2>2, <2>3, <2>4
    <3>3. logs_reading' \subseteq logs_locks'
      BY <1>0, <2>4
    <3>4. ASSUME NEW i \in DOMAIN logs_ready'
          PROVE  logs_ready'[i][1] \in logs_locks' /\ (logs_ready'[i][2] = "done" => logs_native'[logs_ready'[i][1]].state = "ended")
      <4>1. CASE i \in DOMAIN logs_ready
        <5>1. logs_ready[i][1] \in logs_locks /\ (logs_ready[i][2] = "done" => logs_native[logs_ready[i][1]].state = "ended")
          BY <1>5, <4>1 DEF LogsIInv, LogsGoing
        <5>2. logs_locks \subseteq Sources
          BY DEF LogsIInv, LogTypes, Logs!TypeOK
        <5>3. QED
          BY <1>0, <1>2, <2>2, <4>1, <5>1, <5>2
      <4>2. CASE i = Len(logs_ready) + 1
        <5>1. logs_native[s].state # "canceled"
          BY <1>5 DEF LogsIInv, LogsGoing
        <5>2. QED
          BY <1>0, <1>2, <2>2, <2>4, <2>5, <4>2, <5>1
      <4>3. QED
        BY <2>2, <4>1, <4>2
    <3>5. \A t \in Sources \ logs_locks' : logs_native'[t].state = "ended" /\ logs_out'[t] = LogChunks
      BY <1>0, <1>2, <1>5 DEF LogsIInv, LogsGoing
    <3>6. QED
      BY <3>1, <3>2, <3>3, <3>4, <3>5 DEF LogsGoing
  <2>10. QED
    BY <1>3, <2>6, <2>8, <2>9 DEF LogsIInv
<1>6. QED
  BY <1>4, <1>5

\* Steps that leave the results and the reads alone.
LEMMA AroundOK ==
  ASSUME Logs!SourcesAssumption, LogsIInv,
         \/ \E s \in Sources, how \in {"ended", "broken"} : Logs!SourceEnds(s, how)
         \/ Logs!Pull \/ Logs!CloseMerged \/ Logs!PullReturns \/ Logs!Cancel \/ Logs!PullFails
         \/ \E s \in Sources : Logs!CancelSource(s)
  PROVE  LogsIInv'
<1>0. /\ logs_locks \in SUBSET Sources /\ (Logs!Cardinality(logs_locks) = 0 <=> logs_locks = {})
      /\ logs_native \in [Sources -> [left : 0..LogChunks, state : {"open", "ended", "broken", "canceled"}]]
  <2>1. logs_locks \in SUBSET Sources
    BY DEF LogsIInv, LogTypes, Logs!TypeOK
  <2>2. QED
    BY <2>1, SourcesCount DEF LogsIInv, LogTypes, Logs!TypeOK
<1>1. ASSUME NEW s \in Sources, NEW how \in {"ended", "broken"}, Logs!SourceEnds(s, how) PROVE LogsIInv'
  <2>1. /\ logs_native' = [logs_native EXCEPT ![s].state = how] /\ logs_native[s].state = "open"
        /\ how = "ended" => logs_native[s].left = 0
        /\ UNCHANGED <<logs_reading, logs_ready, logs_remaining, logs_pull, logs_stopped, logs_cleanup, logs_locks, logs_merged, logs_out>>
    BY <1>1 DEF Logs!SourceEnds
  <2>2. /\ logs_native' \in [Sources -> [left : 0..LogChunks, state : {"open", "ended", "broken", "canceled"}]]
        /\ logs_native'[s].state = how
        /\ \A t \in Sources : logs_native'[t].left = logs_native[t].left /\ (t # s => logs_native'[t].state = logs_native[t].state)
    BY <1>0, <2>1
  <2>3. LogTypes'
    BY <2>1, <2>2 DEF LogsIInv, LogTypes, Logs!TypeOK
  <2>4. LogsSettled'
    BY <2>1, <2>2 DEF LogsIInv, LogsSettled
  <2>5. Logs!OneResult'
    BY <2>1, <2>2 DEF LogsIInv, Logs!OneResult, Logs!Queued
  <2>6. LogsGoing'
    <3>1. ~ logs_stopped => \A i \in DOMAIN logs_ready : logs_ready[i][1] \in Sources
      BY <1>0 DEF LogsIInv, LogsGoing
    <3>2. QED
      BY <2>1, <2>2, <3>1 DEF LogsIInv, LogsGoing
  <2>7. QED
    BY <2>3, <2>4, <2>5, <2>6 DEF LogsIInv
<1>2. CASE Logs!Pull \/ Logs!CloseMerged
  <2>1. UNCHANGED <<logs_native, logs_reading, logs_ready, logs_remaining, logs_stopped, logs_cleanup, logs_locks, logs_out>> /\ ~ logs_stopped
    BY <1>2 DEF Logs!Pull, Logs!CloseMerged
  <2>2. /\ logs_pull' \in {"idle", "waiting", "woken"} /\ (logs_pull' = "waiting" => logs_ready = <<>>)
        /\ logs_merged' \in {logs_merged, "closed"}
        /\ (logs_merged' = "closed" => logs_pull' = "idle" /\ logs_remaining = 0)
    BY <1>2 DEF Logs!Pull, Logs!CloseMerged, Logs!AllEnded, LogsIInv, LogsSettled
  <2>3. LogTypes'
    BY <2>1, <2>2 DEF LogsIInv, LogTypes, Logs!TypeOK
  <2>4. LogsGoing' /\ Logs!OneResult'
    BY <2>1, <2>2 DEF LogsIInv, LogsGoing, Logs!OneResult, Logs!Queued
  <2>5. LogsSettled'
    BY <1>0, <2>1, <2>2 DEF LogsIInv, LogsSettled, LogsGoing
  <2>6. QED
    BY <2>3, <2>4, <2>5 DEF LogsIInv
<1>3. CASE Logs!PullReturns \/ Logs!Cancel \/ Logs!PullFails
  <2>1. /\ UNCHANGED <<logs_native, logs_reading, logs_ready, logs_remaining, logs_locks, logs_out>>
        /\ logs_stopped'
        /\ logs_pull' \in {"idle", "waiting", "woken", "failing"}
        /\ (logs_pull' = "waiting" => logs_pull = "waiting")
        /\ logs_cleanup' \in {logs_cleanup, "running"}
        /\ logs_merged' \in {logs_merged, "failed", "canceled"}
        /\ logs_cleanup' # "none" /\ (logs_cleanup' = "done" => logs_cleanup = "done")
        /\ logs_merged' = "failed" => logs_cleanup' = "done"
        /\ logs_merged' # "closed"
    BY <1>3 DEF Logs!PullReturns, Logs!Cancel, Logs!WokenByCancel, Logs!Woken, Logs!PullFails, LogsIInv,
           LogTypes, Logs!TypeOK, LogsSettled
  <2>2. LogTypes'
    BY <2>1 DEF LogsIInv, LogTypes, Logs!TypeOK
  <2>3. QED
    BY <2>1, <2>2 DEF LogsIInv, LogsSettled, Logs!OneResult, LogsGoing
<1>4. ASSUME NEW s \in Sources, Logs!CancelSource(s) PROVE LogsIInv'
  <2>1. /\ logs_native' = [logs_native EXCEPT ![s].state = IF logs_native[s].state = "open" THEN "canceled" ELSE logs_native[s].state]
        /\ logs_cleanup = "running" /\ logs_locks' = logs_locks \ {s} /\ s \in logs_locks
        /\ UNCHANGED <<logs_reading, logs_ready, logs_remaining, logs_pull, logs_stopped, logs_cleanup, logs_merged, logs_out>>
    BY <1>0, <1>4 DEF Logs!CancelSource
  <2>2. /\ logs_native' \in [Sources -> [left : 0..LogChunks, state : {"open", "ended", "broken", "canceled"}]]
        /\ \A t \in Sources : logs_native'[t].left = logs_native[t].left
        /\ \A t \in Sources : logs_native'[t].state = "ended" => logs_native[t].state = "ended"
    BY <1>0, <2>1
  <2>3. LogTypes'
    BY <2>1, <2>2 DEF LogsIInv, LogTypes, Logs!TypeOK
  <2>4. QED
    BY <2>1, <2>2, <2>3 DEF LogsIInv, LogsSettled, Logs!OneResult, LogsGoing
<1>5. QED
  BY <1>1, <1>2, <1>3, <1>4

\* A pull takes the first result of ready.
LEMMA TakingOK ==
  ASSUME Logs!SourcesAssumption, LogsIInv, Logs!TakeChunk \/ Logs!TakeEnd \/ Logs!TakeError
  PROVE  LogsIInv'
<1> DEFINE E == Sources \X Results
<1>0. /\ logs_ready \in Seq(E) /\ logs_ready # <<>> /\ ~ logs_stopped /\ logs_pull = "woken"
      /\ logs_ready' = Tail(logs_ready)
      /\ UNCHANGED logs_native
  BY DEF LogsIInv, LogTypes, Logs!TakeChunk, Logs!TakeEnd, Logs!TakeError
<1>1. ASSUME NEW e \in E PROVE e[1] \in Sources /\ e = <<e[1], e[2]>>
  OBVIOUS
<1> HIDE DEF E
<1>2. /\ logs_ready' \in Seq(E) /\ Len(logs_ready') = Len(logs_ready) - 1 /\ Len(logs_ready) \in Nat \ {0}
      /\ 1 \in DOMAIN logs_ready /\ Head(logs_ready) = logs_ready[1] /\ Head(logs_ready) \in E
      /\ \A i \in DOMAIN logs_ready' : i + 1 \in DOMAIN logs_ready /\ logs_ready'[i] = logs_ready[i + 1] /\ i + 1 # 1 /\ i \in Nat
      /\ \A i \in DOMAIN logs_ready : i # 1 => i - 1 \in DOMAIN logs_ready' /\ logs_ready[i] = logs_ready'[i - 1]
  BY <1>0, ResultLeaves
<1>3. PICK s \in Sources : /\ s = Head(logs_ready)[1] /\ logs_ready[1] = <<s, Head(logs_ready)[2]>>
                           /\ logs_ready[1][1] = s /\ logs_ready[1][2] = Head(logs_ready)[2]
  BY <1>1, <1>2
<1>4. /\ \A i, j \in DOMAIN logs_ready : logs_ready[i][1] = logs_ready[j][1] => i = j
      /\ \A i \in DOMAIN logs_ready : logs_ready[i][1] \notin logs_reading
      /\ \A t \in Sources : LogChunks - logs_native[t].left = logs_out[t] + Logs!Queued(t)
  BY <1>0 DEF LogsIInv, Logs!OneResult
<1>5. /\ logs_remaining = Logs!Cardinality(logs_locks)
      /\ logs_remaining = Len(logs_ready) + Logs!Cardinality(logs_reading)
      /\ logs_reading \subseteq logs_locks
      /\ \A i \in DOMAIN logs_ready : /\ logs_ready[i][1] \in logs_locks
                                      /\ logs_ready[i][2] = "done" => logs_native[logs_ready[i][1]].state = "ended"
      /\ \A t \in Sources \ logs_locks : logs_native[t].state = "ended" /\ logs_out[t] = LogChunks
      /\ logs_merged \in {"open", "closed"} /\ \A t \in Sources : logs_native[t].state # "canceled"
  BY <1>0 DEF LogsIInv, LogsGoing
<1>6. s \in logs_locks /\ s \notin logs_reading /\ \A i \in DOMAIN logs_ready' : logs_ready'[i][1] # s
  BY <1>2, <1>3, <1>4, <1>5
<1>7. /\ logs_reading \in SUBSET Sources /\ logs_locks \in SUBSET Sources
      /\ logs_native \in [Sources -> [left : 0..LogChunks, state : {"open", "ended", "broken", "canceled"}]]
      /\ logs_out \in [Sources -> 0..LogChunks] /\ Len(logs_ready) <= Logs!Cardinality(Sources)
  BY DEF LogsIInv, LogTypes, Logs!TypeOK
<1>8. /\ Logs!Cardinality(logs_reading) \in Nat /\ Logs!Cardinality(logs_locks) \in Nat
      /\ Logs!Cardinality(Sources) \in Nat
      /\ Logs!Cardinality(logs_locks) <= Logs!Cardinality(Sources)
      /\ Logs!Cardinality(logs_reading \union {s}) = Logs!Cardinality(logs_reading) + 1
      /\ Logs!Cardinality(logs_locks \ {s}) = Logs!Cardinality(logs_locks) - 1
  BY <1>3, <1>6, <1>7, SourcesCount
<1>9. /\ logs_ready' \in Seq(Sources \X Results) /\ Len(logs_ready') <= Logs!Cardinality(Sources)
      /\ \A i, j \in DOMAIN logs_ready' : logs_ready'[i][1] = logs_ready'[j][1] => i = j
      /\ \A i \in DOMAIN logs_ready' : logs_ready'[i][1] \notin logs_reading
  <2>1. logs_ready' \in Seq(Sources \X Results)
    BY <1>2 DEF E
  <2>2. ASSUME NEW i \in DOMAIN logs_ready', NEW j \in DOMAIN logs_ready', logs_ready'[i][1] = logs_ready'[j][1] PROVE i = j
    <3>1. i + 1 = j + 1 /\ i \in Nat /\ j \in Nat
      BY <1>2, <1>4, <2>2
    <3>2. QED
      BY <3>1
  <2>3. \A i \in DOMAIN logs_ready' : logs_ready'[i][1] \notin logs_reading
    BY <1>2, <1>4
  <2>4. Len(logs_ready') <= Logs!Cardinality(Sources)
    BY <1>2, <1>7, <1>8
  <2>5. QED
    BY <2>1, <2>2, <2>3, <2>4
<1>10. \A t \in Sources : t # s => Logs!Queued(t)' = Logs!Queued(t)
  <2> SUFFICES ASSUME NEW t \in Sources, t # s
               PROVE  (\E i \in DOMAIN logs_ready' : logs_ready'[i] = <<t, "chunk">>)
                        <=> (\E i \in DOMAIN logs_ready : logs_ready[i] = <<t, "chunk">>)
    BY DEF Logs!Queued
  <2>1. logs_ready[1] # <<t, "chunk">>
    BY <1>3
  <2>2. QED
    BY <1>2, <2>1
<1>11. Logs!Queued(s)' = 0
  <2>1. ASSUME NEW i \in DOMAIN logs_ready', logs_ready'[i] = <<s, "chunk">> PROVE FALSE
    <3>1. logs_ready'[i][1] = s
      BY <2>1
    <3>2. QED
      BY <1>6, <3>1
  <2>2. QED
    BY <2>1 DEF Logs!Queued
<1>12. Logs!Queued(s) = IF Head(logs_ready)[2] = "chunk" THEN 1 ELSE 0
  <2>1. \A i \in DOMAIN logs_ready : i # 1 => logs_ready[i][1] # s
    BY <1>2, <1>6
  <2>2. ASSUME NEW i \in DOMAIN logs_ready, logs_ready[i] = <<s, "chunk">> PROVE i = 1 /\ logs_ready[1][2] = "chunk"
    <3>1. logs_ready[i][1] = s /\ logs_ready[i][2] = "chunk"
      BY <2>2
    <3>2. QED
      BY <2>1, <3>1
  <2>3. Head(logs_ready)[2] = "chunk" => logs_ready[1] = <<s, "chunk">> /\ 1 \in DOMAIN logs_ready
    BY <1>2, <1>3
  <2>4. QED
    BY <1>3, <2>2, <2>3 DEF Logs!Queued
<1>13. CASE Logs!TakeChunk
  <2>1. /\ Head(logs_ready)[2] = "chunk" /\ logs_reading' = logs_reading \union {s}
        /\ logs_out' = [logs_out EXCEPT ![s] = @ + 1]
        /\ logs_pull' = "idle"
        /\ UNCHANGED <<logs_native, logs_remaining, logs_stopped, logs_cleanup, logs_locks, logs_merged>>
    BY <1>3, <1>13 DEF Logs!TakeChunk, Logs!ReadsOn
  <2>2. logs_out[s] + 1 \in 0..LogChunks /\ LogChunks - logs_native[s].left = logs_out[s] + 1
    BY <1>3, <1>4, <1>7, <1>12, <2>1 DEF Logs!SourcesAssumption
  <2>3. /\ logs_out' \in [Sources -> 0..LogChunks] /\ logs_out'[s] = logs_out[s] + 1
        /\ \A t \in Sources : t # s => logs_out'[t] = logs_out[t]
    BY <1>3, <1>7, <2>1, <2>2
  <2>4. LogTypes'
    BY <1>3, <1>9, <2>1, <2>3 DEF LogsIInv, LogTypes, Logs!TypeOK
  <2>5. LogsSettled'
    BY <2>1 DEF LogsIInv, LogsSettled
  <2>6. Logs!OneResult'
    <3>1. \A t \in Sources : LogChunks - logs_native'[t].left = logs_out'[t] + Logs!Queued(t)'
      <4>1. ASSUME NEW t \in Sources, t # s PROVE LogChunks - logs_native'[t].left = logs_out'[t] + Logs!Queued(t)'
        BY <1>4, <1>10, <2>1, <2>3, <4>1
      <4>2. logs_out[s] \in Nat /\ LogChunks - logs_native'[s].left = logs_out'[s] + Logs!Queued(s)'
        BY <1>3, <1>7, <1>11, <2>1, <2>2, <2>3
      <4>3. QED
        BY <4>1, <4>2
    <3>2. \A i \in DOMAIN logs_ready' : logs_ready'[i][1] \notin logs_reading'
      BY <1>6, <1>9, <2>1
    <3>3. QED
      BY <1>9, <3>1, <3>2 DEF Logs!OneResult
  <2>7. LogsGoing'
    <3>1. logs_remaining' = Logs!Cardinality(logs_locks') /\ logs_remaining' = Len(logs_ready') + Logs!Cardinality(logs_reading')
      <4>1. Logs!Cardinality(logs_reading') = Logs!Cardinality(logs_reading) + 1 /\ Logs!Cardinality(logs_locks') = Logs!Cardinality(logs_locks)
        BY <1>8, <2>1
      <4>2. QED
        BY <1>2, <1>5, <1>8, <2>1, <4>1
    <3>2. \A i \in DOMAIN logs_ready' : /\ logs_ready'[i][1] \in logs_locks'
                                        /\ logs_ready'[i][2] = "done" => logs_native'[logs_ready'[i][1]].state = "ended"
      BY <1>2, <1>5, <2>1
    <3>3. \A t \in Sources \ logs_locks' : logs_native'[t].state = "ended" /\ logs_out'[t] = LogChunks
      BY <1>5, <1>6, <2>1, <2>3
    <3>4. QED
      BY <1>5, <1>6, <2>1, <3>1, <3>2, <3>3 DEF LogsGoing
  <2>8. QED
    BY <2>4, <2>5, <2>6, <2>7 DEF LogsIInv
<1>14. CASE Logs!TakeEnd
  <2>1. /\ Head(logs_ready)[2] = "done" /\ logs_remaining' = logs_remaining - 1
        /\ logs_locks' = logs_locks \ {s}
        /\ logs_pull' \in {"waiting", "woken"} /\ (logs_pull' = "waiting" => logs_ready' = <<>>)
        /\ UNCHANGED <<logs_native, logs_reading, logs_stopped, logs_cleanup, logs_merged, logs_out>>
    BY <1>3, <1>14 DEF Logs!TakeEnd
  <2>2. logs_native[s].state = "ended" /\ logs_native[s].left = 0 /\ logs_out[s] = LogChunks
    <3>1. logs_native[s].state = "ended"
      BY <1>2, <1>3, <1>5, <2>1
    <3>2. logs_native[s].left = 0
      BY <1>3, <3>1 DEF LogsIInv, LogsSettled
    <3>3. Logs!Queued(s) = 0
      BY <1>12, <2>1
    <3>4. QED
      BY <1>3, <1>4, <1>7, <3>1, <3>2, <3>3 DEF Logs!SourcesAssumption
  <2>3. logs_remaining' = Logs!Cardinality(logs_locks') /\ logs_remaining' = Len(logs_ready') + Logs!Cardinality(logs_reading')
    BY <1>2, <1>5, <1>8, <2>1
  <2>4. logs_remaining' \in 0..Logs!Cardinality(Sources)
    BY <1>2, <1>5, <1>8, <2>1, <2>3
  <2>5. LogTypes'
    BY <1>9, <2>1, <2>4 DEF LogsIInv, LogTypes, Logs!TypeOK
  <2>6. LogsSettled'
    BY <1>0, <2>1 DEF LogsIInv, LogsSettled
  <2>7. Logs!OneResult'
    <3>1. \A t \in Sources : LogChunks - logs_native'[t].left = logs_out'[t] + Logs!Queued(t)'
      <4>1. Logs!Queued(s) = 0
        BY <1>12, <2>1
      <4>2. ASSUME NEW t \in Sources, t # s PROVE LogChunks - logs_native'[t].left = logs_out'[t] + Logs!Queued(t)'
        BY <1>4, <1>10, <2>1, <4>2
      <4>3. logs_out[s] \in Nat /\ LogChunks - logs_native'[s].left = logs_out'[s] + Logs!Queued(s)'
        BY <1>3, <1>4, <1>7, <1>11, <2>1, <4>1
      <4>4. QED
        BY <4>2, <4>3
    <3>2. QED
      BY <1>9, <2>1, <3>1 DEF Logs!OneResult
  <2>8. LogsGoing'
    <3>1. logs_reading' \subseteq logs_locks'
      BY <1>5, <1>6, <2>1
    <3>2. \A i \in DOMAIN logs_ready' : /\ logs_ready'[i][1] \in logs_locks'
                                        /\ logs_ready'[i][2] = "done" => logs_native'[logs_ready'[i][1]].state = "ended"
      BY <1>2, <1>5, <1>6, <2>1
    <3>3. \A t \in Sources \ logs_locks' : logs_native'[t].state = "ended" /\ logs_out'[t] = LogChunks
      BY <1>5, <2>1, <2>2
    <3>4. QED
      BY <1>5, <2>1, <2>3, <3>1, <3>2, <3>3 DEF LogsGoing
  <2>9. QED
    BY <2>5, <2>6, <2>7, <2>8 DEF LogsIInv
<1>15. CASE Logs!TakeError
  <2>1. /\ logs_stopped' = TRUE /\ logs_cleanup' = "running" /\ logs_pull' = "failing"
        /\ UNCHANGED <<logs_native, logs_reading, logs_remaining, logs_locks, logs_merged, logs_out>>
    BY <1>15 DEF Logs!TakeError
  <2>2. LogTypes'
    BY <1>9, <2>1 DEF LogsIInv, LogTypes, Logs!TypeOK
  <2>3. LogsSettled'
    BY <1>0, <1>5, <2>1 DEF LogsIInv, LogsSettled
  <2>4. QED
    BY <2>1, <2>2, <2>3 DEF LogsIInv, Logs!OneResult, LogsGoing
<1>16. QED
  BY <1>13, <1>14, <1>15

LEMMA LogsInvariance == ASSUME Logs!SourcesAssumption, LogsIInv, [Logs!Next]_Logs!vars PROVE LogsIInv'
<1>1. CASE Logs!CleanupDone
  <2>1. /\ logs_cleanup' = "done" /\ logs_ready' = <<>> /\ logs_locks = {} /\ logs_stopped
        /\ UNCHANGED <<logs_native, logs_reading, logs_remaining, logs_pull, logs_stopped, logs_locks, logs_merged, logs_out>>
    BY <1>1 DEF Logs!CleanupDone, Logs!AllReleased, LogsIInv, LogsSettled
  <2>2. Logs!Cardinality(Sources) \in Nat
    <3>1. Sources \in SUBSET Sources
      OBVIOUS
    <3>2. QED
      BY <3>1, SourcesCount
  <2>3. LogTypes'
    BY <2>1, <2>2 DEF LogsIInv, LogTypes, Logs!TypeOK
  <2>4. QED
    BY <2>1, <2>3 DEF LogsIInv, LogsSettled, Logs!OneResult, LogsGoing
<1>2. CASE UNCHANGED Logs!vars
  BY <1>2 DEF LogsIInv, LogTypes, Logs!TypeOK, LogsSettled, Logs!OneResult, Logs!Queued, LogsGoing,
         Logs!vars
<1>3. QED
  BY <1>1, <1>2, ReadSettlesOK, AroundOK, TakingOK DEF Logs!Next, Results

\* For any sources and chunks, however reads, ends, failures and cancellations interleave: a
\* source has one result at a time, a closed stream has all that was written, and a failure or
\* an end leaves no lock behind.
THEOREM LogsMergeWhole ==
  ASSUME Logs!SourcesAssumption
  PROVE  Logs!Spec => [](Logs!TypeOK /\ Logs!OneResult /\ Logs!ClosedIsComplete /\ Logs!FailureReleases)
<1>1. Logs!Init => LogsIInv
  BY LogsInitOK
<1>2. LogsIInv /\ [Logs!Next]_Logs!vars => LogsIInv'
  BY LogsInvariance
<1>3. LogsIInv => Logs!TypeOK /\ Logs!OneResult /\ Logs!ClosedIsComplete /\ Logs!FailureReleases
  BY DEF LogsIInv, LogTypes, LogsSettled, LogsGoing, Logs!ClosedIsComplete, Logs!FailureReleases
<1>4. QED
  BY <1>1, <1>2, <1>3, PTL DEF Logs!Spec

-----------------------------------------------------------------------------
(* The processes of a container. *)
CONSTANTS Processes, Scoped, Kills
VARIABLES proc_exec, proc_alive, proc_settled, proc_exited, proc_microtasks, proc_kills, proc_late, proc_scope

Process == INSTANCE ContainerProcess WITH
    exec <- proc_exec, alive <- proc_alive, settled <- proc_settled, exited <- proc_exited,
    microtasks <- proc_microtasks, kills <- proc_kills, late <- proc_late, scope <- proc_scope

Microtasks == {"onExit", "SIGTERM", "SIGKILL"} \X Processes \X BOOLEAN

ProcessTypes ==
    /\ proc_microtasks \in Seq(Microtasks)
    /\ proc_exec \in [Processes -> {"new", "starting", "failed", "canceled", "acquired"}]
    /\ proc_alive \in [Processes -> {"none", "running", "ended"}]
    /\ proc_settled \subseteq Processes /\ proc_exited \subseteq proc_settled
    /\ proc_scope \in [Processes -> {"open", "closing", "closed"}]

\* What runs was acquired, an exit is known of what ended, and a scope that closed has
\* ended what was acquired.
LifeOK(p) ==
    /\ proc_exec[p] # "acquired" => proc_alive[p] = "none"
    /\ p \in proc_settled => proc_alive[p] = "ended"
    /\ proc_scope[p] = "closed" => proc_alive[p] # "running" /\ proc_exec[p] \notin {"new", "starting"}

\* The exit of p is still to be heard, before the first n microtasks are over.
Announced(p, n) == \E j \in DOMAIN proc_microtasks :
    j < n /\ proc_microtasks[j][1] = "onExit" /\ proc_microtasks[j][2] = p

\* A signal that was called when the exit was settled comes after the exit is heard.
TaskOK(i) ==
    LET p == proc_microtasks[i][2]
    IN IF proc_microtasks[i][1] = "onExit" THEN p \in proc_settled
       ELSE /\ proc_exec[p] = "acquired"
            /\ proc_microtasks[i][3] => p \in proc_exited \/ Announced(p, i)

ProcessIInv ==
    /\ ProcessTypes /\ \A p \in Processes : LifeOK(p)
    /\ \A i \in DOMAIN proc_microtasks : TaskOK(i)
    /\ \A p \in proc_settled : p \in proc_exited \/ Announced(p, Len(proc_microtasks) + 1)
    /\ Process!NoLateSignal

LEMMA ProcessInitOK == ASSUME Process!Init PROVE ProcessIInv
<1>1. proc_microtasks = <<>> /\ proc_microtasks \in Seq(Microtasks) /\ DOMAIN proc_microtasks = {}
  BY DEF Process!Init
<1>2. ProcessTypes
  BY <1>1 DEF ProcessTypes, Process!Init
<1>3. \A p \in Processes : LifeOK(p)
  BY DEF LifeOK, Process!Init
<1>4. QED
  BY <1>1, <1>2, <1>3 DEF ProcessIInv, Process!NoLateSignal, Process!Init

\* Steps that leave the microtasks alone.
LEMMA ProcessStepOK ==
  ASSUME ProcessIInv, NEW p \in Processes,
         Process!Exec(p) \/ Process!ExecFails(p) \/ Process!ExecInterrupted(p) \/ Process!Acquired(p)
           \/ Process!Ends(p)
  PROVE  ProcessIInv'
<1>1. /\ UNCHANGED <<proc_settled, proc_exited, proc_microtasks, proc_late, proc_scope>>
      /\ proc_exec' \in [Processes -> {"new", "starting", "failed", "canceled", "acquired"}]
      /\ proc_alive' \in [Processes -> {"none", "running", "ended"}]
      /\ \A q \in Processes : proc_exec[q] = "acquired" => proc_exec'[q] = "acquired"
      /\ \A q \in Processes \ {p} : proc_exec'[q] = proc_exec[q] /\ proc_alive'[q] = proc_alive[q]
  BY DEF ProcessIInv, ProcessTypes, Process!Exec, Process!ExecFails, Process!ExecInterrupted,
         Process!Acquired, Process!Ends
<1>2. LifeOK(p)'
  BY DEF ProcessIInv, ProcessTypes, LifeOK, Process!Exec, Process!ExecFails, Process!ExecInterrupted,
         Process!Acquired, Process!Ends
<1>3. \A q \in Processes : LifeOK(q)'
  BY <1>1, <1>2 DEF ProcessIInv, LifeOK
<1>4. ProcessTypes'
  BY <1>1 DEF ProcessIInv, ProcessTypes
<1>5. ASSUME NEW i \in DOMAIN proc_microtasks PROVE TaskOK(i)'
  <2>1. proc_microtasks[i] \in Microtasks
    BY DEF ProcessIInv, ProcessTypes
  <2>2. proc_microtasks[i][2] \in Processes
    BY <2>1 DEF Microtasks
  <2>3. QED
    BY <1>1, <2>2 DEF ProcessIInv, TaskOK, Announced
<1>6. QED
  BY <1>1, <1>3, <1>4, <1>5 DEF ProcessIInv, Announced, Process!NoLateSignal

\* A microtask is queued: what was announced stays so.
LEMMA ProcessQueueOK ==
  ASSUME ProcessIInv, NEW p \in Processes,
         Process!Settles(p) \/ Process!Kill(p) \/ Process!CloseScope(p)
  PROVE  ProcessIInv'
<1>0. PICK n \in Nat : n = Len(proc_microtasks)
  <2>1. Len(proc_microtasks) \in Nat
    BY DEF ProcessIInv, ProcessTypes
  <2>2. QED
    BY <2>1
<1>1. /\ proc_microtasks \in Seq(Microtasks)
      /\ UNCHANGED <<proc_exec, proc_alive, proc_exited, proc_late>>
      /\ proc_scope' \in [Processes -> {"open", "closing", "closed"}]
      /\ proc_settled' \in {proc_settled, proc_settled \union {p}}
  BY DEF ProcessIInv, ProcessTypes, Process!Settles, Process!Kill, Process!CloseScope
<1>2. ASSUME NEW q \in Processes PROVE LifeOK(q)'
  BY DEF ProcessIInv, ProcessTypes, LifeOK, Process!Settles, Process!Kill, Process!CloseScope, Process!Releases
<1>3. ProcessTypes' \/ proc_microtasks' \notin Seq(Microtasks)
  BY <1>1 DEF ProcessIInv, ProcessTypes
<1>4. CASE UNCHANGED proc_microtasks
  <2>1. UNCHANGED proc_settled
    <3>1. <<"onExit", p, FALSE>> \in Microtasks
      BY DEF Microtasks
    <3>2. Append(proc_microtasks, <<"onExit", p, FALSE>>) # proc_microtasks
      <4>1. ASSUME NEW e \in Microtasks PROVE Append(proc_microtasks, e) # proc_microtasks
        <5>1. Len(Append(proc_microtasks, e)) = Len(proc_microtasks) + 1 /\ Len(proc_microtasks) \in Nat
          BY <1>1, ResultJoins
        <5>2. QED
          BY <5>1
      <4>2. QED
        BY <3>1, <4>1
    <3>3. ~ Process!Settles(p)
      BY <1>4, <3>2 DEF Process!Settles, Process!Observes
    <3>4. QED
      BY <3>3 DEF Process!Kill, Process!CloseScope
  <2>2. QED
    BY <1>1, <1>2, <1>3, <1>4, <2>1 DEF ProcessIInv, TaskOK, Announced, Process!NoLateSignal
<1>5. ASSUME NEW m \in Microtasks, proc_microtasks' = Append(proc_microtasks, m), m[2] = p,
             IF m[1] = "onExit" THEN p \in proc_settled' /\ proc_settled' = proc_settled \union {p}
             ELSE /\ proc_exec[p] = "acquired" /\ proc_settled' = proc_settled
                  /\ m[3] => p \in proc_settled
      PROVE  ProcessIInv'
  <2>1. /\ proc_microtasks' \in Seq(Microtasks) /\ Len(proc_microtasks') = n + 1 /\ n \in Nat
        /\ DOMAIN proc_microtasks' = DOMAIN proc_microtasks \union {n + 1} /\ DOMAIN proc_microtasks = 1..n
        /\ \A i \in DOMAIN proc_microtasks : proc_microtasks'[i] = proc_microtasks[i]
        /\ proc_microtasks'[n + 1] = m
    BY <1>0, <1>1, <1>5, ResultJoins
  <2>2. \A q \in Processes, k \in 1..(n + 1) : Announced(q, k) => Announced(q, k)'
    BY <2>1 DEF Announced
  <2>3. \A q \in proc_settled : q \in proc_exited \/ Announced(q, n + 1)
    BY <1>0 DEF ProcessIInv
  <2>4. ASSUME NEW i \in DOMAIN proc_microtasks PROVE TaskOK(i)'
    <3>1. proc_microtasks[i] \in Microtasks
      BY <1>1
    <3>2. proc_microtasks[i][2] \in Processes /\ i \in 1..(n + 1)
      BY <2>1, <3>1 DEF Microtasks
    <3>3. TaskOK(i)
      BY DEF ProcessIInv
    <3>4. proc_settled \subseteq proc_settled'
      BY <1>1
    <3>5. QED
      BY <1>1, <2>1, <2>2, <3>2, <3>3, <3>4 DEF TaskOK
  <2>5. TaskOK(n + 1)'
    <3>1. CASE m[1] = "onExit"
      BY <1>5, <2>1, <3>1 DEF TaskOK
    <3>2. CASE m[1] # "onExit"
      <4>1. m[3] => p \in proc_exited \/ Announced(p, n + 1)'
        BY <1>5, <2>1, <2>2, <2>3, <3>2
      <4>2. QED
        BY <1>1, <1>5, <2>1, <3>2, <4>1 DEF TaskOK
    <3>3. QED
      BY <3>1, <3>2
  <2>6. ASSUME NEW q \in proc_settled' PROVE q \in proc_exited' \/ Announced(q, n + 2)'
    <3>1. CASE q \in proc_settled
      <4>1. q \in Processes
        BY <3>1 DEF ProcessIInv, ProcessTypes
      <4>2. Announced(q, n + 1)' => Announced(q, n + 2)'
        BY <2>1 DEF Announced
      <4>3. QED
        BY <1>1, <2>1, <2>2, <2>3, <3>1, <4>1, <4>2
    <3>2. CASE q \notin proc_settled
      <4>1. q = p /\ m[1] = "onExit"
        BY <1>5, <3>2
      <4>2. n + 1 \in DOMAIN proc_microtasks' /\ n + 1 < n + 2
        BY <2>1
      <4>3. QED
        BY <1>5, <2>1, <4>1, <4>2 DEF Announced
    <3>3. QED
      BY <3>1, <3>2
  <2>7. Len(proc_microtasks') + 1 = n + 2
    BY <2>1
  <2>8. QED
    BY <1>1, <1>2, <1>3, <2>1, <2>4, <2>5, <2>6, <2>7 DEF ProcessIInv, Process!NoLateSignal
<1>6. CASE Process!Settles(p)
  <2>1. <<"onExit", p, FALSE>> \in Microtasks
    BY DEF Microtasks
  <2>2. QED
    BY <1>5, <1>6, <2>1 DEF Process!Settles, Process!Observes
<1>7. CASE Process!Kill(p)
  <2>1. <<"SIGTERM", p, p \in proc_settled>> \in Microtasks
    <3>1. (p \in proc_settled) \in BOOLEAN
      OBVIOUS
    <3>2. QED
      BY <3>1 DEF Microtasks
  <2>2. QED
    BY <1>5, <1>7, <2>1 DEF Process!Kill, Process!SignalsLater
<1>8. CASE Process!CloseScope(p)
  <2>1. <<"SIGKILL", p, p \in proc_settled>> \in Microtasks
    <3>1. (p \in proc_settled) \in BOOLEAN
      OBVIOUS
    <3>2. QED
      BY <3>1 DEF Microtasks
  <2>2. QED
    BY <1>4, <1>5, <1>8, <2>1 DEF Process!CloseScope, Process!SignalsLater, Process!Releases
<1>9. QED
  BY <1>6, <1>7, <1>8

\* The first microtask runs; those behind it move up.
LEMMA ProcessRunOK ==
  ASSUME ProcessIInv, Process!OnExit \/ Process!Signal
  PROVE  ProcessIInv'
<1>1. /\ proc_microtasks \in Seq(Microtasks) /\ proc_microtasks # <<>> /\ proc_microtasks' = Tail(proc_microtasks)
      /\ UNCHANGED <<proc_exec, proc_settled>>
  BY DEF ProcessIInv, ProcessTypes, Process!OnExit, Process!Signal
<1>2. /\ proc_microtasks' \in Seq(Microtasks) /\ Len(proc_microtasks') = Len(proc_microtasks) - 1
      /\ Len(proc_microtasks) \in Nat \ {0} /\ 1 \in DOMAIN proc_microtasks
      /\ Head(proc_microtasks) = proc_microtasks[1] /\ Head(proc_microtasks) \in Microtasks
      /\ \A i \in DOMAIN proc_microtasks' : /\ i + 1 \in DOMAIN proc_microtasks /\ i \in Nat
                                            /\ proc_microtasks'[i] = proc_microtasks[i + 1]
      /\ \A i \in DOMAIN proc_microtasks :
           i # 1 => i - 1 \in DOMAIN proc_microtasks' /\ proc_microtasks[i] = proc_microtasks'[i - 1]
  BY <1>1, ResultLeaves
<1>3. PICK n \in Nat : Len(proc_microtasks) = n + 1 /\ DOMAIN proc_microtasks = 1..(n + 1) /\ Len(proc_microtasks') = n
  <2>1. DOMAIN proc_microtasks = 1..Len(proc_microtasks) /\ Len(proc_microtasks) - 1 \in Nat
    BY <1>1, <1>2
  <2>2. Len(proc_microtasks) = (Len(proc_microtasks) - 1) + 1
    BY <2>1
  <2>3. QED
    BY <1>2, <2>1, <2>2
<1>4. PICK m \in Microtasks : m = Head(proc_microtasks)
  BY <1>2
<1>5. PICK p \in Processes : p = m[2]
  BY DEF Microtasks
<1>6. TaskOK(1)
  BY <1>2 DEF ProcessIInv
<1>7. ~ Announced(p, 1)
  BY <1>3 DEF Announced
<1>8. IF m[1] = "onExit"
      THEN proc_exited' = proc_exited \union {p} /\ p \in proc_settled /\ UNCHANGED <<proc_alive, proc_scope, proc_late>>
      ELSE /\ proc_exited' = proc_exited /\ UNCHANGED proc_late /\ proc_exec[p] = "acquired"
           /\ proc_alive' \in {proc_alive, [proc_alive EXCEPT ![p] = "ended"]}
           /\ proc_scope' = [proc_scope EXCEPT ![p] = IF m[1] = "SIGKILL" THEN "closed" ELSE proc_scope[p]]
           /\ m[1] = "SIGKILL" => proc_alive'[p] = "ended"
  <2>1. CASE m[1] = "onExit"
    BY <1>2, <1>4, <1>5, <1>6, <2>1 DEF Process!OnExit, Process!Signal, TaskOK
  <2>2. CASE m[1] # "onExit"
    <3>1. Process!Signal /\ m[1] \in {"SIGTERM", "SIGKILL"}
      BY <1>4, <2>2 DEF Process!OnExit, Microtasks
    <3>2. proc_exec[p] = "acquired" /\ (m[3] => p \in proc_exited)
      BY <1>2, <1>4, <1>5, <1>6, <1>7, <2>2 DEF TaskOK
    <3>3. p \in proc_exited => proc_alive[p] = "ended"
      BY DEF ProcessIInv, ProcessTypes, LifeOK
    <3>4. QED
      BY <1>2, <1>4, <1>5, <2>2, <3>1, <3>2, <3>3 DEF Process!Signal, ProcessIInv, ProcessTypes
  <2>3. QED
    BY <2>1, <2>2
<1>9. proc_exited \subseteq proc_exited' /\ proc_late' = proc_late /\ (m[1] = "onExit" => p \in proc_exited')
  BY <1>8
<1>10. ProcessTypes'
  <2>1. proc_exited' \subseteq proc_settled'
    BY <1>1, <1>8 DEF ProcessIInv, ProcessTypes
  <2>2. /\ proc_alive' \in [Processes -> {"none", "running", "ended"}]
        /\ proc_scope' \in [Processes -> {"open", "closing", "closed"}]
    BY <1>8 DEF ProcessIInv, ProcessTypes
  <2>3. QED
    BY <1>1, <1>2, <2>1, <2>2 DEF ProcessIInv, ProcessTypes
<1>11. ASSUME NEW q \in Processes PROVE LifeOK(q)'
  BY <1>1, <1>8 DEF ProcessIInv, ProcessTypes, LifeOK
<1>12. ASSUME NEW q \in Processes, NEW k \in Nat, Announced(q, k + 1) PROVE q \in proc_exited' \/ Announced(q, k)'
  <2>1. PICK j \in DOMAIN proc_microtasks :
          j < k + 1 /\ proc_microtasks[j][1] = "onExit" /\ proc_microtasks[j][2] = q
    BY <1>12 DEF Announced
  <2>2. CASE j = 1
    BY <1>2, <1>4, <1>5, <1>9, <2>1, <2>2
  <2>3. CASE j # 1
    <3>1. j - 1 \in DOMAIN proc_microtasks' /\ proc_microtasks'[j - 1] = proc_microtasks[j] /\ j - 1 < k
      BY <1>2, <1>3, <2>1, <2>3
    <3>2. QED
      BY <2>1, <3>1 DEF Announced
  <2>4. QED
    BY <2>2, <2>3
<1>13. ASSUME NEW i \in DOMAIN proc_microtasks' PROVE TaskOK(i)'
  <2>1. i + 1 \in DOMAIN proc_microtasks /\ i \in Nat /\ proc_microtasks'[i] = proc_microtasks[i + 1]
    BY <1>2
  <2>2. proc_microtasks[i + 1] \in Microtasks /\ TaskOK(i + 1)
    BY <1>1, <2>1 DEF ProcessIInv
  <2>3. proc_microtasks[i + 1][2] \in Processes
    BY <2>2 DEF Microtasks
  <2>4. QED
    BY <1>1, <1>9, <1>12, <2>1, <2>2, <2>3 DEF TaskOK
<1>14. ASSUME NEW q \in proc_settled' PROVE q \in proc_exited' \/ Announced(q, n + 1)'
  <2>1. q \in proc_settled /\ q \in Processes
    BY <1>1 DEF ProcessIInv, ProcessTypes
  <2>2. q \in proc_exited \/ Announced(q, n + 2)
    BY <1>3, <2>1 DEF ProcessIInv
  <2>3. QED
    BY <1>9, <1>12, <2>1, <2>2
<1>15. QED
  BY <1>3, <1>9, <1>10, <1>11, <1>13, <1>14 DEF ProcessIInv, Process!NoLateSignal

\* For any processes, kills and scopes, wherever an exit comes between: a kill that is called
\* when the exit is settled sends no signal, and no process outlives the scope of execScoped.
THEOREM KillsComeInTime ==
  ASSUME Process!ProcessesAssumption
  PROVE  Process!Spec => [](Process!NoLateSignal /\ Process!ScopeEndsProcess)
<1>1. Process!Init => ProcessIInv
  BY ProcessInitOK
<1>2. ProcessIInv /\ [Process!Next]_Process!vars => ProcessIInv'
  <2>1. ASSUME ProcessIInv, UNCHANGED Process!vars PROVE ProcessIInv'
    BY <2>1 DEF ProcessIInv, ProcessTypes, LifeOK, TaskOK, Announced, Process!NoLateSignal, Process!vars
  <2>2. QED
    BY <2>1, ProcessStepOK, ProcessQueueOK, ProcessRunOK DEF Process!Next
<1>3. ProcessIInv => Process!NoLateSignal /\ Process!ScopeEndsProcess
  BY DEF ProcessIInv, LifeOK, Process!ScopeEndsProcess, Process!ProcessesAssumption
<1>4. QED
  BY <1>1, <1>2, <1>3, PTL DEF Process!Spec

-----------------------------------------------------------------------------
(* The filesystem of a workspace. *)
CONSTANTS FileFibers, FilePaths, FileUses, Invalid
VARIABLES files_file, files_op, files_seen, files_answer

Remote == INSTANCE WorkspaceFiles WITH
    Fibers <- FileFibers, Paths <- FilePaths, Uses <- FileUses,
    file <- files_file, op <- files_op, seen <- files_seen, answer <- files_answer

FileErrors == {None} \union Remote!Missing \union Remote!Refused \union Remote!Broken

FileOps == [at : {"idle", "called", "acted"}, kind : Remote!Kinds, path : FilePaths \union {None},
            to : FilePaths \union {None}, error : FileErrors]

FileStates == {"entry", "missing", "invalid", "loop"}

\* An operation has seen what it finds; one that acted has seen what its reply will say.
FileOpOK(f) ==
    LET o == files_op[f]
    IN /\ o.at # "idle" => /\ o.path \in FilePaths /\ o.to \in FilePaths
                           /\ o.kind \in {"rename", "symlink"} => o.to \notin Invalid
       /\ o.at = "called" => Remote!State(files_file, o.kind, o.path) \in files_seen[f]
       /\ o.at = "acted" =>
            /\ Remote!Answer(o) = "missing" => "missing" \in files_seen[f]
            /\ Remote!Answer(o) = "found" => "entry" \in files_seen[f]

FilesIInv ==
    /\ Remote!TypeOK /\ Remote!AnswersAreTrue
    /\ files_op \in [FileFibers -> FileOps] /\ files_seen \in [FileFibers -> SUBSET FileStates]
    /\ \A f \in FileFibers : FileOpOK(f)

LEMMA FileStatesAre == ASSUME NEW fs, NEW k, NEW p PROVE Remote!State(fs, k, p) \in FileStates
BY DEF Remote!State, Remote!Plain, FileStates

LEMMA FilesInitOK == ASSUME Remote!NoneAssumption, Remote!InvalidAssumption, Remote!Init PROVE FilesIInv
<1>1. Remote!TypeOK
  BY DEF Remote!Init, Remote!TypeOK, Remote!Idle, FileStates
<1>2. files_op \in [FileFibers -> FileOps] /\ files_seen \in [FileFibers -> SUBSET FileStates]
  BY DEF Remote!Init, Remote!Idle, FileOps, FileErrors, FileStates, Remote!Kinds, Remote!Follows
<1>3. \A f \in FileFibers : FileOpOK(f)
  BY DEF Remote!Init, Remote!Idle, FileOpOK
<1>4. Remote!AnswersAreTrue
  BY DEF Remote!Init, Remote!AnswersAreTrue, Remote!NoneAssumption
<1>5. QED
  BY <1>1, <1>2, <1>3, <1>4 DEF FilesIInv

LEMMA FileCallOK ==
  ASSUME Remote!NoneAssumption, FilesIInv, NEW f \in FileFibers, NEW k \in Remote!Kinds,
         NEW p \in FilePaths, NEW q \in FilePaths, Remote!Call(f, k, p, q)
  PROVE  FilesIInv'
<1> DEFINE o == [at |-> "called", kind |-> k, path |-> p, to |-> q, error |-> None]
<1>1. /\ files_op' = [files_op EXCEPT ![f] = o]
      /\ files_seen' = [files_seen EXCEPT ![f] = {Remote!State(files_file, k, p)}]
      /\ files_answer' = [files_answer EXCEPT ![f] = None]
      /\ k \in {"rename", "symlink"} => q \notin Invalid
      /\ files_file' = files_file
  BY DEF Remote!Call
<1>2. o \in FileOps
  BY DEF FileOps, FileErrors
<1>3. /\ o.at = "called" /\ o.kind = k /\ o.path = p /\ o.to = q
      /\ Remote!State(files_file, k, p) \in FileStates
  BY FileStatesAre
<1> HIDE DEF o
<1>4. files_op' \in [FileFibers -> FileOps] /\ files_seen' \in [FileFibers -> SUBSET FileStates]
  BY <1>1, <1>2, <1>3 DEF FilesIInv
<1>5. files_op'[f] = o /\ files_seen'[f] = {Remote!State(files_file, k, p)} /\ files_answer'[f] = None
  BY <1>1 DEF FilesIInv, Remote!TypeOK
<1>6. \A g \in FileFibers \ {f} : /\ files_op'[g] = files_op[g] /\ files_seen'[g] = files_seen[g]
                                  /\ files_answer'[g] = files_answer[g]
  BY <1>1 DEF FilesIInv, Remote!TypeOK
<1>7. Remote!TypeOK'
  <2>1. files_answer' \in [FileFibers -> {"found", "missing", "done", "error", None}]
    BY <1>1 DEF FilesIInv, Remote!TypeOK
  <2>2. \A g \in FileFibers : files_op'[g].at \in {"idle", "called", "acted"} /\ files_seen'[g] \subseteq FileStates
    BY <1>4 DEF FileOps
  <2>3. QED
    BY <1>1, <2>1, <2>2 DEF FilesIInv, Remote!TypeOK, FileStates
<1>8. Remote!AnswersAreTrue'
  BY <1>5, <1>6 DEF FilesIInv, Remote!AnswersAreTrue, Remote!NoneAssumption
<1>9. \A g \in FileFibers : FileOpOK(g)'
  <2>1. FileOpOK(f)'
    BY <1>1, <1>3, <1>5 DEF FileOpOK
  <2>2. \A g \in FileFibers \ {f} : FileOpOK(g)'
    BY <1>1, <1>6 DEF FilesIInv, FileOpOK
  <2>3. QED
    BY <2>1, <2>2
<1>10. QED
  BY <1>4, <1>7, <1>8, <1>9 DEF FilesIInv

\* The platform acts for f: what f saw last is what it found, and the others see the change.
LEMMA FileActOK ==
  ASSUME Remote!NoneAssumption, Remote!InvalidAssumption, FilesIInv, NEW f \in FileFibers, Remote!Act(f)
  PROVE  FilesIInv'
<1> DEFINE o == files_op[f]
           now == Remote!State(files_file, o.kind, o.path)
<1>1. /\ o \in FileOps /\ o.at = "called" /\ o.path \in FilePaths /\ o.to \in FilePaths
      /\ o.kind \in {"rename", "symlink"} => o.to \notin Invalid
      /\ now \in files_seen[f] /\ files_answer' = files_answer
  BY DEF FilesIInv, FileOpOK, Remote!Act
<1>2. PICK e \in FileErrors :
        /\ Remote!Acts(f, e)
        /\ e # None => e \notin Remote!Missing \/ now = "missing"
        /\ e = None => o.kind \in Remote!Changing \/ now = "entry"
  <2>1. CASE \E x \in Remote!Broken \union Remote!Refused : Remote!Acts(f, x)
    BY <2>1 DEF FileErrors, Remote!NoneAssumption, Remote!Missing, Remote!Broken, Remote!Refused
  <2>2. QED
    BY <2>1 DEF Remote!Act, Remote!Fails, FileErrors, Remote!NoneAssumption, Remote!Changing
<1>3. /\ files_op' = [files_op EXCEPT ![f].at = "acted", ![f].error = e]
      /\ files_op'[f] \in FileOps /\ files_op'[f].at = "acted" /\ files_op'[f].error = e
      /\ files_op'[f].kind = o.kind /\ files_op'[f].path = o.path /\ files_op'[f].to = o.to
      /\ \A g \in FileFibers \ {f} : files_op'[g] = files_op[g]
      /\ files_op' \in [FileFibers -> FileOps]
  BY <1>1, <1>2 DEF FilesIInv, Remote!Acts, FileOps
<1>4. UNCHANGED <<files_file, files_seen>> \/ \E new : Remote!Changes(new)
  BY DEF Remote!Act, Remote!Fails
<1>5. /\ \A g \in FileFibers : files_seen[g] \subseteq files_seen'[g]
      /\ \A g \in FileFibers : files_op[g].at = "called" =>
           Remote!State(files_file', files_op[g].kind, files_op[g].path) \in files_seen'[g]
      /\ files_seen' \in [FileFibers -> SUBSET FileStates]
  <2>1. CASE UNCHANGED <<files_file, files_seen>>
    BY <2>1 DEF FilesIInv, FileOpOK
  <2>2. ASSUME NEW new, Remote!Changes(new)
        PROVE  /\ \A g \in FileFibers : files_seen[g] \subseteq files_seen'[g]
               /\ \A g \in FileFibers : files_op[g].at = "called" =>
                    Remote!State(files_file', files_op[g].kind, files_op[g].path) \in files_seen'[g]
               /\ files_seen' \in [FileFibers -> SUBSET FileStates]
    BY <2>2, FileStatesAre DEF FilesIInv, Remote!Changes
  <2>3. QED
    BY <1>4, <2>1, <2>2
<1>6. /\ files_file' \in [FilePaths -> FilePaths \union {"none", "entry"}]
      /\ \A p \in Invalid : files_file'[p] = "none"
  <2>1. files_file \in [FilePaths -> FilePaths \union {"none", "entry"}] /\ \A p \in Invalid : files_file[p] = "none"
    BY DEF FilesIInv, Remote!TypeOK
  <2>2. CASE files_file' = files_file
    BY <2>1, <2>2
  <2>3. CASE o.kind = "writeFile" /\ now \in {"entry", "missing"}
                /\ files_file' = [files_file EXCEPT ![Remote!Leads(o.path)] = "entry"]
    <3>1. Remote!Leads(o.path) \in FilePaths \ Invalid
      BY <1>1, <2>1, <2>3 DEF Remote!Leads, Remote!State, Remote!Plain
    <3>2. QED
      BY <2>1, <2>3, <3>1
  <2>4. CASE \E v \in FilePaths \union {"none", "entry"} : /\ now \in {"entry", "missing"}
                /\ o.kind \in {"mkdir", "symlink", "rm"} /\ files_file' = [files_file EXCEPT ![o.path] = v]
    <3>1. o.path \notin Invalid
      BY <2>4 DEF Remote!State, Remote!Plain, Remote!Follows
    <3>2. QED
      BY <1>1, <2>1, <2>4, <3>1
  <2>5. CASE o.kind = "rename" /\ now = "entry"
                /\ files_file' = [files_file EXCEPT ![o.path] = "none", ![o.to] = files_file[o.path]]
    <3>1. o.path \notin Invalid /\ o.to \notin Invalid
      BY <1>1, <2>5 DEF Remote!State, Remote!Plain, Remote!Follows
    <3>2. PICK h : h = [files_file EXCEPT ![o.path] = "none"]
      OBVIOUS
    <3>3. /\ h \in [FilePaths -> FilePaths \union {"none", "entry"}] /\ \A p \in Invalid : h[p] = "none"
          /\ files_file[o.path] \in FilePaths \union {"none", "entry"}
      BY <1>1, <2>1, <3>1, <3>2
    <3>4. files_file' = [h EXCEPT ![o.to] = files_file[o.path]]
      BY <2>5, <3>2
    <3>5. QED
      BY <1>1, <3>1, <3>3, <3>4
  <2>6. QED
    BY <1>1, <2>2, <2>3, <2>4, <2>5 DEF Remote!Act, Remote!Fails, Remote!Changes
<1>7. Remote!TypeOK'
  <2>1. \A g \in FileFibers : files_op'[g].at \in {"idle", "called", "acted"} /\ files_seen'[g] \subseteq FileStates
    BY <1>3, <1>5 DEF FileOps
  <2>2. QED
    BY <1>1, <1>6, <2>1 DEF FilesIInv, Remote!TypeOK, FileStates
<1>8. Remote!AnswersAreTrue'
  BY <1>1, <1>5 DEF FilesIInv, Remote!AnswersAreTrue
<1>9. /\ Remote!Answer(files_op'[f]) = "missing" => now = "missing"
      /\ Remote!Answer(files_op'[f]) = "found" => now = "entry"
  <2>1. CASE e = None
    BY <1>2, <1>3, <2>1 DEF Remote!Answer
  <2>2. CASE e # None
    <3>1. e \in Remote!Missing \/ ~ Remote!IsNotFound(e)
      BY <2>2 DEF FileErrors, Remote!Missing, Remote!Refused, Remote!Broken, Remote!IsNotFound,
                  Remote!NoneAssumption
    <3>2. QED
      BY <1>2, <1>3, <2>2, <3>1 DEF Remote!Answer
  <2>3. QED
    BY <2>1, <2>2
<1>10. FileOpOK(f)'
  BY <1>1, <1>3, <1>5, <1>9 DEF FileOpOK
<1>11. \A g \in FileFibers \ {f} : FileOpOK(g)'
  BY <1>3, <1>5 DEF FilesIInv, FileOpOK
<1>12. QED
  BY <1>3, <1>5, <1>7, <1>8, <1>10, <1>11 DEF FilesIInv

LEMMA FileReplyOK ==
  ASSUME Remote!NoneAssumption, FilesIInv, NEW f \in FileFibers, Remote!Reply(f)
  PROVE  FilesIInv'
<1>1. /\ files_answer' = [files_answer EXCEPT ![f] = Remote!Answer(files_op[f])]
      /\ files_op' = [files_op EXCEPT ![f] = Remote!Idle] /\ files_op[f].at = "acted"
      /\ UNCHANGED <<files_file, files_seen>>
  BY DEF Remote!Reply
<1>2. Remote!Idle \in FileOps /\ Remote!Idle.at = "idle"
  BY DEF Remote!Idle, FileOps, FileErrors, Remote!Kinds, Remote!Follows
<1>3. Remote!Answer(files_op[f]) \in {"found", "missing", "done", "error", None}
  BY DEF Remote!Answer
<1>4. files_op' \in [FileFibers -> FileOps]
  BY <1>1, <1>2 DEF FilesIInv
<1>5. Remote!TypeOK'
  <2>1. files_answer' \in [FileFibers -> {"found", "missing", "done", "error", None}]
    BY <1>1, <1>3 DEF FilesIInv, Remote!TypeOK
  <2>2. \A g \in FileFibers : files_op'[g].at \in {"idle", "called", "acted"}
    BY <1>4 DEF FileOps
  <2>3. QED
    BY <1>1, <2>1, <2>2 DEF FilesIInv, Remote!TypeOK
<1>6. Remote!AnswersAreTrue'
  <2>1. /\ Remote!Answer(files_op[f]) = "missing" => "missing" \in files_seen[f]
        /\ Remote!Answer(files_op[f]) = "found" => "entry" \in files_seen[f]
    BY <1>1 DEF FilesIInv, FileOpOK
  <2>2. QED
    BY <1>1, <2>1 DEF FilesIInv, Remote!AnswersAreTrue, Remote!TypeOK
<1>7. ASSUME NEW g \in FileFibers PROVE FileOpOK(g)'
  <2>1. CASE g = f
    <3>1. files_op'[g].at = "idle"
      BY <1>1, <1>2, <2>1 DEF FilesIInv
    <3>2. QED
      BY <3>1 DEF FileOpOK
  <2>2. CASE g # f
    <3>1. files_op'[g] = files_op[g]
      BY <1>1, <2>2 DEF FilesIInv
    <3>2. QED
      BY <1>1, <3>1 DEF FilesIInv, FileOpOK
  <2>3. QED
    BY <2>1, <2>2
<1>8. QED
  BY <1>1, <1>4, <1>5, <1>6, <1>7 DEF FilesIInv

\* Whatever fibers write, move and remove meanwhile: a file is said to be missing or found
\* only if it was so at some time of the operation, and the nullable operations answer that
\* it is missing even when the error lost its code.
THEOREM FilesAnswerTruly ==
  ASSUME Remote!NoneAssumption, Remote!InvalidAssumption
  PROVE  Remote!Spec => [](Remote!TypeOK /\ Remote!AnswersAreTrue) /\ Remote!MissingIsNoError
<1>1. Remote!Init => FilesIInv
  BY FilesInitOK
<1>2. FilesIInv /\ [Remote!Next]_Remote!vars => FilesIInv'
  <2>1. ASSUME FilesIInv, UNCHANGED Remote!vars PROVE FilesIInv'
    BY <2>1 DEF FilesIInv, FileOpOK, Remote!TypeOK, Remote!AnswersAreTrue, Remote!vars
  <2>2. QED
    BY <2>1, FileCallOK, FileActOK, FileReplyOK DEF Remote!Next
<1>3. FilesIInv => Remote!TypeOK /\ Remote!AnswersAreTrue
  BY DEF FilesIInv
<1>4. ASSUME FilesIInv, [Remote!Next]_Remote!vars, NEW f \in FileFibers, files_op[f].at = "acted",
             files_op[f].kind \in Remote!Nullable, files_op[f].error \in Remote!Missing,
             files_op'[f] = Remote!Idle
      PROVE  files_answer'[f] = "missing"
  <2>1. Remote!Answer(files_op[f]) = "missing"
    BY <1>4 DEF Remote!Answer, Remote!IsNotFound, Remote!Missing, Remote!NoneAssumption
  <2>2. Remote!Reply(f)
    <3>1. files_op'[f] # files_op[f]
      BY <1>4 DEF Remote!Idle
    <3>2. PICK g \in FileFibers : \/ \E k \in Remote!Kinds, p, q \in FilePaths : Remote!Call(g, k, p, q)
                                  \/ Remote!Act(g) \/ Remote!Reply(g)
      BY <1>4, <3>1 DEF Remote!Next, Remote!vars
    <3>3. g = f
      <4>1. \E x : files_op' = [files_op EXCEPT ![g] = x]
        BY <3>2 DEF Remote!Call, Remote!Act, Remote!Acts, Remote!Fails, Remote!Reply
      <4>2. QED
        BY <1>4, <3>1, <4>1 DEF FilesIInv
    <3>4. QED
      BY <1>4, <3>2, <3>3 DEF Remote!Call, Remote!Act
  <2>3. QED
    BY <1>4, <2>1, <2>2 DEF Remote!Reply, FilesIInv, Remote!TypeOK
<1>5. FilesIInv /\ [Remote!Next]_Remote!vars =>
        [\A f \in FileFibers :
           (files_op[f].at = "acted" /\ files_op[f].kind \in Remote!Nullable
              /\ files_op[f].error \in Remote!Missing /\ files_op'[f] = Remote!Idle)
           => files_answer'[f] = "missing"]_Remote!vars
  BY <1>4
<1>6. QED
  BY <1>1, <1>2, <1>3, <1>5, PTL DEF Remote!Spec, Remote!MissingIsNoError

-----------------------------------------------------------------------------
(* The clients of named sandboxes and containers. *)
CONSTANTS Sandboxes, Containers, Callers, MaxTargets, MaxHandles
VARIABLES named_open, named_cached, named_made, named_address, named_known, named_stubs, named_fresh, named_op,
    named_handles, named_failed

CONSTANTS SocketReaders, SocketWrites, WriteAlls, HighWater, SocketChunks, PeerFaults, SocketPullers
VARIABLES sock_reader, sock_current, sock_write, sock_release

Named == INSTANCE NamedClients WITH
    Fibers <- Callers, open <- named_open, cached <- named_cached, made <- named_made,
    address <- named_address, known <- named_known, stubs <- named_stubs, fresh <- named_fresh,
    op <- named_op, handles <- named_handles, failed <- named_failed

\* What an address holds was constructed for it and did not fail; within the event every
\* target that did not fail is the one its address holds.
TargetsInv ==
    /\ named_open \in BOOLEAN /\ named_made \in 0..MaxTargets
    /\ named_cached \in [Named!Addresses -> (1..named_made) \union {None}]
    /\ named_known = {named_cached[a] : a \in Named!Addresses} \ {None}
    /\ named_address \in [Named!Targets -> Named!Addresses \union {None}]
    /\ named_failed \subseteq 1..named_made
    /\ \A t \in 1..named_made : named_address[t] \in Named!Addresses
    /\ \A a \in Named!Addresses : named_cached[a] # None =>
         named_address[named_cached[a]] = a /\ named_cached[a] \notin named_failed
    /\ named_open => \A t \in (1..named_made) \ named_failed : named_cached[named_address[t]] = t
    /\ ~ named_open => \A a \in Named!Addresses : named_cached[a] = None

\* The stub that a target has is its own, and within the event it constructs one.
StubsInv ==
    /\ named_stubs \in [Named!Targets -> [Sandboxes -> Named!Targets \union {None}]]
    /\ named_fresh \in [Named!Targets -> [Named!Names -> Nat]]
    /\ \A t \in Named!Targets :
         /\ \A n \in Containers : named_fresh[t][n] <= 1
         /\ \A n \in Sandboxes :
              /\ named_stubs[t][n] \in {None, t}
              /\ named_open => named_fresh[t][n] <= 1 /\ (named_stubs[t][n] = None => named_fresh[t][n] = 0)

Ops == [at : {"idle", "sent", "streaming"}, kind : Named!Kinds, name : Named!Names \union {None},
        target : Named!Targets \union {None}, through : Named!Targets \union {None}]

\* An operation and a handle stay with a target of their name's address.
Addressed(o) ==
    /\ o.name \in Named!Names /\ o.target \in 1..named_made /\ o.through \in Named!Targets
    /\ named_address[o.target] = Named!Address(o.name)

OpsInv ==
    /\ named_op \in [Callers -> Ops] /\ named_handles \subseteq Named!Handles
    /\ \A f \in Callers : named_op[f] = Named!Idle \/ (named_op[f].at # "idle" /\ Addressed(named_op[f]))
    /\ \A h \in named_handles : Addressed(h)

NamedIInv == TargetsInv /\ StubsInv /\ OpsInv

NamedAssumption == Named!BoundsAssumption /\ Named!NamesAssumption /\ Named!NoneAssumption

LEMMA NamedInitOK == ASSUME NamedAssumption, Named!Init PROVE NamedIInv
<1>1. named_made = 0 /\ 1..named_made = {} /\ named_made \in 0..MaxTargets
  BY DEF NamedAssumption, Named!BoundsAssumption, Named!Init
<1>2. TargetsInv
  <2>1. named_known = {named_cached[a] : a \in Named!Addresses} \ {None}
    BY DEF Named!Init
  <2>2. QED
    BY <1>1, <2>1 DEF TargetsInv, Named!Init
<1>3. StubsInv
  BY DEF StubsInv, Named!Init, Named!Names
<1>4. OpsInv
  BY DEF OpsInv, Ops, Named!Init, Named!Idle, Named!Kinds
<1>5. QED
  BY <1>2, <1>3, <1>4 DEF NamedIInv

\* RpcTargets.get finds the target its address holds, or constructs one; either did not fail.
LEMMA TargetFound ==
  ASSUME NamedAssumption, TargetsInv, NEW n \in Named!Names, NEW t \in Named!Targets, Named!FindTarget(n, t),
         UNCHANGED <<named_open, named_failed>>
  PROVE  /\ TargetsInv' /\ t \in 1..named_made' /\ t \notin named_failed
         /\ named_address'[t] = Named!Address(n) /\ named_made <= named_made'
         /\ \A s \in 1..named_made : named_address'[s] = named_address[s]
         /\ \A a \in Named!Addresses : named_cached[a] # None => named_cached'[a] = named_cached[a]
<1> DEFINE a == Named!Address(n)
<1>1. a \in Named!Addresses /\ None \notin 1..MaxTargets /\ MaxTargets \in Nat
  BY DEF Named!Addresses, NamedAssumption, Named!NoneAssumption, Named!Targets, Named!BoundsAssumption
<1>2. CASE named_open /\ named_cached[a] # None
  <2>1. t = named_cached[a] /\ UNCHANGED <<named_made, named_address, named_cached, named_known>>
    BY <1>2 DEF Named!FindTarget
  <2>2. TargetsInv'
    BY <2>1 DEF TargetsInv
  <2>3. t \in 1..named_made /\ named_made <= named_made
    BY <1>1, <1>2, <2>1 DEF TargetsInv
  <2>4. QED
    BY <1>1, <1>2, <2>1, <2>2, <2>3 DEF TargetsInv
<1>3. CASE ~ (named_open /\ named_cached[a] # None)
  <2>1. /\ named_made < MaxTargets /\ t = named_made + 1 /\ named_made' = t
        /\ named_address' = [named_address EXCEPT ![t] = a]
        /\ named_cached' = IF named_open THEN [named_cached EXCEPT ![a] = t] ELSE named_cached
        /\ named_known' = IF named_open THEN named_known \union {t} ELSE named_known
    BY <1>3 DEF Named!FindTarget
  <2> HIDE DEF a
  <2>2. /\ named_made \in Nat /\ t \in 1..MaxTargets /\ t \notin 1..named_made /\ 1..named_made' = (1..named_made) \union {t}
        /\ t # None /\ named_made' \in 0..MaxTargets /\ named_made <= named_made' /\ t \notin named_failed
    BY <1>1, <2>1 DEF TargetsInv
  <2>3. /\ named_cached[a] = None
        /\ named_address' \in [Named!Targets -> Named!Addresses \union {None}]
        /\ named_address'[t] = a /\ \A s \in 1..named_made : named_address'[s] = named_address[s]
    <3>1. named_cached[a] = None
      BY <1>1, <1>3 DEF TargetsInv
    <3>2. 1..named_made \subseteq Named!Targets
      BY <1>1 DEF TargetsInv, Named!Targets
    <3>3. QED
      BY <1>1, <2>1, <2>2, <3>1, <3>2 DEF TargetsInv
  <2>4. CASE named_open
    <3>1. /\ named_cached' \in [Named!Addresses -> (1..named_made') \union {None}]
          /\ named_cached'[a] = t /\ \A b \in Named!Addresses \ {a} : named_cached'[b] = named_cached[b]
      BY <1>1, <2>1, <2>2, <2>4 DEF TargetsInv
    <3>2. named_known' = {named_cached'[b] : b \in Named!Addresses} \ {None}
      <4>1. named_known' = named_known \union {t}
        BY <2>1, <2>4
      <4>2. named_known = {named_cached[b] : b \in Named!Addresses} \ {None}
        BY DEF TargetsInv
      <4>3. QED
        BY <1>1, <2>2, <2>3, <3>1, <4>1, <4>2
    <3>3. \A s \in 1..named_made' : named_address'[s] \in Named!Addresses
      BY <1>1, <2>2, <2>3 DEF TargetsInv
    <3>4. \A b \in Named!Addresses : named_cached'[b] # None =>
            named_address'[named_cached'[b]] = b /\ named_cached'[b] \notin named_failed'
      BY <2>2, <2>3, <3>1 DEF TargetsInv
    <3>5. \A s \in (1..named_made') \ named_failed' : named_cached'[named_address'[s]] = s
      <4>1. ASSUME NEW s \in (1..named_made) \ named_failed PROVE named_cached'[named_address'[s]] = s
        <5>1. named_cached[named_address[s]] = s /\ named_address[s] \in Named!Addresses /\ s # None
          BY <1>1, <2>4 DEF TargetsInv
        <5>2. named_address[s] # a
          BY <2>3, <5>1
        <5>3. QED
          BY <2>3, <3>1, <5>1, <5>2
      <4>2. QED
        BY <2>2, <2>3, <3>1, <4>1
    <3>6. TargetsInv'
      BY <2>2, <2>3, <2>4, <3>1, <3>2, <3>3, <3>4, <3>5 DEF TargetsInv
    <3>7. QED
      BY <2>1, <2>2, <2>3, <3>1, <3>6 DEF a
  <2>5. CASE ~ named_open
    <3>1. named_cached' = named_cached /\ named_known' = named_known /\ \A b \in Named!Addresses : named_cached[b] = None
      BY <2>1, <2>5 DEF TargetsInv
    <3>2. \A s \in 1..named_made' : named_address'[s] \in Named!Addresses
      BY <1>1, <2>2, <2>3 DEF TargetsInv
    <3>3. named_cached' \in [Named!Addresses -> (1..named_made') \union {None}]
      BY <2>2, <3>1 DEF TargetsInv
    <3>4. TargetsInv'
      BY <2>2, <2>3, <2>5, <3>1, <3>2, <3>3 DEF TargetsInv
    <3>5. QED
      BY <2>2, <2>3, <3>1, <3>4 DEF a
  <2>6. QED
    BY <2>4, <2>5
<1>4. QED
  BY <1>2, <1>3

\* The stub found is the target's own, and it is constructed once.
LEMMA StubFound ==
  ASSUME NamedAssumption, StubsInv, NEW n \in Named!Names, NEW t \in Named!Targets, NEW through \in Named!Targets,
         Named!FindStub(n, t, through), UNCHANGED named_open
  PROVE  StubsInv' /\ through = t
<1>1. CASE n \in Containers
  <2>1. through = t /\ UNCHANGED named_stubs /\ named_fresh' \in {named_fresh, [named_fresh EXCEPT ![t][n] = 1]}
    BY <1>1 DEF Named!FindStub
  <2>2. n \notin Sandboxes
    BY <1>1 DEF NamedAssumption, Named!NamesAssumption
  <2>3. CASE named_fresh' = named_fresh
    BY <2>1, <2>3 DEF StubsInv
  <2>4. CASE named_fresh' = [named_fresh EXCEPT ![t][n] = 1]
    <3>1. /\ named_fresh' \in [Named!Targets -> [Named!Names -> Nat]] /\ named_fresh'[t][n] = 1
          /\ \A s \in Named!Targets, m \in Named!Names : s # t \/ m # n => named_fresh'[s][m] = named_fresh[s][m]
      BY <2>4 DEF StubsInv
    <3>2. Sandboxes \subseteq Named!Names /\ Containers \subseteq Named!Names
      BY DEF Named!Names
    <3>3. QED
      BY <2>1, <2>2, <3>1, <3>2 DEF StubsInv
  <2>5. QED
    BY <2>1, <2>3, <2>4
<1>2. CASE n \notin Containers
  <2>1. n \in Sandboxes
    BY <1>2 DEF Named!Names
  <2>2. named_stubs[t][n] \in {None, t}
    BY <2>1 DEF StubsInv
  <2>3. CASE named_open /\ named_stubs[t][n] # None
    <3>1. through = named_stubs[t][n] /\ UNCHANGED <<named_stubs, named_fresh>>
      BY <1>2, <2>3 DEF Named!FindStub, Named!Keeps, Named!Owner
    <3>2. QED
      BY <2>2, <2>3, <3>1 DEF StubsInv
  <2>4. CASE ~ (named_open /\ named_stubs[t][n] # None)
    <3>1. /\ through = t /\ named_fresh' = [named_fresh EXCEPT ![t][n] = @ + 1]
          /\ named_stubs' = IF named_open THEN [named_stubs EXCEPT ![t][n] = t] ELSE named_stubs
      BY <1>2, <2>4 DEF Named!FindStub, Named!Keeps, Named!Owner
    <3>2. /\ named_fresh' \in [Named!Targets -> [Named!Names -> Nat]] /\ named_fresh'[t][n] = named_fresh[t][n] + 1
          /\ \A s \in Named!Targets, m \in Named!Names : s # t \/ m # n => named_fresh'[s][m] = named_fresh[s][m]
      BY <3>1 DEF StubsInv
    <3>3. /\ named_stubs' \in [Named!Targets -> [Sandboxes -> Named!Targets \union {None}]]
          /\ named_open => named_stubs'[t][n] = t
          /\ \A s \in Named!Targets, m \in Sandboxes : s # t \/ m # n => named_stubs'[s][m] = named_stubs[s][m]
          /\ ~ named_open => named_stubs' = named_stubs
      BY <2>1, <3>1 DEF StubsInv
    <3>4. Sandboxes \subseteq Named!Names /\ Containers \subseteq Named!Names /\ t # None
      BY DEF Named!Names, NamedAssumption, Named!NoneAssumption
    <3>5. \A s \in Named!Targets, m \in Containers : named_fresh'[s][m] <= 1
      BY <1>2, <3>2, <3>4 DEF StubsInv
    <3>6. ASSUME NEW s \in Named!Targets, NEW m \in Sandboxes
          PROVE  /\ named_stubs'[s][m] \in {None, s}
                 /\ named_open => named_fresh'[s][m] <= 1 /\ (named_stubs'[s][m] = None => named_fresh'[s][m] = 0)
      <4>1. CASE s = t /\ m = n
        BY <2>2, <2>4, <3>2, <3>3, <3>4, <4>1 DEF StubsInv
      <4>2. CASE s # t \/ m # n
        BY <3>2, <3>3, <3>4, <4>2 DEF StubsInv
      <4>3. QED
        BY <4>1, <4>2
    <3>7. QED
      BY <3>1, <3>2, <3>3, <3>5, <3>6 DEF StubsInv
  <2>5. QED
    BY <2>3, <2>4
<1>3. QED
  BY <1>1, <1>2

\* A target that fails loses its address, if it still holds it.
LEMMA TargetFails ==
  ASSUME NamedAssumption, TargetsInv, NEW t \in 1..named_made, Named!Invalidate(t),
         UNCHANGED <<named_open, named_made, named_address>>
  PROVE  TargetsInv'
<1>1. None \notin 1..named_made /\ named_address[t] \in Named!Addresses
  BY DEF TargetsInv, NamedAssumption, Named!NoneAssumption, Named!BoundsAssumption, Named!Targets
<1>2. Named!Discards(t) <=> named_cached[named_address[t]] = t
  BY <1>1 DEF Named!Discards, TargetsInv
<1>3. /\ named_known' = named_known \ {t} /\ named_failed' = named_failed \union {t}
      /\ named_cached' = IF named_cached[named_address[t]] = t
                         THEN [named_cached EXCEPT ![named_address[t]] = None] ELSE named_cached
  BY <1>2 DEF Named!Invalidate
<1>4. \A b \in Named!Addresses : named_cached'[b] = IF named_cached[b] = t THEN None ELSE named_cached[b]
  BY <1>1, <1>3 DEF TargetsInv
<1>5. named_cached' \in [Named!Addresses -> (1..named_made) \union {None}]
  BY <1>1, <1>3 DEF TargetsInv
<1>6. named_known' = {named_cached'[b] : b \in Named!Addresses} \ {None}
  <2>1. named_known = {named_cached[b] : b \in Named!Addresses} \ {None}
    BY DEF TargetsInv
  <2>2. QED
    BY <1>1, <1>3, <1>4, <2>1
<1>7. named_open => \A s \in (1..named_made) \ named_failed' : named_cached'[named_address[s]] = s
  BY <1>3, <1>4 DEF TargetsInv
<1>8. \A b \in Named!Addresses : named_cached'[b] # None =>
        named_address[named_cached'[b]] = b /\ named_cached'[b] \notin named_failed'
  BY <1>3, <1>4 DEF TargetsInv
<1>9. ~ named_open => \A b \in Named!Addresses : named_cached'[b] = None
  BY <1>4 DEF TargetsInv
<1>10. QED
  BY <1>3, <1>5, <1>6, <1>7, <1>8, <1>9 DEF TargetsInv

\* Operations and handles stay where they are when more is constructed.
LEMMA StaysAddressed ==
  ASSUME named_made \in Nat, named_made' \in Nat, named_made <= named_made',
         \A s \in 1..named_made : named_address'[s] = named_address[s],
         NEW CONSTANT o, Addressed(o)
  PROVE  Addressed(o)'
BY DEF Addressed

\* An operation that starts: its target and its stub did not fail, unless a handle holds them.
NotFailed(f) ==
    \/ named_op'[f].target \notin named_failed /\ named_op'[f].through \notin named_failed
    \/ [name |-> named_op'[f].name, target |-> named_op'[f].target, through |-> named_op'[f].through]
         \in named_handles

LEMMA FindingSteps ==
  ASSUME NamedAssumption, NamedIInv, NEW f \in Callers, NEW n \in Named!Names,
         Named!GetFails(f, n) \/ Named!GetByName(f, n) \/ \E k \in Named!Kinds : Named!Start(f, n, k)
  PROVE  /\ NamedIInv' /\ (named_op[f].at = "idle" /\ named_op'[f].at = "sent" => NotFailed(f))
         /\ \A g \in Callers \ {f} : named_op'[g] = named_op[g]
         /\ \A a \in Named!Addresses : named_cached[a] # None => named_cached'[a] = named_cached[a]
<1>1. PICK t \in Named!Targets : Named!FindTarget(n, t) /\ UNCHANGED <<named_open, named_failed>>
  BY DEF Named!GetFails, Named!GetByName, Named!Start
<1> USE DEF NamedIInv
<1>2. /\ TargetsInv' /\ \A a \in Named!Addresses : named_cached[a] # None => named_cached'[a] = named_cached[a]
      /\ named_made <= named_made' /\ \A s \in 1..named_made : named_address'[s] = named_address[s]
  BY <1>1, TargetFound
<1>3. named_made \in Nat /\ named_made' \in Nat
  BY <1>2 DEF TargetsInv, NamedAssumption, Named!BoundsAssumption
<1>4. ASSUME NEW CONSTANT o, Addressed(o) PROVE Addressed(o)'
  BY <1>2, <1>3, <1>4, StaysAddressed
<1>5. CASE Named!GetFails(f, n)
  <2>1. UNCHANGED <<named_stubs, named_fresh, named_op, named_handles, named_open>>
    BY <1>5 DEF Named!GetFails
  <2>2. StubsInv' /\ OpsInv'
    BY <1>4, <2>1 DEF StubsInv, OpsInv
  <2>3. QED
    BY <1>2, <2>1, <2>2, <1>5 DEF Named!GetFails
<1>6. CASE Named!GetByName(f, n)
  <2>1. PICK s \in Named!Targets, through \in Named!Targets :
          /\ Named!FindTarget(n, s) /\ Named!FindStub(n, s, through)
          /\ named_handles' = named_handles \union {[name |-> n, target |-> s, through |-> through]}
          /\ UNCHANGED <<named_open, named_op, named_failed>>
    BY <1>6 DEF Named!GetByName
  <2>2. StubsInv'
    BY <2>1, StubFound
  <2>3. s \in 1..named_made' /\ named_address'[s] = Named!Address(n)
    BY <2>1, TargetFound
  <2>4. OpsInv'
    <3>1. Addressed([name |-> n, target |-> s, through |-> through])'
      BY <2>3 DEF Addressed
    <3>2. named_handles' \subseteq Named!Handles
      BY <2>1 DEF OpsInv, Named!Handles
    <3>3. \A h \in named_handles' : Addressed(h)'
      BY <1>4, <2>1, <3>1 DEF OpsInv
    <3>4. QED
      BY <1>4, <2>1, <3>2, <3>3 DEF OpsInv
  <2>5. QED
    BY <1>2, <1>6, <2>2, <2>4 DEF Named!GetByName
<1>7. ASSUME NEW k \in Named!Kinds, Named!Start(f, n, k)
      PROVE  /\ NamedIInv' /\ (named_op[f].at = "idle" /\ named_op'[f].at = "sent" => NotFailed(f))
             /\ \A g \in Callers \ {f} : named_op'[g] = named_op[g]
  <2>1. PICK s \in Named!Targets, through \in Named!Targets :
          /\ Named!FindTarget(n, s) /\ Named!FindStub(n, s, through) /\ Named!Send(f, k, n, s, through)
          /\ UNCHANGED <<named_open, named_handles, named_failed>>
    BY <1>7 DEF Named!Start
  <2>2. StubsInv' /\ through = s
    BY <2>1, StubFound
  <2>3. s \in 1..named_made' /\ s \notin named_failed /\ named_address'[s] = Named!Address(n)
    BY <2>1, TargetFound
  <2> DEFINE o == [at |-> "sent", kind |-> k, name |-> n, target |-> s, through |-> through]
  <2>4. o \in Ops /\ o.at = "sent" /\ o.target = s /\ o.through = s /\ Addressed(o)'
    BY <2>2, <2>3 DEF Ops, Addressed
  <2>5. named_op' = [named_op EXCEPT ![f] = o]
    BY <2>1 DEF Named!Send
  <2> HIDE DEF o
  <2>6. named_op' \in [Callers -> Ops] /\ named_op'[f] = o /\ \A g \in Callers \ {f} : named_op'[g] = named_op[g]
    BY <2>4, <2>5 DEF OpsInv
  <2>7. OpsInv'
    <3>1. \A h \in named_handles' : Addressed(h)'
      BY <1>4, <2>1 DEF OpsInv
    <3>2. ASSUME NEW g \in Callers
          PROVE  \/ named_op'[g] = Named!Idle
                 \/ /\ named_op'[g].at # "idle" /\ named_op'[g].name \in Named!Names
                    /\ named_op'[g].target \in 1..named_made' /\ named_op'[g].through \in Named!Targets
                    /\ named_address'[named_op'[g].target] = Named!Address(named_op'[g].name)
      <4>1. CASE g = f
        BY <2>2, <2>3, <2>6, <4>1 DEF o
      <4>2. CASE g # f
        <5>1. named_op'[g] = named_op[g]
          BY <2>6, <4>2
        <5>2. named_op[g] = Named!Idle \/ (named_op[g].at # "idle" /\ Addressed(named_op[g]))
          BY DEF OpsInv
        <5>3. ASSUME Addressed(named_op[g])
              PROVE  /\ named_op[g].name \in Named!Names /\ named_op[g].target \in 1..named_made'
                     /\ named_op[g].through \in Named!Targets
                     /\ named_address'[named_op[g].target] = Named!Address(named_op[g].name)
          BY <1>2, <1>3, <5>3 DEF Addressed
        <5>4. QED
          BY <5>1, <5>2, <5>3
      <4>3. QED
        BY <4>1, <4>2
    <3>3. QED
      BY <2>1, <2>6, <3>1, <3>2 DEF OpsInv, Addressed
  <2>8. QED
    BY <1>2, <2>2, <2>3, <2>4, <2>6, <2>7 DEF NotFailed
<1>8. QED
  BY <1>2, <1>5, <1>6, <1>7

\* Steps that leave the targets and the stubs alone.
LEMMA HandlingSteps ==
  ASSUME NamedAssumption, NamedIInv, NEW f \in Callers,
         \/ \E h \in named_handles : \/ Named!UseInstance(f, h) \/ Named!Dispose(h)
                                     \/ \E k \in Named!Kinds : Named!UseHandle(f, h, k)
         \/ Named!Reply(f) \/ Named!EndStream(f)
  PROVE  /\ NamedIInv' /\ (named_op[f].at = "idle" /\ named_op'[f].at = "sent" => NotFailed(f))
         /\ \A g \in Callers \ {f} : named_op'[g] = named_op[g]
         /\ named_cached' = named_cached
<1>1. UNCHANGED <<named_open, named_cached, named_made, named_address, named_known, named_stubs, named_fresh, named_failed>>
  BY DEF Named!UseInstance, Named!Dispose, Named!UseHandle, Named!Reply, Named!EndStream
<1>2. TargetsInv' /\ StubsInv'
  BY <1>1 DEF NamedIInv, TargetsInv, StubsInv
<1>3. \A o : Addressed(o) <=> (/\ o.name \in Named!Names /\ o.target \in 1..named_made' /\ o.through \in Named!Targets
                               /\ named_address'[o.target] = Named!Address(o.name))
  BY <1>1 DEF Addressed
<1>4. PICK o \in Ops :
        /\ named_op' = [named_op EXCEPT ![f] = o]
        /\ o = Named!Idle \/ (o.at # "idle" /\ Addressed(o))
        /\ (named_op[f].at = "idle" /\ o.at = "sent"
              => [name |-> o.name, target |-> o.target, through |-> o.through] \in named_handles)
  <2>1. Named!Idle \in Ops /\ Named!Idle.at = "idle"
    BY DEF Named!Idle, Ops, Named!Kinds
  <2>2. CASE \E h \in named_handles : Named!Dispose(h)
    <3>1. named_op' = [named_op EXCEPT ![f] = named_op[f]] /\ named_op[f] \in Ops
      BY <2>2 DEF Named!Dispose, NamedIInv, OpsInv
    <3>2. QED
      BY <3>1 DEF NamedIInv, OpsInv
  <2>3. ASSUME NEW h \in named_handles, NEW k \in Named!Kinds,
               named_op' = [named_op EXCEPT ![f] = [at |-> "sent", kind |-> k, name |-> h.name, target |-> h.target,
                                                    through |-> h.through]]
        PROVE  \E o \in Ops :
                 /\ named_op' = [named_op EXCEPT ![f] = o]
                 /\ o = Named!Idle \/ (o.at # "idle" /\ Addressed(o))
                 /\ (named_op[f].at = "idle" /\ o.at = "sent"
                       => [name |-> o.name, target |-> o.target, through |-> o.through] \in named_handles)
    <3> DEFINE o == [at |-> "sent", kind |-> k, name |-> h.name, target |-> h.target, through |-> h.through]
    <3>1. h \in Named!Handles /\ Addressed(h)
      BY DEF NamedIInv, OpsInv
    <3>2. o \in Ops /\ o.at # "idle" /\ Addressed(o)
      BY <3>1 DEF Ops, Addressed, Named!Handles
    <3>3. [name |-> o.name, target |-> o.target, through |-> o.through] = h
      BY <3>1 DEF Named!Handles
    <3>4. QED
      BY <2>3, <3>2, <3>3
  <2>4. CASE \E h \in named_handles : Named!UseInstance(f, h) \/ \E k \in Named!Kinds : Named!UseHandle(f, h, k)
    BY <2>3, <2>4 DEF Named!UseInstance, Named!UseHandle, Named!Send, Named!Kinds
  <2>5. CASE Named!Reply(f) \/ Named!EndStream(f)
    <3>1. \/ named_op' = [named_op EXCEPT ![f] = Named!Idle]
          \/ named_op' = [named_op EXCEPT ![f].at = "streaming"] /\ named_op[f].at = "sent"
      BY <2>5 DEF Named!Reply, Named!EndStream, NamedIInv, OpsInv, Ops, Named!Kinds
    <3>2. CASE named_op' = [named_op EXCEPT ![f] = Named!Idle]
      BY <2>1, <3>2
    <3>3. CASE named_op' = [named_op EXCEPT ![f].at = "streaming"] /\ named_op[f].at = "sent"
      <4> DEFINE o == [named_op[f] EXCEPT !.at = "streaming"]
      <4>1. named_op[f] \in Ops /\ Addressed(named_op[f])
        BY <3>3 DEF NamedIInv, OpsInv, Named!Idle
      <4>2. o \in Ops /\ o.at = "streaming" /\ Addressed(o)
        BY <4>1 DEF Ops, Addressed
      <4>3. named_op' = [named_op EXCEPT ![f] = o]
        BY <3>3
      <4>4. QED
        BY <4>2, <4>3
    <3>4. QED
      BY <3>1, <3>2, <3>3
  <2>6. QED
    BY <2>2, <2>4, <2>5
<1>5. named_handles' \subseteq Named!Handles /\ \A h \in named_handles' : Addressed(h)
  <2>1. CASE ~ Named!Reply(f)
    BY <2>1 DEF NamedIInv, OpsInv, Named!UseInstance, Named!Dispose, Named!UseHandle, Named!EndStream
  <2>2. CASE Named!Reply(f)
    <3>1. named_op[f] \in Ops /\ Addressed(named_op[f])
      BY <2>2 DEF NamedIInv, OpsInv, Named!Reply, Named!Idle
    <3> DEFINE h == [name |-> named_op[f].name, target |-> named_op[f].target, through |-> named_op[f].through]
    <3>2. h \in Named!Handles /\ Addressed(h)
      <4>1. 1..named_made \subseteq Named!Targets
        BY DEF NamedIInv, TargetsInv, Named!Targets, NamedAssumption, Named!BoundsAssumption
      <4>2. QED
        BY <3>1, <4>1 DEF Addressed, Named!Handles
    <3>3. named_handles' \in {named_handles, named_handles \union {h}}
      BY <2>2, <3>1 DEF Named!Reply, Ops, Named!Kinds
    <3>4. QED
      BY <3>2, <3>3 DEF NamedIInv, OpsInv
  <2>3. QED
    BY <2>1, <2>2
<1>6. named_op' \in [Callers -> Ops] /\ named_op'[f] = o /\ \A g \in Callers \ {f} : named_op'[g] = named_op[g]
  BY <1>4 DEF NamedIInv, OpsInv
<1>7. OpsInv'
  BY <1>1, <1>4, <1>5, <1>6 DEF NamedIInv, OpsInv, Addressed
<1>8. QED
  BY <1>1, <1>2, <1>4, <1>6, <1>7 DEF NamedIInv, NotFailed

\* An operation ends; it may fail the target it used.
LEMMA FailingSteps ==
  ASSUME NamedAssumption, NamedIInv, NEW f \in Callers, Named!Fail(f) \/ Named!Interrupt(f)
  PROVE  /\ NamedIInv' /\ named_op'[f] = Named!Idle /\ Named!Idle.at = "idle"
         /\ \A g \in Callers \ {f} : named_op'[g] = named_op[g]
         /\ \A a \in Named!Addresses : named_cached[a] # None /\ named_cached'[a] # named_cached[a] =>
              Named!Address(named_op[f].name) = a /\ named_op[f].target = named_cached[a]
<1>1. /\ named_op[f].at # "idle" /\ named_op' = [named_op EXCEPT ![f] = Named!Idle]
      /\ Named!Invalidate(named_op[f].target) \/ UNCHANGED <<named_cached, named_known, named_failed>>
      /\ UNCHANGED <<named_open, named_made, named_address, named_stubs, named_fresh, named_handles>>
  BY DEF Named!Fail, Named!Interrupt
<1>2. Addressed(named_op[f]) /\ Named!Idle.at = "idle" /\ Named!Idle \in Ops
  BY <1>1 DEF NamedIInv, OpsInv, Named!Idle, Ops, Named!Kinds
<1>3. named_op[f].target \in 1..named_made
  BY <1>2 DEF Addressed
<1>4. TargetsInv'
  <2>1. CASE Named!Invalidate(named_op[f].target)
    BY <1>1, <1>3, <2>1, TargetFails DEF NamedIInv
  <2>2. CASE UNCHANGED <<named_cached, named_known, named_failed>>
    BY <1>1, <2>2 DEF NamedIInv, TargetsInv
  <2>3. QED
    BY <1>1, <2>1, <2>2
<1>5. StubsInv'
  BY <1>1 DEF NamedIInv, StubsInv
<1>6. /\ named_op' \in [Callers -> Ops] /\ named_op'[f] = Named!Idle
      /\ \A g \in Callers \ {f} : named_op'[g] = named_op[g]
  BY <1>1, <1>2 DEF NamedIInv, OpsInv
<1>7. OpsInv'
  BY <1>1, <1>6 DEF NamedIInv, OpsInv, Addressed
<1>8. ASSUME NEW a \in Named!Addresses, named_cached[a] # None, named_cached'[a] # named_cached[a]
      PROVE  Named!Address(named_op[f].name) = a /\ named_op[f].target = named_cached[a]
  <2>1. Named!Invalidate(named_op[f].target) /\ Named!Discards(named_op[f].target)
    BY <1>1, <1>8 DEF Named!Invalidate
  <2>2. /\ named_cached' = [named_cached EXCEPT ![named_address[named_op[f].target]] = None]
        /\ named_cached[named_address[named_op[f].target]] = named_op[f].target
    BY <2>1 DEF Named!Invalidate, Named!Discards
  <2>3. named_address[named_op[f].target] = a
    BY <1>8, <2>2 DEF NamedIInv, TargetsInv
  <2>4. QED
    BY <1>2, <2>2, <2>3 DEF Addressed
<1>9. QED
  BY <1>2, <1>4, <1>5, <1>6, <1>7, <1>8 DEF NamedIInv

LEMMA NamedCloseOK ==
  ASSUME NamedAssumption, NamedIInv, Named!Close \/ UNCHANGED Named!vars
  PROVE  NamedIInv'
<1>1. CASE UNCHANGED Named!vars
  BY <1>1 DEF NamedIInv, TargetsInv, StubsInv, OpsInv, Addressed, Named!vars
<1>2. CASE Named!Close
  <2>1. /\ named_open' = FALSE /\ named_cached' = [a \in Named!Addresses |-> None] /\ named_known' = {}
        /\ UNCHANGED <<named_made, named_address, named_stubs, named_fresh, named_op, named_handles, named_failed>>
    BY <1>2 DEF Named!Close
  <2>2. named_known' = {named_cached'[a] : a \in Named!Addresses} \ {None}
    BY <2>1
  <2>3. TargetsInv'
    BY <2>1, <2>2 DEF NamedIInv, TargetsInv
  <2>4. StubsInv' /\ OpsInv'
    BY <2>1 DEF NamedIInv, StubsInv, OpsInv, Addressed
  <2>5. QED
    BY <2>3, <2>4 DEF NamedIInv
<1>3. QED
  BY <1>1, <1>2

\* A step is of one of these kinds.
LEMMA NamedSteps ==
  ASSUME Named!Next
  PROVE  \/ \E f \in Callers, n \in Named!Names :
              Named!GetFails(f, n) \/ Named!GetByName(f, n) \/ \E k \in Named!Kinds : Named!Start(f, n, k)
         \/ \E f \in Callers : \/ \E h \in named_handles : Named!UseInstance(f, h) \/ \E k \in Named!Kinds : Named!UseHandle(f, h, k)
                               \/ Named!Reply(f) \/ Named!EndStream(f)
         \/ \E f \in Callers : Named!Fail(f) \/ Named!Interrupt(f)
         \/ \E h \in named_handles : Named!Dispose(h)
         \/ Named!Close \/ UNCHANGED Named!vars
BY DEF Named!Next, Named!Operate, Named!ContainerCall, Named!Kinds, Named!Over

\* Disposing of a handle needs no fiber.
LEMMA DisposeOK ==
  ASSUME NamedIInv, NEW h \in named_handles, Named!Dispose(h)
  PROVE  NamedIInv'
BY DEF Named!Dispose, NamedIInv, TargetsInv, StubsInv, OpsInv, Addressed

\* For any sandboxes, containers, fibers and handles, however late calls fail: within an event
\* a name has one stub that works, a client that is kept recovers, and the stub of a container
\* is discarded by calls on that container only.
THEOREM ClientsFindTheirTargets ==
  ASSUME NamedAssumption
  PROVE  Named!Spec => /\ [](Named!TypeOK /\ Named!OneStubPerName)
                       /\ Named!ClientsRecover /\ Named!ContainersFailAlone
<1>1. Named!Init => NamedIInv
  BY NamedInitOK
<1>2. NamedIInv /\ [Named!Next]_Named!vars => NamedIInv'
  BY NamedSteps, FindingSteps, HandlingSteps, FailingSteps, NamedCloseOK, DisposeOK
<1>3. ASSUME NamedIInv PROVE Named!TypeOK
  <2>1. \A f \in Callers : named_op[f] = Named!Idle \/
          (named_op[f].at \in {"sent", "streaming"} /\ named_op[f].kind \in Named!Kinds /\ named_op[f].target \in 1..named_made)
    BY <1>3 DEF NamedIInv, OpsInv, Ops, Addressed
  <2>2. QED
    BY <1>3, <2>1 DEF NamedIInv, TargetsInv, StubsInv, OpsInv, Named!TypeOK
<1>4. ASSUME NamedIInv, named_open, NEW n \in Named!Names
      PROVE  LET live == {t \in (1..named_made) \ named_failed : named_address[t] = Named!Address(n)}
             IN Named!Cardinality(live) <= 1 /\ \A t \in live : named_fresh[t][n] <= 1
  <2> DEFINE live == {t \in (1..named_made) \ named_failed : named_address[t] = Named!Address(n)}
  <2>1. live \subseteq {named_cached[Named!Address(n)]} /\ live \subseteq Named!Targets
    BY <1>4 DEF NamedIInv, TargetsInv, Named!Targets, NamedAssumption, Named!BoundsAssumption
  <2>2. \A t \in live : named_fresh[t][n] <= 1
    BY <1>4, <2>1 DEF NamedIInv, StubsInv, Named!Names
  <2> HIDE DEF live
  <2> DEFINE held == {named_cached[Named!Address(n)]}
  <2>3. IsFiniteSet(held) /\ Cardinality(held) = 1 /\ live \subseteq held
    BY <2>1, FS_Singleton
  <2> HIDE DEF held
  <2>6. Cardinality(live) <= 1
    <3>1. IsFiniteSet(live) /\ Cardinality(live) <= Cardinality(held)
      BY <2>3, FS_Subset
    <3>2. QED
      BY <2>3, <3>1
  <2>4. Named!Cardinality(live) = Cardinality(live)
    BY DEF Named!Cardinality, Cardinality
  <2>5. QED
    BY <2>2, <2>4, <2>6 DEF live
<1>5. NamedIInv => Named!OneStubPerName
  BY <1>4 DEF Named!OneStubPerName
<1>6. ASSUME NamedIInv, [Named!Next]_Named!vars, NEW f \in Callers, named_op[f].at = "idle", named_op'[f].at = "sent"
      PROVE  NotFailed(f)
  <2>1. named_op'[f] # named_op[f]
    BY <1>6
  <2>2. QED
    BY <1>6, <2>1, NamedSteps, FindingSteps, HandlingSteps, FailingSteps DEF Named!Close, Named!Dispose, Named!vars
<1>7. NamedIInv /\ [Named!Next]_Named!vars =>
        [\A f \in Callers :
           (named_op[f].at = "idle" /\ named_op'[f].at = "sent"
              /\ [name |-> named_op'[f].name, target |-> named_op'[f].target, through |-> named_op'[f].through]
                   \notin named_handles)
           => named_op'[f].target \notin named_failed /\ named_op'[f].through \notin named_failed]_Named!vars
  BY <1>6 DEF NotFailed
<1>8. ASSUME NamedIInv, [Named!Next]_Named!vars, NEW n \in Containers, named_open',
             named_cached[Named!Address(n)] # None,
             named_cached'[Named!Address(n)] # named_cached[Named!Address(n)]
      PROVE  \E f \in Callers : /\ named_op[f].name = n /\ named_op[f].target = named_cached[Named!Address(n)]
                                /\ named_op'[f] = Named!Idle
  <2>1. Named!Address(n) \in Named!Addresses
    BY DEF Named!Addresses, Named!Names
  <2>2. PICK f \in Callers : Named!Fail(f) \/ Named!Interrupt(f)
    BY <1>8, <2>1, NamedSteps, FindingSteps, HandlingSteps DEF Named!Close, Named!Dispose, Named!vars
  <2>3. /\ Named!Address(named_op[f].name) = Named!Address(n) /\ named_op'[f] = Named!Idle
        /\ named_op[f].target = named_cached[Named!Address(n)]
    BY <1>8, <2>1, <2>2, FailingSteps
  <2>4. named_op[f].name \in Named!Names
    <3>1. named_op[f].at # "idle"
      BY <2>2 DEF Named!Fail, Named!Interrupt
    <3>2. Named!Idle.at = "idle"
      BY DEF Named!Idle
    <3>3. QED
      BY <1>8, <3>1, <3>2 DEF NamedIInv, OpsInv, Addressed
  <2>5. named_op[f].name = n
    BY <2>3, <2>4 DEF Named!Address, Named!Names, NamedAssumption, Named!NamesAssumption
  <2>6. QED
    BY <2>3, <2>5
<1>9. NamedIInv /\ [Named!Next]_Named!vars =>
        [\A n \in Containers :
           LET a == Named!Address(n) IN
           (named_open' /\ named_cached[a] # None /\ named_cached'[a] # named_cached[a]) =>
             \E f \in Callers : named_op[f].name = n /\ named_op[f].target = named_cached[a] /\ named_op'[f] = Named!Idle]_Named!vars
  BY <1>8
<1>10. QED
  BY <1>1, <1>2, <1>3, <1>5, <1>7, <1>9, PTL DEF Named!Spec, Named!ClientsRecover, Named!ContainersFailAlone

----------------------------------------------------------------------------
(* The socket over WebTransport streams. *)

Socket == INSTANCE WebTransportSocket WITH
    Readers <- SocketReaders, Writes <- SocketWrites, Alls <- WriteAlls, MaxChunks <- SocketChunks,
    Faults <- PeerFaults, Pullers <- SocketPullers,
    reader <- sock_reader, current <- sock_current, write <- sock_write, release <- sock_release

SocketAssumption == Socket!ReadersAssumption /\ Socket!NoneAssumption

Records ==
    [phase : {"new", "open", "writer", "stream", "closed"}, exit : {None, "success", "failure"},
     error : {None, "local", "event"}, inbox : Nat, received : 0..SocketChunks,
     input : {"open", "canceled", "fin", "reset"}, pull : {"no", "reading", "chunk", "done", "rejected"},
     delivered : Nat, ended : {None, "local", "event", "peer", "readError"},
     sent : Seq((DOMAIN SocketWrites) \X Nat), unread : 0..HighWater,
     output : {"open", "fin", "closed", "aborted", "reset"}, closing : BOOLEAN,
     locks : SUBSET {"reader", "writer"}]

\* A reader that ends has its stream ended with it, and keeps the writer's lock until that is
\* over; what it got comes from the peer.
ReaderFits(q) ==
    /\ q \in Records
    /\ q.phase = "new" => q = Socket!Closed
    /\ q.phase = "open" => q.exit = None
    /\ q.phase \in {"writer", "stream"} => q.exit # None
    /\ q.inbox + q.delivered + (IF q.pull = "chunk" THEN 1 ELSE 0) <= q.received
    /\ q.exit # None => q.closing /\ q.error # None /\ q.input # "open" /\ q.output # "open"
    /\ "writer" \notin q.locks /\ (q.phase = "open" \/ q.exit # None)
         => q.output \in {"closed", "aborted", "reset"}
    /\ q.exit # None /\ q.phase \in {"stream", "closed"} => q.locks = {}

\* Once p has a cause to end, q has it too, and no more than p was delivered.
Stands(p, q) ==
    p.error # None => q.error = p.error /\ q.delivered = p.delivered /\ q.ended \in {p.ended, p.error}

\* What a step does that neither opens a reader nor ends it nor sends.
GoesOn(p, q) ==
    /\ ReaderFits(q) /\ Stands(p, q) /\ q.sent = p.sent /\ q.exit = p.exit
    /\ q.phase = "open" <=> p.phase = "open"
    /\ q.phase = "new" <=> p.phase = "new"

\* Readers are acquired in their order.
InTurn ==
    \A r, q \in SocketReaders : q < r /\ sock_reader[q].phase = "new" => sock_reader[r].phase = "new"

WriteRecords ==
    [phase : {"new", "waiting", "ready", "writing", "done", "failed"}, on : SocketReaders \union {None},
     next : Nat, interrupted : BOOLEAN]

\* How far a write o of w is, and on which stream.
WriteFits(w, o) ==
    /\ o.phase \in {"new", "waiting"} => o.next = 1
    /\ o.phase \in {"ready", "writing"} => o.on \in SocketReaders /\ o.next \in 1..SocketWrites[w]
    /\ o.phase = "done" => o.on \in SocketReaders /\ (SocketWrites[w] = 0 \/ o.next > SocketWrites[w])

\* Chunk i of q is on its stream once, and after the chunks before it.
InOrder(w, q, i) ==
    /\ q[i][2] \in 1..SocketWrites[w]
    /\ \A j \in DOMAIN q : q[j] = q[i] => j = i
    /\ \A k \in 1..SocketWrites[w] : k < q[i][2] => \E j \in DOMAIN q : j < i /\ q[j] = <<w, k>>

\* The chunks that a write has handed over: those before its next one, and that one while
\* it is under way.
Handed(o, k) == \/ o.phase \in {"ready", "writing", "done"} /\ k < o.next
                \/ o.phase = "writing" /\ k = o.next

Owed(o, k) == \/ o.phase \in {"new", "waiting", "ready"} /\ k >= o.next
              \/ o.phase = "writing" /\ k > o.next

\* The chunks of w are those on its stream, in their order, and none is on another: q is what
\* was sent on the stream of r.
ChunksFit(w, o, r, q) ==
    /\ \A i \in DOMAIN q : q[i][1] = w => r = o.on /\ InOrder(w, q, i) /\ ~ Owed(o, q[i][2])
    /\ r = o.on => \A k \in 1..SocketWrites[w] : Handed(o, k) => \E i \in DOMAIN q : q[i] = <<w, k>>

SocketIInv ==
    /\ sock_reader \in [SocketReaders -> Records] /\ sock_current \in SocketReaders \union {None}
    /\ sock_write \in [DOMAIN SocketWrites -> WriteRecords] /\ sock_release \in {"no", "success", "failure"}
    /\ \A r \in SocketReaders : ReaderFits(sock_reader[r])
    /\ InTurn /\ Socket!LatestServes
    /\ \A w \in DOMAIN SocketWrites : WriteFits(w, sock_write[w]) /\ \A r \in SocketReaders : ChunksFit(w, sock_write[w], r, sock_reader[r].sent)

LEMMA SocketInitOK == ASSUME SocketAssumption, Socket!Init PROVE SocketIInv
<1>1. Socket!Closed \in Records /\ ReaderFits(Socket!Closed) /\ Socket!Closed.sent = <<>>
      /\ Socket!Closed.phase = "new" /\ Socket!Closed.exit = None
  BY DEF Socket!Closed, Records, ReaderFits, SocketAssumption, Socket!ReadersAssumption, Socket!NoneAssumption
<1>2. \A r \in SocketReaders : sock_reader[r] = Socket!Closed
  BY DEF Socket!Init
<1>3. InTurn /\ Socket!LatestServes
  BY <1>1, <1>2 DEF InTurn, Socket!LatestServes, Socket!Init
<1>4. ASSUME NEW w \in DOMAIN SocketWrites
      PROVE  WriteFits(w, sock_write[w]) /\ \A r \in SocketReaders : ChunksFit(w, sock_write[w], r, sock_reader[r].sent)
  <2>1. sock_write[w] = [phase |-> "new", on |-> None, next |-> 1, interrupted |-> FALSE]
    BY DEF Socket!Init
  <2>2. ASSUME NEW r \in SocketReaders PROVE ChunksFit(w, sock_write[w], r, sock_reader[r].sent)
    <3>1. DOMAIN sock_reader[r].sent = {} /\ r # None
      BY <1>1, <1>2 DEF SocketAssumption, Socket!NoneAssumption
    <3>2. QED
      BY <2>1, <3>1 DEF ChunksFit
  <2>3. WriteFits(w, sock_write[w])
    BY <2>1 DEF WriteFits
  <2>4. QED
    BY <2>2, <2>3
<1>5. sock_write \in [DOMAIN SocketWrites -> WriteRecords]
  BY DEF Socket!Init, WriteRecords
<1>6. QED
  BY <1>1, <1>2, <1>3, <1>4, <1>5 DEF SocketIInv, Socket!Init

\* fail and close change neither what was sent nor the scope.
LEMMA FailFits ==
  ASSUME SocketAssumption, NEW p, ReaderFits(p), p.phase = "open", NEW c \in {"local", "event"}
  PROVE  GoesOn(p, Socket!Fail(p, c)) /\ Socket!Fail(p, c).error # None /\ Socket!Fail(p, c).input # "open"
<1> DEFINE q == Socket!Fail(p, c)
<1>0. p \in Records
  BY DEF ReaderFits
<1>6. p.exit = None
  BY DEF ReaderFits
<1>1. p \in Records /\ p.exit = None /\ p.phase = "open" /\ c # None
  BY <1>0, <1>6 DEF SocketAssumption, Socket!NoneAssumption
<1>2. /\ q.error = IF p.error = None THEN c ELSE p.error
      /\ q.input = IF p.input = "open" THEN "canceled" ELSE p.input
      /\ q.inbox = 0 /\ q.phase = "open" /\ q.exit = None
      /\ q.received = p.received /\ q.pull = p.pull /\ q.delivered = p.delivered /\ q.ended = p.ended /\ q.sent = p.sent
      /\ q.unread = p.unread /\ q.output = p.output /\ q.closing = p.closing /\ q.locks = p.locks
  BY <1>1 DEF Socket!Fail, Records
<1>3. q \in Records
  <2>1. q.error \in {None, "local", "event"} /\ q.input \in {"open", "canceled", "fin", "reset"}
    BY <1>1, <1>2 DEF Records
  <2>2. q = [p EXCEPT !.error = q.error, !.input = q.input, !.inbox = 0]
    BY <1>1, <1>2 DEF Socket!Fail, Records
  <2> HIDE DEF q
  <2> DEFINE x == [p EXCEPT !.error = q.error, !.input = q.input]
  <2>3. x \in Records
    BY <1>1, <2>1 DEF Records
  <2>4. q = [x EXCEPT !.inbox = 0]
    BY <1>1, <2>2 DEF Records
  <2> HIDE DEF x
  <2>5. QED
    BY <2>3, <2>4 DEF Records
<1> HIDE DEF q
<1>4. ReaderFits(q)
  BY <1>1, <1>2, <1>3 DEF ReaderFits, Records
<1>5. QED
  BY <1>1, <1>2, <1>4 DEF GoesOn, Stands, Records, q

LEMMA CloseFits ==
  ASSUME SocketAssumption, NEW p, ReaderFits(p), p.phase = "open", NEW ending \in {"success", "failure"}
  PROVE  /\ GoesOn(p, Socket!Close(p, ending)) /\ Socket!Close(p, ending).closing
         /\ Socket!Close(p, ending).output # "open"
         /\ Socket!Close(p, ending).error = p.error /\ Socket!Close(p, ending).input = p.input
<1> DEFINE aborts == IF p.closing THEN Socket!AbortsPending(p, ending) ELSE ending = "failure"
           output == IF p.output \notin {"open", "fin"} THEN p.output ELSE IF aborts THEN "aborted" ELSE "fin"
           unread == IF aborts THEN 0 ELSE p.unread
<1>1. Socket!Close(p, ending) = [p EXCEPT !.closing = TRUE, !.unread = unread, !.output = output]
  BY DEF Socket!Close, Records, ReaderFits
<1>2. /\ output \in {"fin", "closed", "aborted", "reset"} /\ unread \in 0..HighWater
      /\ p.output \in {"closed", "aborted", "reset"} => output = p.output
  BY DEF Records, ReaderFits, SocketAssumption, Socket!ReadersAssumption
<1> HIDE DEF aborts, output, unread
<1> DEFINE q == [p EXCEPT !.closing = TRUE, !.unread = unread, !.output = output]
<1>3. p \in Records /\ p.exit = None /\ p.phase = "open"
  BY DEF ReaderFits
<1>4. /\ q.closing /\ q.unread = unread /\ q.output = output /\ q.phase = "open" /\ q.exit = None
      /\ q.error = p.error /\ q.inbox = p.inbox /\ q.received = p.received /\ q.input = p.input /\ q.pull = p.pull
      /\ q.delivered = p.delivered /\ q.ended = p.ended /\ q.sent = p.sent /\ q.locks = p.locks
  BY <1>3 DEF Records
<1>7. q \in Records
  <2>1. output \in {"open", "fin", "closed", "aborted", "reset"} /\ TRUE \in BOOLEAN
    BY <1>2
  <2> HIDE DEF q
  <2>2. [p EXCEPT !.closing = TRUE, !.unread = unread] \in Records
    BY <1>2, <1>3 DEF Records
  <2>3. q = [[p EXCEPT !.closing = TRUE, !.unread = unread] EXCEPT !.output = output]
    BY <1>3 DEF Records, q
  <2>4. QED
    BY <2>1, <2>2, <2>3 DEF Records
<1> HIDE DEF q
<1>5. ReaderFits(q)
  BY <1>2, <1>3, <1>4, <1>7 DEF ReaderFits
<1>6. QED
  BY <1>1, <1>2, <1>3, <1>4, <1>5 DEF GoesOn, Stands, q

SameScope(p, q) == q.phase = p.phase /\ q.exit = p.exit /\ q.closing = p.closing /\ q.locks = p.locks
SameInput(p, q) == q.inbox = p.inbox /\ q.received = p.received /\ q.input = p.input /\ q.pull = p.pull
SameReads(p, q) == q.delivered = p.delivered /\ q.ended = p.ended /\ q.error = p.error
SameOutput(p, q) == q.sent = p.sent /\ q.unread = p.unread /\ q.output = p.output

\* Steps of one reader that neither open nor end it.
LEMMA ReaderGoesOn ==
  ASSUME SocketAssumption, SocketIInv, NEW r \in SocketReaders,
         \/ Socket!WriterReleased(r) \/ Socket!ReaderReleased(r) \/ Socket!StreamClosed(r)
         \/ Socket!Pull(r) \/ Socket!NativeRead(r) \/ Socket!PullResumes(r)
         \/ Socket!PeerReads(r) \/ Socket!Fin(r) \/ Socket!PeerSends(r)
         \/ \E how \in PeerFaults \ {"stop"} : Socket!PeerEnds(r, how)
         \/ Socket!PeerStops(r)
  PROVE  \E q : GoesOn(sock_reader[r], q) /\ sock_reader' = [sock_reader EXCEPT ![r] = q]
<1> DEFINE p == sock_reader[r]
<1>1. /\ ReaderFits(p) /\ p \in Records /\ sock_reader \in [SocketReaders -> Records]
      /\ p.inbox \in Nat /\ p.received \in Nat /\ p.received <= SocketChunks /\ p.delivered \in Nat
      /\ p.unread \in Nat /\ p.unread <= HighWater /\ SocketChunks \in Nat /\ HighWater \in Nat
  <2>1. ReaderFits(p) /\ p \in Records /\ sock_reader \in [SocketReaders -> Records]
    BY DEF SocketIInv
  <2>2. SocketChunks \in Nat /\ HighWater \in Nat
    BY DEF SocketAssumption, Socket!ReadersAssumption
  <2>3. QED
    BY <2>1, <2>2 DEF Records
<1>2. None \notin {"success", "failure", "local", "event", "peer", "readError"}
  BY DEF SocketAssumption, Socket!NoneAssumption
<1>16. p.phase = "new" => p.pull = "no" /\ p.output = "open" /\ p.unread = 0
  <2>1. Socket!Closed.pull = "no" /\ Socket!Closed.output = "open" /\ Socket!Closed.unread = 0
    BY DEF Socket!Closed
  <2>2. QED
    BY <1>1, <2>1 DEF ReaderFits
<1>3. ASSUME NEW q, GoesOn(p, q), sock_reader' = [sock_reader EXCEPT ![r] = q]
      PROVE  \E x : GoesOn(sock_reader[r], x) /\ sock_reader' = [sock_reader EXCEPT ![r] = x]
  BY <1>3
<1>4. CASE Socket!WriterReleased(r)
  <2> DEFINE q == [p EXCEPT !.locks = @ \ {"writer"}]
  <2>1. sock_reader' = [sock_reader EXCEPT ![r] = q]
    BY <1>4 DEF Socket!WriterReleased
  <2>2. /\ q.phase = p.phase /\ q.exit = p.exit /\ q.closing = p.closing /\ q.locks = p.locks \ {"writer"}
        /\ SameInput(p, q) /\ SameReads(p, q) /\ SameOutput(p, q)
    BY <1>1 DEF Records, SameScope, SameInput, SameReads, SameOutput
  <2>3. p.phase # "new" /\ p.output \in {"closed", "aborted", "reset"}
    BY <1>1, <1>16, <1>4 DEF Socket!WriterReleased, Socket!Settled, Socket!Lost
  <2>4. q \in Records
    BY <1>1, <1>2, <2>3 DEF Records
  <2> HIDE DEF q
  <2>5. GoesOn(p, q)
    BY <1>1, <1>2, <2>2, <2>3, <2>4 DEF GoesOn, ReaderFits, Stands, SameScope, SameInput, SameReads, SameOutput
  <2>6. QED
    BY <1>3, <2>1, <2>5
<1>5. CASE Socket!ReaderReleased(r)
  <2> DEFINE q == [p EXCEPT !.phase = "stream", !.locks = @ \ {"reader"},
                            !.input = IF @ = "open" THEN "canceled" ELSE @]
  <2>1. sock_reader' = [sock_reader EXCEPT ![r] = q]
    BY <1>5 DEF Socket!ReaderReleased
  <2>2. /\ q.phase = "stream" /\ q.exit = p.exit /\ q.closing = p.closing /\ q.locks = p.locks \ {"reader"}
        /\ q.inbox = p.inbox /\ q.received = p.received
        /\ q.input = (IF p.input = "open" THEN "canceled" ELSE p.input) /\ q.pull = p.pull /\ SameReads(p, q)
        /\ SameOutput(p, q)
    BY <1>1 DEF Records, SameScope, SameInput, SameReads, SameOutput
  <2>3. p.phase = "writer" /\ "writer" \notin p.locks
    BY <1>1, <1>2, <1>5 DEF Socket!ReaderReleased, Socket!WriterClosed
  <2>4. q \in Records
    <3> DEFINE x == [p EXCEPT !.phase = "stream"]
    <3>1. x \in Records
      BY <1>1, <1>2, <2>3 DEF Records
    <3> HIDE DEF x
    <3> DEFINE y == [x EXCEPT !.locks = p.locks \ {"reader"}]
    <3>2. y \in Records
      BY <1>1, <1>2, <2>3, <3>1 DEF Records
    <3>3. q = [y EXCEPT !.input = (IF p.input = "open" THEN "canceled" ELSE p.input)]
      BY <1>1 DEF Records, x
    <3> HIDE DEF q, y
    <3>4. (IF p.input = "open" THEN "canceled" ELSE p.input) \in {"open", "canceled", "fin", "reset"}
      BY <1>1, <1>2, <2>3 DEF Records
    <3>5. QED
      BY <3>2, <3>3, <3>4 DEF Records
  <2> HIDE DEF q
  <2>7. q.locks = {} /\ p.exit # None
    BY <1>1, <2>2, <2>3 DEF ReaderFits, Records
  <2>8. p.closing /\ p.error # None /\ p.input # "open" /\ p.output \in {"closed", "aborted", "reset"}
    BY <1>1, <2>3, <2>7 DEF ReaderFits
  <2>9. ReaderFits(q)
    BY <1>1, <2>2, <2>4, <2>7, <2>8 DEF ReaderFits, SameReads, SameOutput
  <2>5. GoesOn(p, q)
    BY <2>2, <2>3, <2>9 DEF GoesOn, Stands, SameReads, SameOutput
  <2>6. QED
    BY <1>3, <2>1, <2>5
<1>6. CASE Socket!StreamClosed(r)
  <2> DEFINE q == [p EXCEPT !.phase = "closed", !.output = IF @ = "open" THEN "fin" ELSE @]
  <2>1. sock_reader' = [sock_reader EXCEPT ![r] = q]
    BY <1>6 DEF Socket!StreamClosed
  <2>2. /\ q.phase = "closed" /\ q.exit = p.exit /\ q.closing = p.closing /\ q.locks = p.locks
        /\ SameInput(p, q) /\ SameReads(p, q) /\ q.sent = p.sent /\ q.unread = p.unread
        /\ q.output = (IF p.output = "open" THEN "fin" ELSE p.output)
    BY <1>1 DEF Records, SameScope, SameInput, SameReads, SameOutput
  <2>3. p.phase = "stream"
    BY <1>1, <1>2, <1>6 DEF Socket!StreamClosed
  <2>4. q \in Records
    <3> DEFINE x == [p EXCEPT !.phase = "closed"]
    <3>1. x \in Records
      BY <1>1, <1>2, <2>3 DEF Records
    <3>2. q = [x EXCEPT !.output = (IF p.output = "open" THEN "fin" ELSE p.output)]
      BY <1>1 DEF Records
    <3> HIDE DEF q, x
    <3>3. (IF p.output = "open" THEN "fin" ELSE p.output) \in {"open", "fin", "closed", "aborted", "reset"}
      BY <1>1, <1>2, <2>3 DEF Records
    <3>4. QED
      BY <3>1, <3>2, <3>3 DEF Records
  <2> HIDE DEF q
  <2>5. GoesOn(p, q)
    BY <1>1, <1>2, <2>2, <2>3, <2>4 DEF GoesOn, ReaderFits, Stands, SameScope, SameInput, SameReads, SameOutput
  <2>6. QED
    BY <1>3, <2>1, <2>5
<1>7. CASE Socket!Pull(r)
  <2>1. CASE p.error # None
    <3> DEFINE q == [p EXCEPT !.ended = p.error]
    <3>1. sock_reader' = [sock_reader EXCEPT ![r] = q]
      BY <1>7, <2>1 DEF Socket!Pull
    <3>2. /\ SameScope(p, q) /\ SameInput(p, q) /\ q.delivered = p.delivered /\ q.ended = p.error
          /\ q.error = p.error /\ SameOutput(p, q)
      BY <1>1 DEF Records, SameScope, SameInput, SameReads, SameOutput
    <3>3. p.phase = "open" /\ p.error \in {"local", "event"}
      BY <1>1, <1>2, <1>7, <3>1 DEF Socket!Pull, Records
    <3>4. q \in Records
      BY <1>1, <1>2, <3>3 DEF Records
    <3> HIDE DEF q
    <3>5. GoesOn(p, q)
      BY <1>1, <1>2, <3>2, <3>3, <3>4 DEF GoesOn, ReaderFits, Stands, SameScope, SameInput, SameReads, SameOutput
    <3>6. QED
      BY <1>3, <3>1, <3>5
  <2>2. CASE p.error = None
    <3> DEFINE q == [p EXCEPT !.pull = "reading"]
    <3>1. sock_reader' = [sock_reader EXCEPT ![r] = q]
      BY <1>7, <2>2 DEF Socket!Pull
    <3>2. /\ SameScope(p, q) /\ q.inbox = p.inbox /\ q.received = p.received /\ q.input = p.input
          /\ q.pull = "reading" /\ SameReads(p, q) /\ SameOutput(p, q)
      BY <1>1 DEF Records, SameScope, SameInput, SameReads, SameOutput
    <3>3. p.phase = "open" /\ p.pull = "no"
      BY <1>1, <1>2, <1>7 DEF Socket!Pull
    <3>4. q \in Records
      BY <1>1, <1>2, <3>3 DEF Records
    <3> HIDE DEF q
    <3>5. GoesOn(p, q)
      BY <1>1, <1>2, <3>2, <3>3, <3>4 DEF GoesOn, ReaderFits, Stands, SameScope, SameInput, SameReads, SameOutput
    <3>6. QED
      BY <1>3, <3>1, <3>5
  <2>3. QED
    BY <2>1, <2>2
<1>8. CASE Socket!NativeRead(r)
  <2>1. CASE p.inbox > 0 /\ sock_reader' = [sock_reader EXCEPT ![r].pull = "chunk", ![r].inbox = @ - 1]
    <3> DEFINE q == [p EXCEPT !.pull = "chunk", !.inbox = @ - 1]
    <3>1. sock_reader' = [sock_reader EXCEPT ![r] = q]
      BY <2>1
    <3>2. /\ SameScope(p, q) /\ q.inbox = p.inbox - 1 /\ q.received = p.received /\ q.input = p.input
          /\ q.pull = "chunk" /\ SameReads(p, q) /\ SameOutput(p, q)
      BY <1>1 DEF Records, SameScope, SameInput, SameReads, SameOutput
    <3>3. p.phase # "new" /\ p.pull = "reading" /\ p.inbox - 1 \in Nat
      BY <1>1, <1>8, <1>16, <2>1 DEF Socket!NativeRead
    <3>4. q \in Records
      <4> DEFINE x == [p EXCEPT !.pull = "chunk"]
      <4>1. x \in Records
        BY <1>1, <1>2, <3>3 DEF Records
      <4>2. q = [x EXCEPT !.inbox = p.inbox - 1]
        BY <1>1 DEF Records
      <4> HIDE DEF q, x
      <4>3. p.inbox - 1 \in Nat
        BY <1>1, <1>2, <3>3 DEF Records
      <4>4. QED
        BY <4>1, <4>2, <4>3 DEF Records
    <3> HIDE DEF q
    <3>5. GoesOn(p, q)
      BY <1>1, <1>2, <3>2, <3>3, <3>4 DEF GoesOn, ReaderFits, Stands, SameScope, SameInput, SameReads, SameOutput
    <3>6. QED
      BY <1>3, <3>1, <3>5
  <2>2. ASSUME NEW result \in {"done", "rejected"}, sock_reader' = [sock_reader EXCEPT ![r].pull = result]
        PROVE  \E x : GoesOn(sock_reader[r], x) /\ sock_reader' = [sock_reader EXCEPT ![r] = x]
    <3> DEFINE q == [p EXCEPT !.pull = result]
    <3>1. sock_reader' = [sock_reader EXCEPT ![r] = q]
      BY <2>2
    <3>2. /\ SameScope(p, q) /\ q.inbox = p.inbox /\ q.received = p.received /\ q.input = p.input
          /\ q.pull = result /\ SameReads(p, q) /\ SameOutput(p, q)
      BY <1>1 DEF Records, SameScope, SameInput, SameReads, SameOutput
    <3>3. p.phase # "new" /\ p.pull = "reading"
      BY <1>8, <1>16 DEF Socket!NativeRead
    <3>4. q \in Records
      BY <1>1, <1>2, <3>3 DEF Records
    <3> HIDE DEF q
    <3>5. GoesOn(p, q)
      BY <1>1, <1>2, <3>2, <3>3, <3>4 DEF GoesOn, ReaderFits, Stands, SameScope, SameInput, SameReads, SameOutput
    <3>6. QED
      BY <1>3, <3>1, <3>5
  <2>3. QED
    BY <1>8, <2>1, <2>2 DEF Socket!NativeRead
<1>9. CASE Socket!PullResumes(r)
  <2>1. CASE p.pull = "chunk" /\ p.error = None
    <3> DEFINE q == [p EXCEPT !.pull = "no", !.delivered = @ + 1]
    <3>1. sock_reader' = [sock_reader EXCEPT ![r] = q]
      <4>1. sock_reader' = [sock_reader EXCEPT ![r].pull = "no", ![r].delivered = @ + 1, ![r].ended = @]
        BY <1>9, <2>1 DEF Socket!PullResumes, Socket!EndedMeanwhile
      <4>2. [p EXCEPT !.pull = "no", !.delivered = @ + 1, !.ended = @] = q
        BY <1>1 DEF Records
      <4>3. QED
        BY <1>1, <4>1, <4>2
    <3>2. /\ SameScope(p, q) /\ q.inbox = p.inbox /\ q.received = p.received /\ q.input = p.input /\ q.pull = "no"
          /\ q.delivered = p.delivered + 1 /\ q.ended = p.ended /\ q.error = p.error /\ SameOutput(p, q)
      BY <1>1 DEF Records, SameScope, SameInput, SameReads, SameOutput
    <3>3. p.phase # "new" /\ p.pull = "chunk" /\ p.error = None
      BY <1>9, <1>16, <2>1 DEF Socket!PullResumes
    <3>4. q \in Records
      <4> DEFINE x == [p EXCEPT !.pull = "no"]
      <4>1. x \in Records
        BY <1>1, <1>2, <3>3 DEF Records
      <4>2. q = [x EXCEPT !.delivered = p.delivered + 1]
        BY <1>1 DEF Records
      <4> HIDE DEF q, x
      <4>3. p.delivered + 1 \in Nat
        BY <1>1, <1>2, <3>3 DEF Records
      <4>4. QED
        BY <4>1, <4>2, <4>3 DEF Records
    <3> HIDE DEF q
    <3>5. GoesOn(p, q)
      BY <1>1, <1>2, <3>2, <3>3, <3>4 DEF GoesOn, ReaderFits, Stands, SameScope, SameInput, SameReads, SameOutput
    <3>6. QED
      BY <1>3, <3>1, <3>5
  <2>2. CASE ~ (p.pull = "chunk" /\ p.error = None)
    <3> DEFINE why == IF p.error # None THEN p.error ELSE IF p.pull = "done" THEN "peer" ELSE "readError"
    <3> DEFINE q == [p EXCEPT !.pull = "no", !.ended = why]
    <3>1. sock_reader' = [sock_reader EXCEPT ![r] = q]
      <4>1. sock_reader' = [sock_reader EXCEPT ![r].pull = "no", ![r].delivered = @, ![r].ended = why]
        BY <1>9, <2>2 DEF Socket!PullResumes, Socket!EndedMeanwhile
      <4>2. [p EXCEPT !.pull = "no", !.delivered = @, !.ended = why] = q
        BY <1>1 DEF Records
      <4>3. QED
        BY <1>1, <4>1, <4>2
    <3>2. /\ SameScope(p, q) /\ q.inbox = p.inbox /\ q.received = p.received /\ q.input = p.input /\ q.pull = "no"
          /\ q.delivered = p.delivered /\ q.ended = why /\ q.error = p.error /\ SameOutput(p, q)
      BY <1>1 DEF Records, SameScope, SameInput, SameReads, SameOutput
    <3>3. p.phase # "new" /\ p.pull # "no" /\ why \in {"local", "event", "peer", "readError"}
      BY <1>1, <1>9, <1>16 DEF Socket!PullResumes, Records
    <3>4. q \in Records
      <4> DEFINE x == [p EXCEPT !.pull = "no"]
      <4>1. x \in Records
        BY <1>1, <1>2, <3>3 DEF Records
      <4>2. q = [x EXCEPT !.ended = why]
        BY <1>1 DEF Records
      <4> HIDE DEF q, x
      <4>3. why \in {None, "local", "event", "peer", "readError"}
        BY <1>1, <1>2, <3>3 DEF Records
      <4>4. QED
        BY <4>1, <4>2, <4>3 DEF Records
    <3> HIDE DEF q
    <3>5. GoesOn(p, q)
      BY <1>1, <1>2, <3>2, <3>3, <3>4 DEF GoesOn, ReaderFits, Stands, SameScope, SameInput, SameReads, SameOutput
    <3>6. QED
      BY <1>3, <3>1, <3>5
  <2>3. QED
    BY <2>1, <2>2
<1>10. CASE Socket!PeerReads(r)
  <2> DEFINE q == [p EXCEPT !.unread = @ - 1]
  <2>1. sock_reader' = [sock_reader EXCEPT ![r] = q]
    BY <1>10 DEF Socket!PeerReads
  <2>2. /\ SameScope(p, q) /\ SameInput(p, q) /\ SameReads(p, q) /\ q.sent = p.sent /\ q.unread = p.unread - 1
        /\ q.output = p.output
    BY <1>1 DEF Records, SameScope, SameInput, SameReads, SameOutput
  <2>3. p.phase # "new" /\ p.unread - 1 \in 0..HighWater
    BY <1>1, <1>10, <1>16 DEF Socket!PeerReads
  <2>4. q \in Records
    BY <1>1, <1>2, <2>3 DEF Records
  <2> HIDE DEF q
  <2>5. GoesOn(p, q)
    BY <1>1, <1>2, <2>2, <2>3, <2>4 DEF GoesOn, ReaderFits, Stands, SameScope, SameInput, SameReads, SameOutput
  <2>6. QED
    BY <1>3, <2>1, <2>5
<1>11. CASE Socket!Fin(r)
  <2> DEFINE q == [p EXCEPT !.output = "closed"]
  <2>1. sock_reader' = [sock_reader EXCEPT ![r] = q]
    BY <1>11 DEF Socket!Fin
  <2>2. /\ SameScope(p, q) /\ SameInput(p, q) /\ SameReads(p, q) /\ q.sent = p.sent /\ q.unread = p.unread
        /\ q.output = "closed"
    BY <1>1 DEF Records, SameScope, SameInput, SameReads, SameOutput
  <2>3. p.phase # "new" /\ p.output = "fin"
    BY <1>11, <1>16 DEF Socket!Fin
  <2>4. q \in Records
    BY <1>1, <1>2, <2>3 DEF Records
  <2> HIDE DEF q
  <2>5. GoesOn(p, q)
    BY <1>1, <1>2, <2>2, <2>3, <2>4 DEF GoesOn, ReaderFits, Stands, SameScope, SameInput, SameReads, SameOutput
  <2>6. QED
    BY <1>3, <2>1, <2>5
<1>12. CASE Socket!PeerSends(r)
  <2> DEFINE q == [p EXCEPT !.inbox = @ + 1, !.received = @ + 1]
  <2>1. sock_reader' = [sock_reader EXCEPT ![r] = q]
    BY <1>12 DEF Socket!PeerSends
  <2>2. /\ SameScope(p, q) /\ q.inbox = p.inbox + 1 /\ q.received = p.received + 1 /\ q.input = p.input
        /\ q.pull = p.pull /\ SameReads(p, q) /\ SameOutput(p, q)
    BY <1>1 DEF Records, SameScope, SameInput, SameReads, SameOutput
  <2>3. p.phase # "new" /\ p.received + 1 \in 0..SocketChunks
    BY <1>1, <1>2, <1>12 DEF Socket!PeerSends
  <2>4. q \in Records
    <3> DEFINE x == [p EXCEPT !.inbox = p.inbox + 1]
    <3>5. p.inbox + 1 \in Nat
      BY <1>1
    <3>1. x \in Records
      BY <1>1, <3>5 DEF Records
    <3>2. q = [x EXCEPT !.received = p.received + 1]
      BY <1>1 DEF Records
    <3> HIDE DEF q, x
    <3>4. QED
      BY <2>3, <3>1, <3>2 DEF Records
  <2> HIDE DEF q
  <2>5. GoesOn(p, q)
    BY <1>1, <1>2, <2>2, <2>3, <2>4 DEF GoesOn, ReaderFits, Stands, SameScope, SameInput, SameReads, SameOutput
  <2>6. QED
    BY <1>3, <2>1, <2>5
<1>13. CASE Socket!PeerStops(r)
  <2> DEFINE q == [p EXCEPT !.output = "reset", !.unread = 0]
  <2>1. sock_reader' = [sock_reader EXCEPT ![r] = q]
    BY <1>13 DEF Socket!PeerStops
  <2>2. /\ SameScope(p, q) /\ SameInput(p, q) /\ SameReads(p, q) /\ q.sent = p.sent /\ q.unread = 0
        /\ q.output = "reset"
    BY <1>1 DEF Records, SameScope, SameInput, SameReads, SameOutput
  <2>3. p.phase # "new" /\ 0 \in 0..HighWater
    BY <1>1, <1>2, <1>13 DEF Socket!PeerStops
  <2>4. q \in Records
    <3> DEFINE x == [p EXCEPT !.output = "reset"]
    <3>1. x \in Records
      BY <1>1, <1>2, <2>3 DEF Records
    <3>2. q = [x EXCEPT !.unread = 0]
      BY <1>1 DEF Records
    <3> HIDE DEF q, x
    <3>3. 0 \in 0..HighWater
      BY <1>1, <1>2, <2>3 DEF Records
    <3>4. QED
      BY <3>1, <3>2, <3>3 DEF Records
  <2> HIDE DEF q
  <2>5. GoesOn(p, q)
    BY <1>1, <1>2, <2>2, <2>3, <2>4 DEF GoesOn, ReaderFits, Stands, SameScope, SameInput, SameReads, SameOutput
  <2>6. QED
    BY <1>3, <2>1, <2>5
<1>14. ASSUME NEW how \in PeerFaults \ {"stop"}, Socket!PeerEnds(r, how)
       PROVE  \E q : GoesOn(sock_reader[r], q) /\ sock_reader' = [sock_reader EXCEPT ![r] = q]
  <2> DEFINE q == [p EXCEPT !.input = how, !.inbox = IF how = "reset" THEN 0 ELSE @]
  <2>1. sock_reader' = [sock_reader EXCEPT ![r] = q]
    BY <1>14 DEF Socket!PeerEnds
  <2>2. /\ SameScope(p, q) /\ q.inbox = (IF how = "reset" THEN 0 ELSE p.inbox) /\ q.received = p.received
        /\ q.input = how /\ q.pull = p.pull /\ SameReads(p, q) /\ SameOutput(p, q)
    BY <1>1 DEF Records, SameScope, SameInput, SameReads, SameOutput
  <2>3. how \in {"fin", "reset"} /\ p.phase # "new" /\ p.input = "open"
    BY <1>14 DEF Socket!PeerEnds, SocketAssumption, Socket!ReadersAssumption
  <2>4. q \in Records
    <3> DEFINE x == [p EXCEPT !.input = how]
    <3>1. x \in Records
      BY <1>1, <1>2, <2>3 DEF Records
    <3>2. q = [x EXCEPT !.inbox = (IF how = "reset" THEN 0 ELSE p.inbox)]
      BY <1>1 DEF Records
    <3> HIDE DEF q, x
    <3>3. (IF how = "reset" THEN 0 ELSE p.inbox) \in Nat
      BY <1>1, <1>2, <2>3 DEF Records
    <3>4. QED
      BY <3>1, <3>2, <3>3 DEF Records
  <2> HIDE DEF q
  <2>5. GoesOn(p, q)
    BY <1>1, <1>2, <2>2, <2>3, <2>4 DEF GoesOn, ReaderFits, Stands, SameScope, SameInput, SameReads, SameOutput
  <2>6. QED
    BY <1>3, <2>1, <2>5
<1>15. QED
  BY <1>4, <1>5, <1>6, <1>7, <1>8, <1>9, <1>10, <1>11, <1>12, <1>13, <1>14

\* A write o of w begins, ends or goes on, and hands nothing over.
Proceeds(w, o, x) ==
    \/ /\ o.phase \in {"new", "waiting"} /\ x.next = 1 /\ x.phase \in {"waiting", "ready", "done", "failed"}
       /\ x.phase = "done" => SocketWrites[w] = 0
    \/ x.on = o.on /\ x.next = o.next /\ x.phase \in {"failed", o.phase}
    \/ x.on = o.on /\ x.next = o.next + 1 /\ o.phase = "writing" /\ x.phase \in {"ready", "done"}

\* A chunk on its stream stays the chunk that it is, whatever else the reader does.
LEMMA ChunksStay ==
  ASSUME SocketAssumption, NEW w \in DOMAIN SocketWrites, NEW r \in SocketReaders,
         NEW o \in WriteRecords, NEW x \in WriteRecords, NEW q \in Seq((DOMAIN SocketWrites) \X Nat),
         WriteFits(w, o), ChunksFit(w, o, r, q),
         Proceeds(w, o, x)
  PROVE  ChunksFit(w, x, r, q)
<1>1. o.next \in Nat /\ SocketWrites[w] \in Nat /\ \A i \in DOMAIN q : q[i][2] \in Nat
  BY DEF WriteRecords, SocketAssumption, Socket!ReadersAssumption
<1>2. CASE o.phase \in {"new", "waiting"} /\ x.next = 1 /\ x.phase \in {"waiting", "ready", "done", "failed"}
             /\ (x.phase = "done" => SocketWrites[w] = 0)
  <2>1. o.next = 1
    BY <1>2 DEF WriteFits
  <2>2. \A k \in 1..SocketWrites[w] : Owed(o, k)
    BY <1>1, <1>2, <2>1 DEF Owed
  <2>3. \A i \in DOMAIN q : q[i][1] # w
    BY <2>2 DEF ChunksFit, InOrder
  <2>4. \A k \in 1..SocketWrites[w] : ~ Handed(x, k)
    BY <1>1, <1>2 DEF Handed
  <2>5. QED
    BY <2>3, <2>4 DEF ChunksFit
<1>3. CASE x.on = o.on /\ x.next = o.next /\ x.phase \in {"failed", o.phase}
  <2>1. \A i \in DOMAIN q : Owed(x, q[i][2]) => Owed(o, q[i][2])
    BY <1>3 DEF Owed
  <2>2. \A k \in 1..SocketWrites[w] : Handed(x, k) => Handed(o, k)
    BY <1>3 DEF Handed
  <2>3. QED
    BY <1>3, <2>1, <2>2 DEF ChunksFit
<1>4. CASE x.on = o.on /\ x.next = o.next + 1 /\ o.phase = "writing" /\ x.phase \in {"ready", "done"}
  <2>1. \A i \in DOMAIN q : Owed(x, q[i][2]) => Owed(o, q[i][2])
    BY <1>1, <1>4 DEF Owed
  <2>2. \A k \in 1..SocketWrites[w] : Handed(x, k) => Handed(o, k)
    BY <1>1, <1>4 DEF Handed
  <2>3. QED
    BY <1>4, <2>1, <2>2 DEF ChunksFit
<1>5. QED
  BY <1>2, <1>3, <1>4 DEF Proceeds

\* A chunk that is sent comes after those that are on the stream.
LEMMA ChunkOfOther ==
  ASSUME NEW w, NEW v, v # w, NEW n, NEW o, NEW r, NEW q, NEW s, NEW m,
         DOMAIN s = DOMAIN q \union {m}, \A i \in DOMAIN q : s[i] = q[i], s[m] = <<v, n>>,
         ChunksFit(w, o, r, q)
  PROVE  ChunksFit(w, o, r, s)
<1>1. ASSUME NEW i \in DOMAIN s, s[i][1] = w PROVE r = o.on /\ InOrder(w, s, i) /\ ~ Owed(o, s[i][2])
  <2>1. i \in DOMAIN q /\ s[i] = q[i] /\ s[m][1] = v
    BY <1>1
  <2>2. r = o.on /\ InOrder(w, q, i) /\ ~ Owed(o, s[i][2])
    BY <1>1, <2>1 DEF ChunksFit
  <2>3. \A j \in DOMAIN s : s[j] = s[i] => j \in DOMAIN q
    BY <1>1, <2>1
  <2>4. InOrder(w, s, i)
    BY <2>1, <2>2, <2>3 DEF InOrder
  <2>5. QED
    BY <2>2, <2>4
<1>2. ASSUME NEW k \in 1..SocketWrites[w], \E i \in DOMAIN q : q[i] = <<w, k>>
      PROVE  \E i \in DOMAIN s : s[i] = <<w, k>>
  BY <1>2
<1>3. QED
  BY <1>1, <1>2 DEF ChunksFit

LEMMA ChunkOfOwn ==
  ASSUME SocketAssumption, NEW w \in DOMAIN SocketWrites, NEW o \in WriteRecords, NEW x \in WriteRecords, NEW q, NEW s, NEW m,
         DOMAIN s = DOMAIN q \union {m}, \A i \in DOMAIN q : s[i] = q[i] /\ i < m /\ q[i] \in (DOMAIN SocketWrites) \X Nat,
         m \notin DOMAIN q, s[m] = <<w, o.next>>, WriteFits(w, o), ChunksFit(w, o, o.on, q),
         o.phase = "ready", x.phase = "writing", x.on = o.on, x.next = o.next
  PROVE  ChunksFit(w, x, o.on, s)
<1>1. o.next \in 1..SocketWrites[w] /\ o.next \in Nat /\ SocketWrites[w] \in Nat
  BY DEF WriteFits, WriteRecords, SocketAssumption, Socket!ReadersAssumption
<1> DEFINE n == o.next
<1>2. \A k \in 1..SocketWrites[w] : k < n => \E j \in DOMAIN q : q[j] = <<w, k>>
  BY <1>1 DEF ChunksFit, Handed
<1>3. \A i \in DOMAIN q : q[i][1] = w => InOrder(w, q, i) /\ q[i][2] < n /\ q[i][2] \in Nat
  BY <1>1 DEF ChunksFit, Owed
<1>4. s[m][1] = w /\ s[m][2] = n
  OBVIOUS
<1> HIDE DEF n
<1>5. ASSUME NEW i \in DOMAIN q, q[i][1] = w PROVE InOrder(w, s, i)
  <2>1. s[i] = q[i] /\ InOrder(w, q, i) /\ q[i][2] < n /\ q[i][2] \in Nat /\ n \in Nat
    BY <1>1, <1>3, <1>5 DEF n
  <2>2. s[m] # s[i]
    BY <1>4, <2>1
  <2>3. \A j \in DOMAIN s : s[j] = s[i] => j \in DOMAIN q
    BY <2>2
  <2>4. QED
    BY <2>1, <2>3 DEF InOrder
<1>6. InOrder(w, s, m)
  <2>1. \A j \in DOMAIN q : s[j] # s[m]
    <3> SUFFICES ASSUME NEW j \in DOMAIN q, s[j] = s[m] PROVE FALSE
      OBVIOUS
    <3>1. q[j][1] = w /\ q[j][2] = n
      BY <1>4
    <3>2. QED
      BY <1>3, <3>1
  <2>2. \A k \in 1..SocketWrites[w] : k < n => \E j \in DOMAIN s : j < m /\ s[j] = <<w, k>>
    BY <1>2
  <2>3. QED
    BY <1>1, <1>4, <2>1, <2>2 DEF InOrder, n
<1>7. ASSUME NEW i \in DOMAIN s, s[i][1] = w PROVE InOrder(w, s, i) /\ ~ Owed(x, s[i][2])
  <2>1. CASE i = m
    BY <1>1, <1>4, <1>6, <2>1 DEF Owed, n
  <2>2. CASE i \in DOMAIN q
    BY <1>1, <1>3, <1>5, <1>7, <2>2 DEF Owed, n
  <2>3. QED
    BY <2>1, <2>2
<1>8. ASSUME NEW k \in 1..SocketWrites[w], Handed(x, k) PROVE \E i \in DOMAIN s : s[i] = <<w, k>>
  <2>1. k < n \/ k = n
    BY <1>8 DEF Handed, n
  <2>2. CASE k < n
    BY <1>2, <2>2
  <2>3. CASE k = n
    BY <2>3 DEF n
  <2>4. QED
    BY <2>1, <2>2, <2>3
<1>9. QED
  BY <1>7, <1>8 DEF ChunksFit

\* Steps that send nothing.
LEMMA NothingIsSent ==
  ASSUME SocketAssumption, SocketIInv, sock_reader' \in [SocketReaders -> Records],
         \A s \in SocketReaders : ReaderFits(sock_reader'[s]) /\ sock_reader'[s].sent = sock_reader[s].sent,
         sock_write' \in [DOMAIN SocketWrites -> WriteRecords],
         \A w \in DOMAIN SocketWrites : WriteFits(w, sock_write'[w]) /\ Proceeds(w, sock_write[w], sock_write'[w]),
         sock_current' \in SocketReaders \union {None}, sock_release' \in {"no", "success", "failure"},
         InTurn', Socket!LatestServes'
  PROVE  SocketIInv'
<1>1. ASSUME NEW w \in DOMAIN SocketWrites, NEW r \in SocketReaders
      PROVE  ChunksFit(w, sock_write'[w], r, sock_reader'[r].sent)
  <2> DEFINE o == sock_write[w]
             x == sock_write'[w]
             q == sock_reader[r].sent
  <2>1. o \in WriteRecords /\ x \in WriteRecords /\ WriteFits(w, o) /\ ChunksFit(w, o, r, q) /\ Proceeds(w, o, x)
    BY DEF SocketIInv
  <2>2. sock_reader[r] \in Records /\ sock_reader'[r].sent = q
    BY DEF SocketIInv
  <2>3. q \in Seq((DOMAIN SocketWrites) \X Nat)
    BY <2>2 DEF Records
  <2> HIDE DEF o, x, q
  <2>4. ChunksFit(w, x, r, q)
    BY <2>1, <2>3, ChunksStay
  <2>5. QED
    BY <2>2, <2>4 DEF x, q
<1>2. QED
  BY <1>1 DEF SocketIInv

LEMMA SocketGoesOn ==
  ASSUME SocketAssumption, SocketIInv, NEW r \in SocketReaders, NEW q, GoesOn(sock_reader[r], q),
         sock_reader' = [sock_reader EXCEPT ![r] = q], UNCHANGED <<sock_current, sock_write>>,
         sock_release' \in {"no", "success", "failure"}
  PROVE  /\ SocketIInv'
         /\ \A s \in SocketReaders : Stands(sock_reader[s], sock_reader'[s]) /\ sock_reader'[s].sent = sock_reader[s].sent
<1>1. /\ sock_reader \in [SocketReaders -> Records] /\ q \in Records /\ sock_reader'[r] = q
      /\ \A s \in SocketReaders \ {r} : sock_reader'[s] = sock_reader[s]
      /\ sock_reader' \in [SocketReaders -> Records]
  BY DEF SocketIInv, GoesOn, ReaderFits
<1>2. \A s \in SocketReaders :
        /\ ReaderFits(sock_reader'[s]) /\ sock_reader'[s].sent = sock_reader[s].sent
        /\ sock_reader'[s].exit = sock_reader[s].exit /\ Stands(sock_reader[s], sock_reader'[s])
        /\ sock_reader'[s].phase = "open" <=> sock_reader[s].phase = "open"
        /\ sock_reader'[s].phase = "new" <=> sock_reader[s].phase = "new"
  BY <1>1 DEF SocketIInv, GoesOn, Stands
<1>3. InTurn'
  BY <1>2 DEF SocketIInv, InTurn
<1>4. Socket!LatestServes'
  BY <1>2 DEF SocketIInv, Socket!LatestServes
<1>5. sock_write' = sock_write /\ \A w \in DOMAIN SocketWrites :
        sock_write[w] \in WriteRecords /\ WriteFits(w, sock_write[w]) /\ Proceeds(w, sock_write[w], sock_write[w])
  BY DEF SocketIInv, Proceeds
<1>6. SocketIInv'
  BY <1>1, <1>2, <1>3, <1>4, <1>5, NothingIsSent DEF SocketIInv
<1>7. QED
  BY <1>2, <1>6

\* What a step may do to the readers, besides keeping the invariant.
Sound ==
    /\ \A s \in SocketReaders : Stands(sock_reader[s], sock_reader'[s])
    /\ \A s \in SocketReaders : sock_reader'[s].sent = sock_reader[s].sent \/
         \E v \in DOMAIN SocketWrites :
            /\ ~ (v \in WriteAlls /\ sock_write[v].interrupted)
            /\ sock_reader'[s].sent = Append(sock_reader[s].sent, <<v, sock_write[v].next>>)

LEMMA ClosedFits ==
  ASSUME SocketAssumption, NEW c, c = Socket!Closed
  PROVE  /\ c \in Records /\ ReaderFits(c) /\ c.phase = "new" /\ c.exit = None /\ c.error = None /\ c.sent = <<>>
         /\ c.inbox = 0 /\ c.received = 0 /\ c.delivered = 0 /\ c.pull = "no" /\ c.output = "open"
<1>1. SocketChunks \in Nat /\ HighWater \in Nat /\ None \notin {"success", "failure"}
  BY DEF SocketAssumption, Socket!ReadersAssumption, Socket!NoneAssumption
<1>2. c \in Records
  BY <1>1 DEF Socket!Closed, Records
<1>3. /\ c.phase = "new" /\ c.exit = None /\ c.error = None /\ c.sent = <<>>
      /\ c.inbox = 0 /\ c.received = 0 /\ c.delivered = 0 /\ c.pull = "no" /\ c.output = "open"
  BY DEF Socket!Closed
<1>4. ReaderFits(c)
  BY <1>1, <1>2, <1>3 DEF ReaderFits
<1>5. QED
  BY <1>2, <1>3, <1>4

\* The stream does not open.
LEMMA OpenFailsOK ==
  ASSUME SocketAssumption, SocketIInv, NEW r \in SocketReaders, Socket!OpenFails(r)
  PROVE  SocketIInv' /\ Sound
<1> DEFINE q == [Socket!Closed EXCEPT !.phase = "closed"]
<1>1. /\ sock_reader[r] = Socket!Closed /\ sock_reader' = [sock_reader EXCEPT ![r] = q]
      /\ UNCHANGED <<sock_current, sock_write, sock_release>>
      /\ \A s \in SocketReaders : s < r => sock_reader[s].phase # "new"
  BY DEF SocketIInv, ReaderFits, Socket!OpenFails
<1> DEFINE c == Socket!Closed
<1>2. /\ q \in Records /\ ReaderFits(q) /\ q.sent = <<>> /\ q.phase = "closed" /\ q.exit = None /\ q.error = None
      /\ c.sent = <<>> /\ c.phase = "new" /\ c.exit = None /\ c.error = None
  <2>1. /\ c \in Records /\ c.phase = "new" /\ c.exit = None /\ c.error = None /\ c.sent = <<>>
        /\ c.inbox = 0 /\ c.received = 0 /\ c.delivered = 0 /\ c.pull = "no" /\ c.output = "open"
    BY ClosedFits
  <2> HIDE DEF c
  <2>2. q = [c EXCEPT !.phase = "closed"]
    BY DEF c
  <2> HIDE DEF q
  <2>3. /\ q.phase = "closed" /\ q.exit = c.exit /\ q.closing = c.closing /\ q.locks = c.locks
        /\ SameInput(c, q) /\ SameReads(c, q) /\ SameOutput(c, q)
    BY <2>1, <2>2 DEF Records, SameInput, SameReads, SameOutput
  <2>4. q \in Records
    BY <2>1, <2>2 DEF Records
  <2>5. ReaderFits(q)
    BY <2>1, <2>3, <2>4 DEF ReaderFits, SameInput, SameReads, SameOutput
  <2>6. QED
    BY <2>1, <2>3, <2>4, <2>5 DEF SameReads, SameOutput
<1> HIDE DEF q
<1>3. /\ sock_reader' \in [SocketReaders -> Records] /\ sock_reader'[r] = q
      /\ \A s \in SocketReaders \ {r} : sock_reader'[s] = sock_reader[s]
  BY <1>1, <1>2 DEF SocketIInv
<1>4. \A s \in SocketReaders :
        /\ ReaderFits(sock_reader'[s]) /\ sock_reader'[s].sent = sock_reader[s].sent
        /\ sock_reader'[s].exit = sock_reader[s].exit /\ Stands(sock_reader[s], sock_reader'[s])
        /\ sock_reader'[s].phase = "open" <=> sock_reader[s].phase = "open"
  BY <1>1, <1>2, <1>3 DEF SocketIInv, Stands
<1>5. InTurn'
  BY <1>1, <1>2, <1>3 DEF SocketIInv, InTurn, SocketAssumption, Socket!ReadersAssumption
<1>6. Socket!LatestServes'
  BY <1>1, <1>4 DEF SocketIInv, Socket!LatestServes
<1>7. \A w \in DOMAIN SocketWrites :
        WriteFits(w, sock_write[w]) /\ Proceeds(w, sock_write[w], sock_write[w])
  BY DEF SocketIInv, Proceeds
<1>8. SocketIInv'
  BY <1>1, <1>3, <1>4, <1>5, <1>6, <1>7, NothingIsSent DEF SocketIInv
<1>9. QED
  BY <1>4, <1>8 DEF Sound

\* The scope of a reader closes.
LEMMA FinalizeOK ==
  ASSUME SocketAssumption, SocketIInv, NEW r \in SocketReaders, NEW ending \in {"success", "failure"},
         Socket!Finalize(r, ending)
  PROVE  SocketIInv' /\ Sound
<1> DEFINE p == sock_reader[r]
           f == Socket!Fail(p, "local")
           c == Socket!Close(f, ending)
           q == [c EXCEPT !.phase = "writer", !.exit = ending]
<1>1. /\ sock_reader' = [sock_reader EXCEPT ![r] = q] /\ p.phase = "open"
      /\ sock_current' = IF sock_current = r THEN None ELSE sock_current
      /\ UNCHANGED <<sock_write, sock_release>>
  BY DEF Socket!Finalize, Socket!Clears
<1>2. ReaderFits(p) /\ ending # None
  BY DEF SocketIInv, SocketAssumption, Socket!NoneAssumption
<1>3. GoesOn(p, f) /\ f.error # None /\ f.input # "open" /\ ReaderFits(f) /\ f.phase = "open"
  BY <1>1, <1>2, FailFits DEF GoesOn
<1>4. /\ GoesOn(f, c) /\ c.closing /\ c.output # "open" /\ c.error = f.error /\ c.input = f.input
      /\ ReaderFits(c) /\ c \in Records /\ c.phase = "open" /\ c.exit = None
  <2>1. GoesOn(f, c) /\ c.closing /\ c.output # "open" /\ c.error = f.error /\ c.input = f.input
    BY <1>3, CloseFits
  <2>2. ReaderFits(c) /\ c.phase = "open"
    BY <1>3, <2>1 DEF GoesOn
  <2>3. QED
    BY <2>1, <2>2 DEF ReaderFits
<1>5. Stands(p, c) /\ c.sent = p.sent
  BY <1>3, <1>4 DEF GoesOn, Stands
<1> HIDE DEF p, f, c
<1>6. /\ q.phase = "writer" /\ q.exit = ending /\ q.closing = c.closing /\ q.locks = c.locks
      /\ SameInput(c, q) /\ SameReads(c, q) /\ SameOutput(c, q)
  BY <1>4 DEF Records, SameInput, SameReads, SameOutput
<1>7. q \in Records
  BY <1>4 DEF Records
<1> HIDE DEF q
<1>8. ReaderFits(q) /\ Stands(p, q) /\ q.sent = p.sent
  <2>1. ReaderFits(q)
    BY <1>2, <1>3, <1>4, <1>6, <1>7 DEF ReaderFits, SameInput, SameReads, SameOutput
  <2>2. Stands(p, q) /\ q.sent = p.sent
    BY <1>5, <1>6 DEF Stands, SameReads, SameOutput
  <2>3. QED
    BY <2>1, <2>2
<1>9. /\ sock_reader' \in [SocketReaders -> Records] /\ sock_reader'[r] = q
      /\ \A s \in SocketReaders \ {r} : sock_reader'[s] = sock_reader[s]
  BY <1>1, <1>7 DEF SocketIInv
<1>10. \A s \in SocketReaders :
        /\ ReaderFits(sock_reader'[s]) /\ sock_reader'[s].sent = sock_reader[s].sent
        /\ Stands(sock_reader[s], sock_reader'[s])
  BY <1>8, <1>9 DEF SocketIInv, Stands, p
<1>11. InTurn'
  BY <1>1, <1>6, <1>9 DEF SocketIInv, InTurn, p
<1>12. Socket!LatestServes'
  <2> DEFINE was == {s \in SocketReaders : sock_reader[s].phase = "open" \/ sock_reader[s].exit # None}
             is == {s \in SocketReaders : sock_reader'[s].phase = "open" \/ sock_reader'[s].exit # None}
  <2>1. is = was
    BY <1>1, <1>2, <1>6, <1>9 DEF p
  <2>2. \A s \in was : sock_reader[s].phase = "open" /\ (\A t \in was : t <= s) => sock_current = s
    BY DEF SocketIInv, Socket!LatestServes
  <2>3. sock_current # None => sock_reader[sock_current].phase = "open" /\ \A w \in DOMAIN sock_write : sock_write[w].phase # "waiting"
    BY DEF SocketIInv, Socket!LatestServes
  <2> HIDE DEF was
  <2>4. \A s \in is : sock_reader'[s].phase = "open" /\ (\A t \in is : t <= s) => sock_current' = s
    BY <1>1, <1>6, <1>9, <2>1, <2>2
  <2>5. sock_current' # None => /\ sock_reader'[sock_current'].phase = "open"
                               /\ \A w \in DOMAIN sock_write' : sock_write'[w].phase # "waiting"
    BY <1>1, <1>9, <2>3 DEF SocketIInv
  <2>6. QED
    BY <2>4, <2>5 DEF Socket!LatestServes
<1>13. \A w \in DOMAIN SocketWrites :
        WriteFits(w, sock_write[w]) /\ Proceeds(w, sock_write[w], sock_write[w])
  BY DEF SocketIInv, Proceeds
<1>14. SocketIInv'
  BY <1>1, <1>9, <1>10, <1>11, <1>12, <1>13, NothingIsSent DEF SocketIInv
<1>15. QED
  BY <1>10, <1>14 DEF Sound

\* A reader opens, and what waits for it goes on.
LEMMA OpenOK ==
  ASSUME SocketAssumption, SocketIInv, NEW r \in SocketReaders, Socket!Open(r)
  PROVE  SocketIInv' /\ Sound
<1> DEFINE c == Socket!Closed
           o == [Socket!Closed EXCEPT !.phase = "open", !.locks = {"reader", "writer"}]
           waiting == {w \in DOMAIN sock_write : sock_write[w].phase = "waiting"}
           q == IF \E w \in waiting : SocketWrites[w] = 0 THEN Socket!Fail(o, "event") ELSE o
<1>1. /\ sock_reader[r] = c /\ sock_reader' = [sock_reader EXCEPT ![r] = q]
      /\ sock_current' = r /\ UNCHANGED sock_release
      /\ sock_write' = [w \in DOMAIN SocketWrites |->
             IF w \notin waiting THEN sock_write[w]
             ELSE [sock_write[w] EXCEPT !.phase = IF SocketWrites[w] = 0 THEN "done" ELSE "ready", !.on = r]]
      /\ \A s \in SocketReaders : s < r => sock_reader[s].phase # "new"
  BY DEF SocketIInv, ReaderFits, Socket!Open
<1>2. /\ c \in Records /\ ReaderFits(c) /\ c.phase = "new" /\ c.exit = None /\ c.error = None /\ c.sent = <<>>
      /\ c.inbox = 0 /\ c.received = 0 /\ c.delivered = 0 /\ c.pull = "no" /\ c.output = "open"
  BY ClosedFits
<1>3. o \in Records /\ ReaderFits(o) /\ o.phase = "open" /\ o.exit = None /\ o.sent = <<>>
  <2> HIDE DEF c
  <2>1. o = [[c EXCEPT !.phase = "open"] EXCEPT !.locks = {"reader", "writer"}]
    BY <1>2 DEF c, Records
  <2> HIDE DEF o
  <2>2. [c EXCEPT !.phase = "open"] \in Records
    BY <1>2 DEF Records
  <2>3. o \in Records
    BY <2>1, <2>2 DEF Records
  <2>4. /\ o.phase = "open" /\ o.exit = c.exit /\ o.closing = c.closing /\ o.locks = {"reader", "writer"}
        /\ SameInput(c, o) /\ SameReads(c, o) /\ SameOutput(c, o)
    BY <1>2, <2>1 DEF Records, SameInput, SameReads, SameOutput
  <2>5. ReaderFits(o)
    BY <1>2, <2>3, <2>4 DEF ReaderFits, SameInput, SameReads, SameOutput
  <2>6. QED
    BY <1>2, <2>3, <2>4, <2>5 DEF SameOutput
<1> HIDE DEF o
<1>4. q \in Records /\ ReaderFits(q) /\ q.phase = "open" /\ q.exit = None /\ q.sent = <<>>
  <2>1. GoesOn(o, Socket!Fail(o, "event"))
    BY <1>3, FailFits
  <2>2. QED
    BY <1>3, <2>1 DEF GoesOn, ReaderFits
<1> HIDE DEF c, q
<1>5. /\ sock_reader' \in [SocketReaders -> Records] /\ sock_reader'[r] = q
      /\ \A s \in SocketReaders \ {r} : sock_reader'[s] = sock_reader[s]
  BY <1>1, <1>4 DEF SocketIInv
<1>6. \A s \in SocketReaders :
        /\ ReaderFits(sock_reader'[s]) /\ sock_reader'[s].sent = sock_reader[s].sent
        /\ Stands(sock_reader[s], sock_reader'[s])
  BY <1>1, <1>2, <1>4, <1>5 DEF SocketIInv, Stands
<1>7. InTurn'
  BY <1>1, <1>4, <1>5 DEF SocketIInv, InTurn, SocketAssumption, Socket!ReadersAssumption
<1>8. ASSUME NEW w \in DOMAIN SocketWrites
      PROVE  /\ sock_write'[w] \in WriteRecords /\ sock_write'[w].phase # "waiting"
             /\ WriteFits(w, sock_write'[w]) /\ Proceeds(w, sock_write[w], sock_write'[w])
  <2>1. sock_write[w] \in WriteRecords /\ WriteFits(w, sock_write[w]) /\ SocketWrites[w] \in Nat
    BY DEF SocketIInv, SocketAssumption, Socket!ReadersAssumption
  <2>2. CASE w \notin waiting
    <3>1. sock_write'[w] = sock_write[w] /\ sock_write[w].phase # "waiting"
      BY <1>1, <2>2 DEF SocketIInv
    <3>2. QED
      BY <2>1, <3>1 DEF Proceeds
  <2>3. CASE w \in waiting
    <3> DEFINE x == [sock_write[w] EXCEPT !.phase = IF SocketWrites[w] = 0 THEN "done" ELSE "ready", !.on = r]
    <3>1. sock_write'[w] = x /\ sock_write[w].phase = "waiting"
      BY <1>1, <2>3
    <3>2. sock_write[w].next = 1
      BY <2>1, <3>1 DEF WriteFits
    <3>3. x \in WriteRecords /\ x.on = r /\ x.next = 1 /\ x.phase = IF SocketWrites[w] = 0 THEN "done" ELSE "ready"
      BY <2>1, <3>2 DEF WriteRecords
    <3> HIDE DEF x
    <3>4. QED
      BY <2>1, <3>1, <3>3 DEF WriteFits, Proceeds
  <2>4. QED
    BY <2>2, <2>3
<1>9. sock_write' \in [DOMAIN SocketWrites -> WriteRecords]
  BY <1>1, <1>8
<1>10. Socket!LatestServes'
  <2> DEFINE is == {s \in SocketReaders : sock_reader'[s].phase = "open" \/ sock_reader'[s].exit # None}
  <2>1. ASSUME NEW s \in is, sock_reader'[s].phase = "open", \A t \in is : t <= s PROVE sock_current' = s
    <3>1. r \in is /\ r <= s
      BY <1>4, <1>5, <2>1
    <3>2. SUFFICES ASSUME s # r PROVE FALSE
      BY <1>1
    <3>3. r < s /\ sock_reader[s].phase = "open"
      BY <1>5, <2>1, <3>1, <3>2 DEF SocketAssumption, Socket!ReadersAssumption
    <3>4. QED
      BY <1>1, <1>2, <3>3 DEF SocketIInv, InTurn
  <2>2. sock_reader'[sock_current'].phase = "open" /\ \A w \in DOMAIN sock_write' : sock_write'[w].phase # "waiting"
    BY <1>1, <1>4, <1>5, <1>8
  <2>3. QED
    BY <2>1, <2>2 DEF Socket!LatestServes
<1>11. SocketIInv'
  BY <1>1, <1>5, <1>6, <1>7, <1>8, <1>9, <1>10, NothingIsSent DEF SocketIInv
<1>12. QED
  BY <1>6, <1>11 DEF Sound

\* A write begins: it finds the latest reader, or waits for one.
LEMMA WriteOK ==
  ASSUME SocketAssumption, SocketIInv, NEW w \in DOMAIN SocketWrites, Socket!Write(w)
  PROVE  SocketIInv' /\ Sound
<1> DEFINE x == [sock_write[w] EXCEPT !.phase = IF sock_current = None THEN "waiting"
                                                ELSE IF SocketWrites[w] = 0 THEN "done" ELSE "ready",
                                      !.on = sock_current]
<1>1. /\ sock_write[w].phase = "new" /\ sock_write' = [sock_write EXCEPT ![w] = x]
      /\ sock_reader' = IF sock_current # None /\ SocketWrites[w] = 0
                        THEN [sock_reader EXCEPT ![sock_current] = Socket!Fail(@, "event")] ELSE sock_reader
      /\ UNCHANGED <<sock_current, sock_release>>
  BY DEF Socket!Write
<1>2. /\ sock_write[w] \in WriteRecords /\ WriteFits(w, sock_write[w]) /\ sock_current \in SocketReaders \union {None}
      /\ None \notin SocketReaders /\ SocketWrites[w] \in Nat
  BY DEF SocketIInv, SocketAssumption, Socket!NoneAssumption, Socket!ReadersAssumption
<1>3. /\ x \in WriteRecords /\ x.next = 1 /\ x.on = sock_current
      /\ x.phase = IF sock_current = None THEN "waiting" ELSE IF SocketWrites[w] = 0 THEN "done" ELSE "ready"
  BY <1>1, <1>2 DEF WriteRecords, WriteFits
<1> HIDE DEF x
<1>4. sock_write' \in [DOMAIN SocketWrites -> WriteRecords] /\ sock_write'[w] = x
      /\ \A v \in DOMAIN SocketWrites \ {w} : sock_write'[v] = sock_write[v]
  BY <1>1, <1>3 DEF SocketIInv
<1>5. WriteFits(w, x) /\ Proceeds(w, sock_write[w], x)
  BY <1>1, <1>2, <1>3 DEF WriteFits, Proceeds
<1>6. \A v \in DOMAIN SocketWrites : WriteFits(v, sock_write'[v]) /\ Proceeds(v, sock_write[v], sock_write'[v])
  BY <1>4, <1>5 DEF SocketIInv, Proceeds
<1>7. /\ sock_reader' \in [SocketReaders -> Records]
      /\ \A s \in SocketReaders :
           /\ ReaderFits(sock_reader'[s]) /\ sock_reader'[s].sent = sock_reader[s].sent
           /\ sock_reader'[s].exit = sock_reader[s].exit /\ Stands(sock_reader[s], sock_reader'[s])
           /\ sock_reader'[s].phase = "open" <=> sock_reader[s].phase = "open"
           /\ sock_reader'[s].phase = "new" <=> sock_reader[s].phase = "new"
  <2>1. CASE sock_current # None /\ SocketWrites[w] = 0
    <3> DEFINE q == Socket!Fail(sock_reader[sock_current], "event")
    <3>1. sock_current \in SocketReaders /\ sock_reader[sock_current].phase = "open" /\ ReaderFits(sock_reader[sock_current])
      BY <1>2, <2>1 DEF SocketIInv, Socket!LatestServes
    <3>2. GoesOn(sock_reader[sock_current], q)
      BY <3>1, FailFits
    <3>3. sock_reader' = [sock_reader EXCEPT ![sock_current] = q]
      BY <1>1, <2>1
    <3> HIDE DEF q
    <3>4. q \in Records
      BY <3>2 DEF GoesOn, ReaderFits
    <3>5. /\ sock_reader' \in [SocketReaders -> Records] /\ sock_reader'[sock_current] = q
          /\ \A s \in SocketReaders \ {sock_current} : sock_reader'[s] = sock_reader[s]
      BY <3>1, <3>3, <3>4 DEF SocketIInv
    <3>6. QED
      BY <3>2, <3>5 DEF SocketIInv, GoesOn, Stands
  <2>2. CASE ~ (sock_current # None /\ SocketWrites[w] = 0)
    BY <1>1, <2>2 DEF SocketIInv, Stands
  <2>3. QED
    BY <2>1, <2>2
<1>8. InTurn'
  BY <1>7 DEF SocketIInv, InTurn
<1>9. Socket!LatestServes'
  <2>1. \A v \in DOMAIN SocketWrites : sock_current # None => sock_write'[v].phase # "waiting"
    BY <1>3, <1>4 DEF SocketIInv, Socket!LatestServes
  <2>2. QED
    BY <1>1, <1>2, <1>4, <1>7, <2>1 DEF SocketIInv, Socket!LatestServes
<1>10. SocketIInv'
  BY <1>1, <1>4, <1>6, <1>7, <1>8, <1>9, NothingIsSent DEF SocketIInv
<1>11. QED
  BY <1>7, <1>10 DEF Sound

\* A write ends, goes on to its next chunk or is interrupted.
LEMMA WriteGoesOn ==
  ASSUME SocketAssumption, SocketIInv, NEW w \in DOMAIN SocketWrites, NEW x \in WriteRecords,
         sock_write' = [sock_write EXCEPT ![w] = x], UNCHANGED <<sock_reader, sock_current, sock_release>>,
         WriteFits(w, x), Proceeds(w, sock_write[w], x), x.phase = "waiting" => sock_write[w].phase = "waiting"
  PROVE  SocketIInv' /\ Sound
<1>1. sock_write' \in [DOMAIN SocketWrites -> WriteRecords] /\ sock_write'[w] = x
      /\ \A v \in DOMAIN SocketWrites \ {w} : sock_write'[v] = sock_write[v]
  BY DEF SocketIInv
<1>2. \A v \in DOMAIN SocketWrites : WriteFits(v, sock_write'[v]) /\ Proceeds(v, sock_write[v], sock_write'[v])
  BY <1>1 DEF SocketIInv, Proceeds
<1>3. InTurn' /\ \A s \in SocketReaders : Stands(sock_reader[s], sock_reader'[s])
  BY DEF SocketIInv, InTurn, Stands
<1>4. Socket!LatestServes'
  BY <1>1 DEF SocketIInv, Socket!LatestServes
<1>5. SocketIInv'
  BY <1>1, <1>2, <1>3, <1>4, NothingIsSent DEF SocketIInv
<1>6. QED
  BY <1>3, <1>5 DEF Sound

LEMMA WritesGoOn ==
  ASSUME SocketAssumption, SocketIInv, NEW w \in DOMAIN SocketWrites,
         Socket!Written(w) \/ Socket!Rejected(w) \/ Socket!Interrupt(w)
  PROVE  SocketIInv' /\ Sound
<1> DEFINE o == sock_write[w]
<1>1. o \in WriteRecords /\ WriteFits(w, o) /\ SocketWrites[w] \in Nat /\ o.next \in Nat
  <2>1. o \in WriteRecords /\ WriteFits(w, o) /\ SocketWrites[w] \in Nat
    BY DEF SocketIInv, SocketAssumption, Socket!ReadersAssumption
  <2>2. QED
    BY <2>1 DEF WriteRecords
<1>2. UNCHANGED <<sock_reader, sock_current, sock_release>>
  BY DEF Socket!Written, Socket!Rejected, Socket!Interrupt
<1>3. CASE Socket!Written(w)
  <2> DEFINE x == [o EXCEPT !.phase = IF o.next < SocketWrites[w] THEN "ready" ELSE "done", !.next = @ + 1]
  <2>1. o.phase = "writing" /\ sock_write' = [sock_write EXCEPT ![w] = x]
    BY <1>3 DEF Socket!Written
  <2>2. /\ x \in WriteRecords /\ x.on = o.on /\ x.next = o.next + 1
        /\ x.phase = IF o.next < SocketWrites[w] THEN "ready" ELSE "done"
    <3> DEFINE after == IF o.next < SocketWrites[w] THEN "ready" ELSE "done"
               y == [o EXCEPT !.next = o.next + 1]
    <3>1. after \in {"new", "waiting", "ready", "writing", "done", "failed"} /\ o.next + 1 \in Nat
      BY <1>1
    <3> HIDE DEF after, o
    <3>2. y \in WriteRecords /\ y.on = o.on /\ y.next = o.next + 1
      BY <1>1, <3>1 DEF WriteRecords
    <3>3. x = [y EXCEPT !.phase = after]
      BY <1>1 DEF WriteRecords, after
    <3> HIDE DEF x, y
    <3>4. QED
      BY <3>1, <3>2, <3>3 DEF WriteRecords, after
  <2> HIDE DEF x
  <2>3. WriteFits(w, x)
    BY <1>1, <2>1, <2>2 DEF WriteFits
  <2>4. Proceeds(w, o, x)
    BY <2>1, <2>2 DEF Proceeds
  <2>5. QED
    BY <1>2, <2>1, <2>2, <2>3, <2>4, WriteGoesOn
<1>4. CASE Socket!Rejected(w)
  <2> DEFINE x == [o EXCEPT !.phase = "failed"]
  <2>1. sock_write' = [sock_write EXCEPT ![w] = x]
    BY <1>4 DEF Socket!Rejected
  <2>2. x \in WriteRecords /\ x.on = o.on /\ x.next = o.next /\ x.phase = "failed"
    BY <1>1 DEF WriteRecords
  <2> HIDE DEF x
  <2>3. WriteFits(w, x) /\ Proceeds(w, o, x)
    BY <2>2 DEF WriteFits, Proceeds
  <2>4. QED
    BY <1>2, <2>1, <2>2, <2>3, WriteGoesOn
<1>5. CASE Socket!Interrupt(w)
  <2> DEFINE x == [o EXCEPT !.interrupted = TRUE, !.phase = IF @ = "waiting" THEN "failed" ELSE @]
  <2>1. sock_write' = [sock_write EXCEPT ![w] = x]
    BY <1>5 DEF Socket!Interrupt
  <2>2. x \in WriteRecords /\ x.on = o.on /\ x.next = o.next /\ x.phase = IF o.phase = "waiting" THEN "failed" ELSE o.phase
    BY <1>1 DEF WriteRecords
  <2> HIDE DEF x
  <2>3. WriteFits(w, x) /\ Proceeds(w, o, x)
    BY <1>1, <2>2 DEF WriteFits, Proceeds
  <2>4. QED
    BY <1>2, <2>1, <2>2, <2>3, WriteGoesOn
<1>6. QED
  BY <1>3, <1>4, <1>5

\* The chunk that a write hands over follows those that are on its stream.
LEMMA SendOK ==
  ASSUME SocketAssumption, SocketIInv, NEW w \in DOMAIN SocketWrites, Socket!Send(w)
  PROVE  SocketIInv' /\ Sound
<1> DEFINE o == sock_write[w]
           r == o.on
<1>1. /\ o \in WriteRecords /\ WriteFits(w, o) /\ o.phase = "ready" /\ r \in SocketReaders
      /\ sock_reader[r].output = "open" /\ "writer" \in sock_reader[r].locks
      /\ sock_reader[r].unread < HighWater /\ UNCHANGED <<sock_current, sock_release>>
      /\ ReaderFits(sock_reader[r]) /\ sock_reader[r] \in Records
  BY DEF SocketIInv, Socket!Send, Socket!Stream, Socket!Usable, Socket!Ready, WriteFits
<1>2. CASE Socket!Throws(w)
  <2> DEFINE x == [o EXCEPT !.phase = "failed"]
  <2>1. sock_write' = [sock_write EXCEPT ![w] = x] /\ UNCHANGED sock_reader
    BY <1>2 DEF Socket!Send
  <2>2. x \in WriteRecords /\ x.on = o.on /\ x.next = o.next /\ x.phase = "failed"
    BY <1>1 DEF WriteRecords
  <2> HIDE DEF x
  <2>3. WriteFits(w, x) /\ Proceeds(w, o, x)
    BY <2>2 DEF WriteFits, Proceeds
  <2>4. QED
    BY <1>1, <2>1, <2>2, <2>3, WriteGoesOn
<1>3. CASE ~ Socket!Throws(w)
  <2> DEFINE x == [o EXCEPT !.phase = "writing"]
             p == sock_reader[r]
             m == Len(p.sent) + 1
             extended == Append(p.sent, <<w, o.next>>)
             q == [p EXCEPT !.sent = extended, !.unread = @ + 1]
  <2>1. sock_write' = [sock_write EXCEPT ![w] = x] /\ sock_reader' = [sock_reader EXCEPT ![r] = q]
    BY <1>3 DEF Socket!Send, Socket!Stream
  <2>2. x \in WriteRecords /\ x.on = o.on /\ x.next = o.next /\ x.phase = "writing"
    BY <1>1 DEF WriteRecords
  <2>3. p.sent \in Seq((DOMAIN SocketWrites) \X Nat) /\ o.next \in Nat /\ p.unread \in 0..HighWater /\ HighWater \in Nat
    BY <1>1 DEF Records, WriteRecords, SocketAssumption, Socket!ReadersAssumption
  <2>4. /\ extended \in Seq((DOMAIN SocketWrites) \X Nat) /\ DOMAIN extended = DOMAIN p.sent \union {m} /\ m \notin DOMAIN p.sent
        /\ extended[m] = <<w, o.next>>
        /\ \A i \in DOMAIN p.sent : extended[i] = p.sent[i] /\ i < m /\ p.sent[i] \in (DOMAIN SocketWrites) \X Nat
    <3> DEFINE seq == p.sent
    <3>1. seq \in Seq((DOMAIN SocketWrites) \X Nat) /\ <<w, o.next>> \in (DOMAIN SocketWrites) \X Nat
      BY <2>3
    <3> HIDE DEF seq
    <3>2. Append(seq, <<w, o.next>>) \in Seq((DOMAIN SocketWrites) \X Nat)
      BY <3>1
    <3>3. DOMAIN seq = 1..Len(seq) /\ Len(seq) \in Nat
      BY <3>1
    <3>4. Len(Append(seq, <<w, o.next>>)) = Len(seq) + 1
      BY <3>1
    <3>5. DOMAIN Append(seq, <<w, o.next>>) = 1..(Len(seq) + 1)
      BY <3>2, <3>4
    <3>6. \A i \in 1..Len(seq) : Append(seq, <<w, o.next>>)[i] = seq[i] /\ seq[i] \in (DOMAIN SocketWrites) \X Nat
      BY <3>1
    <3>7. Append(seq, <<w, o.next>>)[Len(seq) + 1] = <<w, o.next>>
      BY <3>1
    <3>8. DOMAIN Append(seq, <<w, o.next>>) = DOMAIN seq \union {Len(seq) + 1} /\ Len(seq) + 1 \notin DOMAIN seq
          /\ \A i \in DOMAIN seq : i < Len(seq) + 1
      BY <3>3, <3>5
    <3>9. extended = Append(seq, <<w, o.next>>) /\ p.sent = seq /\ m = Len(seq) + 1
      BY DEF seq
    <3> HIDE DEF extended, m
    <3>10. QED
      BY <3>2, <3>3, <3>6, <3>7, <3>8, <3>9
  <2>5. p.unread + 1 \in 0..HighWater
    BY <1>1, <2>3
  <2> HIDE DEF extended, m
  <2>6. /\ q.sent = extended /\ SameScope(p, q) /\ SameInput(p, q) /\ SameReads(p, q) /\ q.output = p.output
        /\ q.unread = p.unread + 1
    BY <1>1 DEF Records, SameScope, SameInput, SameReads
  <2>7. q \in Records
    <3> DEFINE y == [p EXCEPT !.sent = extended]
    <3>1. y \in Records
      BY <1>1, <2>4 DEF Records
    <3>2. q = [y EXCEPT !.unread = p.unread + 1]
      BY <1>1 DEF Records
    <3> HIDE DEF q, y
    <3>3. QED
      BY <2>5, <3>1, <3>2 DEF Records
  <2>8. p.phase # "new"
    BY <1>1 DEF ReaderFits, Socket!Closed
  <2> HIDE DEF q
  <2>9. ReaderFits(q)
    BY <1>1, <2>6, <2>7, <2>8 DEF ReaderFits, SameScope, SameInput, SameReads
  <2>10. /\ sock_reader' \in [SocketReaders -> Records] /\ sock_reader'[r] = q
         /\ \A s \in SocketReaders \ {r} : sock_reader'[s] = sock_reader[s]
    BY <1>1, <2>1, <2>7 DEF SocketIInv
  <2>11. /\ sock_write' \in [DOMAIN SocketWrites -> WriteRecords] /\ sock_write'[w] = x
         /\ \A v \in DOMAIN SocketWrites \ {w} : sock_write'[v] = sock_write[v]
    BY <2>1, <2>2 DEF SocketIInv
  <2> HIDE DEF x
  <2>12. \A s \in SocketReaders :
           /\ ReaderFits(sock_reader'[s]) /\ sock_reader'[s].exit = sock_reader[s].exit
           /\ sock_reader'[s].phase = sock_reader[s].phase /\ Stands(sock_reader[s], sock_reader'[s])
    BY <2>6, <2>9, <2>10 DEF SocketIInv, Stands, SameScope, SameReads
  <2>13. \A v \in DOMAIN SocketWrites : WriteFits(v, sock_write'[v])
    <3>1. WriteFits(w, x)
      BY <1>1, <2>2 DEF WriteFits
    <3>2. QED
      BY <2>11, <3>1 DEF SocketIInv
  <2>14. InTurn'
    BY <2>12 DEF SocketIInv, InTurn
  <2>15. Socket!LatestServes'
    <3>1. \A v \in DOMAIN SocketWrites : sock_write[v].phase # "waiting" => sock_write'[v].phase # "waiting"
      BY <2>2, <2>11
    <3>2. QED
      BY <1>1, <2>11, <2>12, <3>1 DEF SocketIInv, Socket!LatestServes
  <2>16. ASSUME NEW v \in DOMAIN SocketWrites, NEW s \in SocketReaders
         PROVE  ChunksFit(v, sock_write'[v], s, sock_reader'[s].sent)
    <3>1. ChunksFit(v, sock_write[v], s, sock_reader[s].sent)
      BY DEF SocketIInv
    <3>2. CASE s = r /\ v = w
      <4>1. ChunksFit(w, o, r, p.sent)
        BY <3>1, <3>2
      <4> HIDE DEF p
      <4>2. ChunksFit(w, x, r, extended)
        BY <1>1, <2>2, <2>4, <4>1, ChunkOfOwn
      <4>3. QED
        BY <2>6, <2>10, <2>11, <3>2, <4>2
    <3>3. CASE s = r /\ v # w
      <4>1. ChunksFit(v, sock_write[v], r, p.sent)
        BY <3>1, <3>3
      <4> HIDE DEF p
      <4>2. ChunksFit(v, sock_write[v], r, extended)
        BY <2>4, <3>3, <4>1, ChunkOfOther, ZenonT(60)
      <4>3. sock_reader'[r].sent = extended
        BY <2>6, <2>10
      <4>5. sock_write'[v] = sock_write[v]
        BY <2>11, <3>3
      <4>4. QED
        BY <3>3, <4>2, <4>3, <4>5
    <3>4. CASE s # r /\ v = w
      <4>1. \A i \in DOMAIN sock_reader[s].sent : sock_reader[s].sent[i][1] # w
        BY <3>1, <3>4 DEF ChunksFit
      <4>2. ChunksFit(w, x, s, sock_reader[s].sent)
        BY <2>2, <3>4, <4>1 DEF ChunksFit
      <4>3. QED
        BY <2>10, <2>11, <3>4, <4>2
    <3>5. CASE s # r /\ v # w
      BY <2>10, <2>11, <3>1, <3>5
    <3>6. QED
      BY <3>2, <3>3, <3>4, <3>5
  <2>17. SocketIInv'
    BY <1>1, <2>10, <2>11, <2>12, <2>13, <2>14, <2>15, <2>16 DEF SocketIInv
  <2>18. \A s \in SocketReaders : sock_reader'[s].sent = sock_reader[s].sent \/
           \E v \in DOMAIN SocketWrites :
              /\ ~ (v \in WriteAlls /\ sock_write[v].interrupted)
              /\ sock_reader'[s].sent = Append(sock_reader[s].sent, <<v, sock_write[v].next>>)
    <3>1. ~ (w \in WriteAlls /\ sock_write[w].interrupted)
      BY <1>3 DEF Socket!Throws
    <3>2. sock_reader'[r].sent = Append(sock_reader[r].sent, <<w, sock_write[w].next>>)
      BY <2>6, <2>10 DEF extended
    <3>3. QED
      BY <2>10, <3>1, <3>2
  <2>19. QED
    BY <2>12, <2>17, <2>18 DEF Sound
<1>4. QED
  BY <1>2, <1>3

\* The writer's scope closes the latest stream.
LEMMA ReleaseOK ==
  ASSUME SocketAssumption, SocketIInv, NEW ending \in {"success", "failure"}, Socket!Release(ending)
  PROVE  SocketIInv' /\ Sound
<1>1. sock_release' \in {"no", "success", "failure"} /\ UNCHANGED <<sock_current, sock_write>>
  BY DEF Socket!Release
<1>2. CASE sock_current = None
  <2>1. sock_reader' = sock_reader
    BY <1>2 DEF Socket!Release
  <2>2. \A w \in DOMAIN SocketWrites : WriteFits(w, sock_write[w]) /\ Proceeds(w, sock_write[w], sock_write[w])
    BY DEF SocketIInv, Proceeds
  <2>3. InTurn' /\ Socket!LatestServes'
    BY <1>1, <2>1 DEF SocketIInv, InTurn, Socket!LatestServes
  <2>4. SocketIInv'
    BY <1>1, <2>1, <2>2, <2>3, NothingIsSent DEF SocketIInv
  <2>5. QED
    BY <2>1, <2>4 DEF Sound, Stands
<1>3. CASE sock_current # None
  <2>1. sock_current \in SocketReaders /\ sock_reader[sock_current].phase = "open" /\ ReaderFits(sock_reader[sock_current])
    BY <1>3 DEF SocketIInv, Socket!LatestServes
  <2> DEFINE q == Socket!Close(sock_reader[sock_current], ending)
  <2>2. GoesOn(sock_reader[sock_current], q)
    BY <2>1, CloseFits
  <2>3. sock_reader' = [sock_reader EXCEPT ![sock_current] = q]
    BY <1>3 DEF Socket!Release
  <2> HIDE DEF q
  <2>4. /\ SocketIInv'
        /\ \A s \in SocketReaders : Stands(sock_reader[s], sock_reader'[s]) /\ sock_reader'[s].sent = sock_reader[s].sent
    BY <1>1, <2>1, <2>2, <2>3, SocketGoesOn
  <2>5. QED
    BY <2>4 DEF Sound
<1>4. QED
  BY <1>2, <1>3

LEMMA SocketStepOK ==
  ASSUME SocketAssumption, SocketIInv, [Socket!Next]_Socket!vars PROVE SocketIInv' /\ Sound
<1>1. ASSUME UNCHANGED Socket!vars PROVE SocketIInv' /\ Sound
  <2>1. sock_reader' = sock_reader /\ sock_current' = sock_current /\ sock_write' = sock_write /\ sock_release' = sock_release
    BY <1>1 DEF Socket!vars
  <2>2. \A w \in DOMAIN SocketWrites : WriteFits(w, sock_write[w]) /\ Proceeds(w, sock_write[w], sock_write[w])
    BY DEF SocketIInv, Proceeds
  <2>3. InTurn' /\ Socket!LatestServes'
    BY <2>1 DEF SocketIInv, InTurn, Socket!LatestServes
  <2>4. SocketIInv'
    BY <2>1, <2>2, <2>3, NothingIsSent DEF SocketIInv
  <2>5. QED
    BY <2>1, <2>4 DEF Sound, Stands
<1>2. ASSUME NEW r \in SocketReaders, Socket!ReaderSteps(r) PROVE SocketIInv' /\ Sound
  <2>1. CASE Socket!OpenFails(r)
    BY <2>1, OpenFailsOK
  <2>2. CASE Socket!Open(r)
    BY <2>2, OpenOK
  <2>3. ASSUME NEW ending \in {"success", "failure"}, Socket!Finalize(r, ending) PROVE SocketIInv' /\ Sound
    BY <2>3, FinalizeOK
  <2>4. ASSUME \/ Socket!WriterReleased(r) \/ Socket!ReaderReleased(r) \/ Socket!StreamClosed(r)
               \/ Socket!Pull(r) \/ Socket!NativeRead(r) \/ Socket!PullResumes(r)
               \/ Socket!PeerReads(r) \/ Socket!Fin(r) \/ Socket!PeerSends(r)
               \/ \E how \in PeerFaults \ {"stop"} : Socket!PeerEnds(r, how)
               \/ Socket!PeerStops(r)
        PROVE  SocketIInv' /\ Sound
    <3>1. UNCHANGED <<sock_current, sock_write, sock_release>>
      BY <2>4 DEF Socket!WriterReleased, Socket!ReaderReleased, Socket!StreamClosed, Socket!Pull,
         Socket!NativeRead, Socket!PullResumes, Socket!PeerReads, Socket!Fin, Socket!PeerSends,
         Socket!PeerEnds, Socket!PeerStops
    <3>2. sock_release' \in {"no", "success", "failure"}
      BY <3>1 DEF SocketIInv
    <3>3. PICK q : GoesOn(sock_reader[r], q) /\ sock_reader' = [sock_reader EXCEPT ![r] = q]
      BY <2>4, ReaderGoesOn
    <3>4. QED
      BY <3>1, <3>2, <3>3, SocketGoesOn DEF Sound
  <2>5. QED
    BY <1>2, <2>1, <2>2, <2>3, <2>4 DEF Socket!ReaderSteps
<1>3. ASSUME NEW w \in DOMAIN SocketWrites, Socket!WriteSteps(w) PROVE SocketIInv' /\ Sound
  BY <1>3, WriteOK, SendOK, WritesGoOn DEF Socket!WriteSteps
<1>4. QED
  BY <1>1, <1>2, <1>3, ReleaseOK DEF Socket!Next

\* What the invariant says of the chunks and of the readers.
LEMMA SocketIInvGives ==
  ASSUME SocketAssumption, SocketIInv
  PROVE  Socket!TypeOK /\ Socket!LatestServes /\ Socket!OneStream /\ Socket!Released
<1>1. Socket!TypeOK
  <2>1. ASSUME NEW r \in SocketReaders PROVE Socket!ReaderOK(sock_reader[r])
    <3> DEFINE q == sock_reader[r]
    <3>1. q \in Records /\ q.inbox + q.delivered + (IF q.pull = "chunk" THEN 1 ELSE 0) <= q.received
      BY DEF SocketIInv, ReaderFits
    <3> HIDE DEF q
    <3>2. SocketChunks \in Nat /\ q.inbox \in Nat /\ q.delivered \in Nat /\ q.received \in 0..SocketChunks
      BY <3>1 DEF Records, SocketAssumption, Socket!ReadersAssumption
    <3>3. q.inbox \in 0..SocketChunks /\ q.delivered \in 0..SocketChunks
      BY <3>1, <3>2
    <3>4. Socket!ReaderOK(q)
      BY <3>1, <3>3 DEF Records, Socket!ReaderOK
    <3>5. QED
      BY <3>4 DEF q
  <2>2. \A w \in DOMAIN sock_write :
          sock_write[w].phase \in {"new", "waiting", "ready", "writing", "done", "failed"}
    BY DEF SocketIInv, WriteRecords
  <2>3. QED
    BY <2>1, <2>2 DEF Socket!TypeOK, SocketIInv
<1>2. Socket!Released
  <2>1. ASSUME NEW r \in SocketReaders, sock_reader[r].phase = "closed", sock_reader[r].exit # None
        PROVE  sock_reader[r].locks = {} /\ Socket!Settled(r) /\ sock_reader[r].input # "open"
    <3>1. ReaderFits(sock_reader[r])
      BY DEF SocketIInv
    <3>2. sock_reader[r].locks = {} /\ sock_reader[r].input # "open"
      BY <2>1, <3>1 DEF ReaderFits
    <3>3. sock_reader[r].output \in {"closed", "aborted", "reset"}
      BY <2>1, <3>1, <3>2 DEF ReaderFits
    <3>4. QED
      BY <3>2, <3>3 DEF Socket!Settled, Socket!Lost
  <2>2. QED
    BY <2>1 DEF Socket!Released
<1>3. ASSUME NEW w \in DOMAIN SocketWrites, NEW r \in SocketReaders
      PROVE  LET q == sock_reader[r].sent
             IN /\ \A i \in DOMAIN q : q[i][1] = w =>
                     /\ r = sock_write[w].on /\ q[i][2] \in 1..SocketWrites[w]
                     /\ \A j \in DOMAIN q : q[j] = q[i] => j = i
                     /\ \A k \in 1..SocketWrites[w] : k < q[i][2] => \E j \in DOMAIN q : j < i /\ q[j] = <<w, k>>
                /\ (sock_write[w].phase = "done" /\ r = sock_write[w].on) =>
                     \A k \in 1..SocketWrites[w] : \E i \in DOMAIN q : q[i] = <<w, k>>
  <2> DEFINE q == sock_reader[r].sent
             o == sock_write[w]
  <2>1. ChunksFit(w, o, r, q) /\ WriteFits(w, o) /\ o \in WriteRecords /\ SocketWrites[w] \in Nat
    BY DEF SocketIInv, SocketAssumption, Socket!ReadersAssumption
  <2>2. o.phase = "done" => \A k \in 1..SocketWrites[w] : Handed(o, k)
    BY <2>1 DEF WriteFits, WriteRecords, Handed
  <2> HIDE DEF q, o
  <2>3. /\ \A i \in DOMAIN q : q[i][1] = w => r = o.on /\ InOrder(w, q, i)
        /\ r = o.on /\ o.phase = "done" => \A k \in 1..SocketWrites[w] : \E i \in DOMAIN q : q[i] = <<w, k>>
    BY <2>1, <2>2 DEF ChunksFit
  <2>4. QED
    BY <2>3 DEF InOrder, q, o
<1>4. Socket!OneStream
  BY <1>3 DEF Socket!OneStream
<1>5. QED
  BY <1>1, <1>2, <1>4 DEF SocketIInv

\* What is sent, and why a pull fails, follows from what a step does to the readers.
LEMMA SocketStepGives ==
  ASSUME SocketAssumption, SocketIInv, Sound
  PROVE  /\ \A r \in SocketReaders : sock_reader[r].error # None =>
              /\ sock_reader'[r].error = sock_reader[r].error
              /\ sock_reader'[r].delivered = sock_reader[r].delivered
              /\ sock_reader'[r].ended \in {sock_reader[r].ended, sock_reader[r].error}
         /\ \A w \in WriteAlls : sock_write[w].interrupted =>
              \A r \in SocketReaders : Len(sock_reader'[r].sent) > Len(sock_reader[r].sent) =>
                  sock_reader'[r].sent[Len(sock_reader'[r].sent)][1] # w
<1>1. \A r \in SocketReaders : sock_reader[r].error # None =>
        /\ sock_reader'[r].error = sock_reader[r].error
        /\ sock_reader'[r].delivered = sock_reader[r].delivered
        /\ sock_reader'[r].ended \in {sock_reader[r].ended, sock_reader[r].error}
  BY DEF Sound, Stands
<1>2. ASSUME NEW w \in WriteAlls, sock_write[w].interrupted, NEW r \in SocketReaders,
             Len(sock_reader'[r].sent) > Len(sock_reader[r].sent)
      PROVE  sock_reader'[r].sent[Len(sock_reader'[r].sent)][1] # w
  <2> DEFINE q == sock_reader[r].sent
  <2>1. q \in Seq((DOMAIN SocketWrites) \X Nat)
    BY DEF SocketIInv, Records
  <2> HIDE DEF q
  <2>2. Len(q) \in Nat
    BY <2>1
  <2>3. PICK v \in DOMAIN SocketWrites :
          /\ ~ (v \in WriteAlls /\ sock_write[v].interrupted)
          /\ sock_reader'[r].sent = Append(q, <<v, sock_write[v].next>>)
    <3>1. sock_reader'[r].sent # q
      BY <1>2, <2>2 DEF q
    <3>2. QED
      BY <3>1 DEF Sound, q
  <2>4. v # w
    BY <1>2, <2>3
  <2> DEFINE e == <<v, sock_write[v].next>>
  <2>5. sock_write[v].next \in Nat
    BY DEF SocketIInv, WriteRecords
  <2>6. e \in (DOMAIN SocketWrites) \X Nat /\ e[1] = v
    BY <2>5
  <2> HIDE DEF e
  <2>7. Len(Append(q, e)) = Len(q) + 1 /\ Append(q, e)[Len(q) + 1] = e
    BY <2>1, <2>6
  <2>8. QED
    BY <2>3, <2>4, <2>6, <2>7 DEF e
<1>3. QED
  BY <1>1, <1>2

\* Writes are served by the latest reader for as long as it lasts; the chunks of a writeAll go
\* to one stream, each once and in order, and none of them after an interruption; the first
\* cause to end a reader stands; and a reader whose scope closed holds no lock and has ended
\* its stream.
THEOREM SocketsServeInOrder ==
  ASSUME SocketAssumption
  PROVE  Socket!Spec => /\ [](Socket!TypeOK /\ Socket!LatestServes /\ Socket!OneStream /\ Socket!Released)
                        /\ Socket!FirstCauseStands /\ Socket!InterruptStops
<1>1. Socket!Init => SocketIInv
  BY SocketInitOK
<1>2. SocketIInv /\ [Socket!Next]_Socket!vars => SocketIInv'
  BY SocketStepOK
<1>3. SocketIInv => Socket!TypeOK /\ Socket!LatestServes /\ Socket!OneStream /\ Socket!Released
  BY SocketIInvGives
<1>4. SocketIInv /\ [Socket!Next]_Socket!vars =>
        [\A r \in SocketReaders : sock_reader[r].error # None =>
              /\ sock_reader'[r].error = sock_reader[r].error
              /\ sock_reader'[r].delivered = sock_reader[r].delivered
              /\ sock_reader'[r].ended \in {sock_reader[r].ended, sock_reader[r].error}]_Socket!vars
  BY SocketStepOK, SocketStepGives
<1>5. SocketIInv /\ [Socket!Next]_Socket!vars =>
        [\A w \in WriteAlls : sock_write[w].interrupted =>
              \A r \in SocketReaders : Len(sock_reader'[r].sent) > Len(sock_reader[r].sent) =>
                  sock_reader'[r].sent[Len(sock_reader'[r].sent)][1] # w]_Socket!vars
  BY SocketStepOK, SocketStepGives
<1>6. QED
  BY <1>1, <1>2, <1>3, <1>4, <1>5, PTL DEF Socket!Spec, Socket!FirstCauseStands, Socket!InterruptStops
==============================================================================
