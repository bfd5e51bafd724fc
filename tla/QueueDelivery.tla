---------------------------- MODULE QueueDelivery ----------------------------
(***************************************************************************)
(* A queue from producer to consumer: send and sendBatch of QueueBinding.ts, the  *)
(* queue handler of Worker.ts and its decoding in QueueDefinition.ts.  Cloudflare  *)
(* delivers batches at least once, retries what was not acknowledged and gives a   *)
(* message up after its last attempt.                                            *)
(***************************************************************************)
EXTENDS Naturals, FiniteSets

CONSTANTS
    Messages,
    Alien,        \* messages another producer sent, which do not decode
    Unencodable,  \* values the schema of this producer refuses
    MaxAttempts   \* deliveries before the dead letters

ASSUME QueueAssumption ==
    Alien \subseteq Messages /\ Unencodable \subseteq Messages /\ MaxAttempts \in Nat \ {0}

VARIABLES
    sent,     \* calls of send and sendBatch that returned, each a set of messages
    refused,  \* those that failed before the queue was asked
    queue,    \* messages to be delivered
    attempts, \* message -> deliveries so far
    acked,    \* messages the queue is done with
    dead,     \* messages given up
    batch,    \* the batch at the consumer
    phase,    \* of its handler
    marked,   \* message of the batch -> what the handler asked for
    seen      \* messages a handler got

queueVars == <<sent, refused, queue, attempts, acked, dead, batch, phase, marked, seen>>

QueueInit ==
    /\ sent = {} /\ refused = {} /\ queue = Alien /\ attempts = [m \in Messages |-> 0]
    /\ acked = {} /\ dead = {} /\ batch = {} /\ phase = "none"
    /\ marked = [m \in Messages |-> "none"] /\ seen = {}

Known == UNION (sent \union refused)

\* Mutant: each message is sent as soon as it is encoded.
SendsEncodable(ms) == ms \ Unencodable

\* Every message is encoded before the queue is asked for anything.
SendsAll(ms) == IF ms \intersect Unencodable = {} THEN ms ELSE {}

\* send, or sendBatch; the queue itself may refuse the whole call.
Send(ms) ==
    /\ ms # {} /\ ms \intersect (Known \union Alien) = {}
    /\ IF ms \intersect Unencodable = {}
       THEN \/ sent' = sent \union {ms} /\ UNCHANGED refused
            \/ refused' = refused \union {ms} /\ UNCHANGED sent
       ELSE refused' = refused \union {ms} /\ UNCHANGED sent
    /\ queue' = IF ms \in sent' THEN queue \union ms
                ELSE IF ms \intersect Unencodable = {} THEN queue
                ELSE queue \union SendsAll(ms)
    /\ UNCHANGED <<attempts, acked, dead, batch, phase, marked, seen>>

Deliver(ms) ==
    /\ phase = "none" /\ ms # {} /\ ms \subseteq queue
    /\ batch' = ms /\ queue' = queue \ ms /\ phase' = "decoding"
    /\ attempts' = [m \in Messages |-> attempts[m] + IF m \in ms THEN 1 ELSE 0]
    /\ marked' = [m \in Messages |-> "none"]
    /\ UNCHANGED <<sent, refused, acked, dead, seen>>

\* Mutant: what does not decode is left out of the batch.
DecodesSome(ms) == ms \ Alien # {}

\* decodeBody for every message, before the handler gets any of them.
DecodesAll(ms) == ms \intersect Alien = {}

Decode ==
    /\ phase = "decoding"
    /\ IF DecodesAll(batch)
       THEN phase' = "handling" /\ seen' = seen \union (batch \ Alien)
       ELSE phase' = "failed" /\ UNCHANGED seen
    /\ UNCHANGED <<sent, refused, queue, attempts, acked, dead, batch, marked>>

\* ack and retry of one message; the first call counts.
Mark(m, how) ==
    /\ phase = "handling" /\ m \in batch /\ marked[m] = "none"
    /\ marked' = [marked EXCEPT ![m] = how]
    /\ UNCHANGED <<sent, refused, queue, attempts, acked, dead, batch, phase, seen>>

\* ackAll and retryAll.
MarkAll(how) ==
    /\ phase = "handling" /\ \E m \in batch : marked[m] = "none"
    /\ marked' = [m \in Messages |-> IF m \in batch /\ marked[m] = "none" THEN how ELSE marked[m]]
    /\ UNCHANGED <<sent, refused, queue, attempts, acked, dead, batch, phase, seen>>

HandlerEnds ==
    /\ phase = "handling"
    /\ phase' \in {"done", "failed"}
    /\ UNCHANGED <<sent, refused, queue, attempts, acked, dead, batch, marked, seen>>

\* Mutant: the promise of the event resolves also when its effect failed.
AlwaysResolves == TRUE

\* runEventPromise rejects with the failure of the event.
Resolves == phase = "done"

\* What was acknowledged is done with; the rest is too when the promise resolved,
\* unless a retry was asked for, and is retried when it rejected.
SettleBatch ==
    /\ phase \in {"done", "failed"}
    /\ LET done == {m \in batch : marked[m] = "ack" \/ (Resolves /\ marked[m] = "none")}
           over == {m \in batch \ done : attempts[m] = MaxAttempts}
       IN /\ acked' = acked \union done /\ dead' = dead \union over
          /\ queue' = queue \union (batch \ (done \union over))
    /\ batch' = {} /\ phase' = "none" /\ marked' = [m \in Messages |-> "none"]
    /\ UNCHANGED <<sent, refused, attempts, seen>>

\* The invocation is lost; Cloudflare delivers its batch again.
Lost ==
    /\ phase # "none"
    /\ LET over == {m \in batch : attempts[m] = MaxAttempts}
       IN dead' = dead \union over /\ queue' = queue \union (batch \ over)
    /\ batch' = {} /\ phase' = "none" /\ marked' = [m \in Messages |-> "none"]
    /\ UNCHANGED <<sent, refused, attempts, acked, seen>>

Handling == (\E m \in Messages, how \in {"ack", "retry"} : Mark(m, how))
            \/ \E how \in {"ack", "retry"} : MarkAll(how)

QueueNext ==
    \/ \E ms \in SUBSET Messages : Send(ms) \/ Deliver(ms)
    \/ Decode \/ Handling \/ HandlerEnds \/ SettleBatch \/ Lost

QueueSpec == QueueInit /\ [][QueueNext]_queueVars

----------------------------------------------------------------------------
\* A call that failed has sent none of its messages, and every message of one that
\* returned is somewhere.
AllOrNothing ==
    /\ \A ms \in refused : ms \intersect (queue \union batch \union acked \union dead) = {}
    /\ UNION sent \subseteq queue \union batch \union acked \union dead

\* The queue is done only with messages that a handler got: one that does not
\* decode is retried, with its batch, and ends among the dead letters.
OnlySeenIsAcked == acked \subseteq seen

\* A handler that runs has the whole batch.
WholeBatch == phase = "handling" => batch \subseteq seen

\* Batches are whole: a call of the producer sends all of its messages or none, and a
\* delivered batch is handled with all its messages or not acknowledged.
BatchesAreWhole ==
    /\ AllOrNothing
    /\ OnlySeenIsAcked
    /\ WholeBatch
=============================================================================
