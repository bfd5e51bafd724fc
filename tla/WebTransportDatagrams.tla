-------------------------- MODULE WebTransportDatagrams --------------------------
(***************************************************************************)
(* makeDatagrams and streamFromReadable of WebTransport.ts: senders share    *)
(* one cached writer until the session closes; takers and the datagram       *)
(* stream share one readable, whose lock belongs to one reader at a time.    *)
(* The session, its queues and its peer are the environment.                 *)
(***************************************************************************)
EXTENDS Integers, Sequences, SequencesExt, FiniteSets

CONSTANTS
    Senders,     \* calls of send: an interrupted fiber leaves its promise going
    Takers,      \* fibers that take
    Consumer,    \* the consumer of the stream of datagrams
    Incoming,    \* bound: datagrams the peer sends
    HighWater,   \* incomingHighWaterMark
    Capacity,    \* capacity of the outgoing queue
    MaxTries,    \* bound: sends of a sender, takes of a taker
    Free

Readers == Takers \cup {Consumer}

DatagramAssumption ==
    /\ IsFiniteSet(Senders) /\ Free \notin Readers /\ Consumer \notin Takers
    /\ Incoming \in Nat /\ HighWater \in Nat \ {0} /\ Capacity \in Nat \ {0}
    /\ MaxTries \in Nat

VARIABLES
    session,  \* "open", "closed" by the platform, "marked": markClosed ran
    writer,   \* the cached writer holds the lock of the writable
    out,      \* datagrams in the outgoing queue
    send,     \* of every sender: "idle", "waiting" for ready, "ready", "writing"
    result,   \* of every sender: how its last send ended
    buffer,    \* datagrams buffered by the readable
    lock,     \* the reader that holds the lock of the readable
    read,     \* of every reader: "idle", "locked", "pending", "resolved", "ended"
    inhand,   \* of every reader: the datagram its read resolved with, 0 for none
    got,      \* datagrams handed to the application, in order
    lost,     \* datagrams the platform dropped, or an interrupted read held
    arrived, tries

datagramVars == <<session, writer, out, send, result, buffer, lock, read, inhand, got, lost, arrived, tries>>
sending == <<writer, out, send, result>>
reading == <<buffer, lock, read, inhand, got, lost>>

DatagramsInit ==
    /\ session = "open" /\ writer = FALSE /\ out = 0
    /\ send = [s \in Senders |-> "idle"] /\ result = [s \in Senders |-> "none"]
    /\ buffer = <<>> /\ lock = Free /\ read = [r \in Readers |-> "idle"]
    /\ inhand = [r \in Readers |-> 0] /\ got = <<>> /\ lost = {} /\ arrived = 0
    /\ tries = [p \in Senders \cup Takers |-> 0]

Tries(p) == tries[p] < MaxTries /\ tries' = [tries EXCEPT ![p] = @ + 1]

\* Mutant: a write the session rejects is tried again.
RetriesWrite(s, how) ==
    /\ send' = [send EXCEPT ![s] = IF how = "WriteError" THEN "waiting" ELSE "idle"]
    /\ result' = [result EXCEPT ![s] = how]

Ends(s, how) == send' = [send EXCEPT ![s] = "idle"] /\ result' = [result EXCEPT ![s] = how]

MaySend == session # "marked"

\* The synchronous part of send: check, then take the writer if there is none.
SendDatagram(s, fits) ==
    /\ send[s] = "idle" /\ Tries(s)
    /\ IF ~ MaySend THEN Ends(s, "SessionClosed") /\ UNCHANGED <<writer, out>>
       ELSE IF ~ fits THEN Ends(s, "TooLarge") /\ UNCHANGED <<writer, out>>
       ELSE /\ writer' = TRUE /\ send' = [send EXCEPT ![s] = "waiting"]
            /\ result' = [result EXCEPT ![s] = "none"] /\ UNCHANGED out
    /\ UNCHANGED <<session, arrived>> /\ UNCHANGED reading

\* await writer.ready, which resolves while the queue has capacity, for every sender that
\* waits.
Ready(s) ==
    /\ send[s] = "waiting" /\ session = "open" /\ out < Capacity
    /\ send' = [send EXCEPT ![s] = "ready"]
    /\ UNCHANGED <<session, writer, out, result, arrived, tries>> /\ UNCHANGED reading

\* writer.write, when the sender goes on: others may have filled the queue meanwhile.
WriteDatagram(s) ==
    /\ send[s] = "ready" /\ session = "open"
    /\ send' = [send EXCEPT ![s] = "writing"] /\ out' = out + 1
    /\ UNCHANGED <<session, writer, result, arrived, tries>> /\ UNCHANGED reading

\* The platform sent a datagram: its write is done.
Sent(s) ==
    /\ send[s] = "writing" /\ session = "open" /\ Ends(s, "sent") /\ out' = out - 1
    /\ UNCHANGED <<session, writer, arrived, tries>> /\ UNCHANGED reading

\* A closed session rejects ready and write; so does a writer without its lock.
SendFails(s) ==
    /\ send[s] # "idle" /\ session # "open" /\ Ends(s, "WriteError")
    /\ out' = IF send[s] = "writing" THEN out - 1 ELSE out
    /\ UNCHANGED <<session, writer, arrived, tries>> /\ UNCHANGED reading

\* The platform closes the session: reads that wait see the end.
Close ==
    /\ session = "open" /\ session' = "closed"
    /\ read' = [r \in Readers |-> IF read[r] = "pending" THEN "ended" ELSE read[r]]
    /\ UNCHANGED <<buffer, lock, inhand, got, lost, arrived, tries>> /\ UNCHANGED sending

\* native.closed settles: markClosed gives the writer's lock back.
MarkClosed ==
    /\ session = "closed" /\ session' = "marked" /\ writer' = FALSE
    /\ UNCHANGED <<out, send, result, arrived, tries>> /\ UNCHANGED reading

-----------------------------------------------------------------------------
\* A datagram arrives: the pending read gets it, else the buffer, if it has room.
Arrive ==
    /\ session = "open" /\ arrived < Incoming /\ arrived' = arrived + 1
    /\ LET d == arrived' IN
       IF lock # Free /\ read[lock] = "pending"
       THEN /\ read' = [read EXCEPT ![lock] = "resolved"] /\ inhand' = [inhand EXCEPT ![lock] = d]
            /\ UNCHANGED <<buffer, lost>>
       ELSE /\ IF Len(buffer) < HighWater THEN buffer' = Append(buffer, d) /\ UNCHANGED lost
                                         ELSE lost' = lost \cup {d} /\ UNCHANGED buffer
            /\ UNCHANGED <<read, inhand>>
    /\ UNCHANGED <<session, lock, got, tries>> /\ UNCHANGED sending

\* getReader throws on a locked readable: ReadError.
Unlocked == lock = Free

\* take, or the stream starting: getReader.
Lock(r) ==
    /\ read[r] = "idle" /\ (IF r \in Takers THEN Tries(r) ELSE UNCHANGED tries)
    /\ IF Unlocked THEN lock' = r /\ read' = [read EXCEPT ![r] = "locked"]
                   ELSE r \in Takers /\ UNCHANGED <<lock, read>>
    /\ UNCHANGED <<session, buffer, inhand, got, lost, arrived>> /\ UNCHANGED sending

\* reader.read, at once after a taker's getReader, on demand in the stream.
Read(r) ==
    /\ read[r] = "locked"
    /\ IF buffer # <<>>
       THEN /\ read' = [read EXCEPT ![r] = "resolved"] /\ buffer' = Tail(buffer)
            /\ inhand' = [inhand EXCEPT ![r] = Head(buffer)]
       ELSE /\ read' = [read EXCEPT ![r] = IF session = "open" THEN "pending" ELSE "ended"]
            /\ UNCHANGED <<buffer, inhand>>
    /\ UNCHANGED <<session, lock, got, lost, arrived, tries>> /\ UNCHANGED sending

Released(r) == IF lock = r THEN Free ELSE lock

\* The datagram reaches the application; a taker gives its lock back, the stream
\* keeps it for the next pull.
DeliverDatagram(r) ==
    /\ read[r] = "resolved" /\ got' = Append(got, inhand[r])
    /\ inhand' = [inhand EXCEPT ![r] = 0]
    /\ IF r \in Takers THEN read' = [read EXCEPT ![r] = "idle"] /\ lock' = Released(r)
                       ELSE read' = [read EXCEPT ![r] = "locked"] /\ UNCHANGED lock
    /\ UNCHANGED <<session, buffer, lost, arrived, tries>> /\ UNCHANGED sending

\* Mutant: the consumer cancels the readable, as streams of bytes do.
Cancelled == <<>>

QueueAfterStream == buffer

\* The read found the end, or the fiber is interrupted (its read is given up, with
\* the datagram it may have resolved with): the lock is given back, and the readable
\* is not cancelled.
EndRead(r) ==
    /\ read[r] # "idle" /\ (read[r] = "ended" \/ r = Consumer \/ read[r] # "locked")
    /\ read' = [read EXCEPT ![r] = "idle"] /\ lock' = Released(r)
    /\ buffer' = IF r = Consumer THEN QueueAfterStream ELSE buffer
    /\ lost' = IF inhand[r] # 0 THEN lost \cup {inhand[r]} ELSE lost
    /\ inhand' = [inhand EXCEPT ![r] = 0]
    /\ UNCHANGED <<session, got, arrived, tries>> /\ UNCHANGED sending

Rests == UNCHANGED datagramVars

DatagramsNext ==
    \/ \E s \in Senders, fits \in BOOLEAN : SendDatagram(s, fits)
    \/ \E s \in Senders : Ready(s) \/ WriteDatagram(s) \/ Sent(s) \/ SendFails(s)
    \/ \E r \in Readers : Lock(r) \/ Read(r) \/ DeliverDatagram(r) \/ EndRead(r)
    \/ Close \/ MarkClosed \/ Arrive \/ Rests

DatagramsSpec == DatagramsInit /\ [][DatagramsNext]_datagramVars

\* The runtime and the platform's promises go on; the peer owes nothing, and nobody
\* has to close, take or interrupt.
DatagramsFairness ==
    /\ WF_datagramVars(MarkClosed)
    /\ \A s \in Senders : WF_datagramVars(SendFails(s))
    /\ \A r \in Readers : WF_datagramVars(Read(r)) /\ WF_datagramVars(DeliverDatagram(r))
    /\ \A r \in Readers : WF_datagramVars(read[r] = "ended" /\ EndRead(r))

DatagramsFairSpec == DatagramsSpec /\ DatagramsFairness

----------------------------------------------------------------------------
DatagramsTypeOK ==
    /\ session \in {"open", "closed", "marked"} /\ writer \in BOOLEAN /\ out \in 0..Cardinality(Senders)
    /\ send \in [Senders -> {"idle", "waiting", "ready", "writing"}]
    /\ result \in [Senders -> {"none", "sent", "SessionClosed", "TooLarge", "WriteError"}]
    /\ buffer \in Seq(1..Incoming) /\ lock \in Readers \cup {Free}
    /\ read \in [Readers -> {"idle", "locked", "pending", "resolved", "ended"}]
    /\ inhand \in [Readers -> 0..Incoming] /\ lost \subseteq 1..Incoming

\* The readable has one consumer at a time, and nobody who is done keeps its lock:
\* the next take can have it.
LockFollowsReader == \A r \in Readers : read[r] # "idle" <=> lock = r

\* Whoever takes them, datagrams reach the application once and in order, and one is
\* missing only if the platform dropped it or its reader was interrupted: an ended
\* consumer leaves what is buffered to the next one.
DeliveredOnceInOrder ==
    /\ \A i, j \in 1..Len(got) : i < j => got[i] < got[j]
    /\ \A d \in 1..arrived :
         d \in ToSet(got) \cup ToSet(buffer) \cup lost \/ \E r \in Readers : inhand[r] = d

\* Once markClosed ran, the writable's lock is free and stays free: no send that was
\* under way, or comes late, takes the writer again.
ClosedWithoutWriter == session = "marked" => ~ writer

\* While senders, takers and a stream come, go and are interrupted: datagrams arrive once
\* and in order, the readable has one reader, and a session that closed has its locks back.
DatagramsKeepOrder ==
    DatagramsTypeOK /\ LockFollowsReader /\ DeliveredOnceInOrder /\ ClosedWithoutWriter

\* No send waits for a session that is gone, and no read does.
ClosureEndsAll ==
    /\ \A s \in Senders : session = "closed" /\ send[s] # "idle" ~> send[s] = "idle"
    /\ \A t \in Takers : session = "closed" /\ read[t] # "idle" ~> read[t] = "idle"
=============================================================================
