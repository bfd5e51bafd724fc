----------------------------- MODULE RpcWebSocket -----------------------------
(***************************************************************************)
(* The hibernating RPC transport of DurableObjectRpcWebSocket.ts: what an   *)
(* activation keeps of its sockets, what it writes into their attachments,  *)
(* and how the next activation takes the sockets over.  The RPC server and  *)
(* the clients are modelled as far as the transport relies on them.         *)
(***************************************************************************)
EXTENDS Integers, Sequences, FiniteSets

CONSTANTS
    Sockets,
    Streams,       \* request ids of declared resumable streams
    Calls,         \* request ids of everything else
    StreamKeys, KeyOf,   \* the subscription key that identify gives to a stream
    Builds,        \* deployments: the codec, and whether the stream is declared
    MaxValue,      \* bound: a stream has the values 1..MaxValue
    MaxChunk,      \* bound: values of one chunk
    MaxClients,    \* bound: client ids of one activation
    MaxRestarts,   \* bound: evictions
    Faults,        \* whether attachments, sends and handlers may fail
    NoSub, NoConnection, NoFiber, NoAttachment

Requests == Streams \cup Calls
Values == 1..MaxValue
ClientIds == 0..(MaxClients - 1)

VARIABLES
    link,          \* a socket's state at the platform
    attach,        \* its attachment: our metadata, which outlives activations
    paired,        \* whether the platform answers pings by itself
    awake, build,  \* the activation, and the deployment it runs
    connections,   \* connectionsBySocket
    resetSockets,
    nextClientId,
    fibers,        \* the RPC server's fibers, by client id and request
    disconnects,   \* client ids the RPC server has still to disconnect
    sent, awaiting, received,   \* what each client asked, awaits and has got
    restarts

platform == <<link, attach, paired>>
activation == <<awake, build, resetSockets, nextClientId, connections>>
server == <<fibers, disconnects>>
client == <<sent, awaiting, received>>
webSocketVars == <<link, attach, paired, awake, build, connections, resetSockets, nextClientId,
          fibers, disconnects, sent, awaiting, received, restarts>>

Sub == [key : StreamKeys, ack : 0..MaxValue, pending : Seq(Values)]

Connection == [id : ClientIds, version : {1, 2}, requests : SUBSET Requests,
               plain : SUBSET Requests, subs : [Streams -> Sub \cup {NoSub}],
               suppressed : SUBSET Requests, current : SUBSET Requests]

Attachment == [id : ClientIds, version : {1, 2}, busy : BOOLEAN, plain : BOOLEAN,
               subs : [Streams -> Sub \cup {NoSub}], codec : {b.codec : b \in Builds}]

Fiber == [phase : {"run", "wait", "stopping"}, next : 0..(MaxValue + 1)]

ShapeAssumption ==
    /\ KeyOf \in [Streams -> StreamKeys]
    /\ Streams \cap Calls = {}
    /\ MaxValue \in Nat /\ MaxChunk \in Nat /\ MaxClients \in Nat /\ MaxRestarts \in Nat
    /\ NoSub \notin Sub /\ NoConnection \notin Connection
    /\ NoFiber \notin Fiber /\ NoAttachment \notin Attachment

----------------------------------------------------------------------------
(* A connection and its attachment                                           *)

NoSubs == [r \in Streams |-> NoSub]

Fresh(id) == [id |-> id, version |-> 1, requests |-> {}, plain |-> {}, subs |-> NoSubs,
              suppressed |-> {}, current |-> {}]

Subscribed(conn, r) == r \in Streams /\ conn.subs[r] # NoSub

Subscriptions(subs) == {r \in Streams : subs[r] # NoSub}

\* Mutant: the pending batch is not persisted.
ImageWithoutPending(conn) ==
    [id |-> conn.id, version |-> conn.version, busy |-> conn.requests # {},
     plain |-> conn.version = 2 /\ conn.plain # {},
     subs |-> [r \in Streams |-> IF conn.subs[r] = NoSub THEN NoSub
                                 ELSE [conn.subs[r] EXCEPT !.pending = <<>>]],
     codec |-> build.codec]

\* persistConnection writes this. A version 1 attachment has no subscriptions,
\* and does not tell plain requests from others.
Image(conn) ==
    [id |-> conn.id, version |-> conn.version, busy |-> conn.requests # {},
     plain |-> conn.version = 2 /\ conn.plain # {}, subs |-> conn.subs,
     codec |-> build.codec]

\* trackRequest: identify finds a subscription only for a declared stream.
Identified(r) == r \in Streams /\ build.declared

Duplicate(conn, r) == \E q \in Subscriptions(conn.subs) : conn.subs[q].key = KeyOf[r]

Tracked(conn, r, ack) ==
    IF Identified(r)
    THEN [conn EXCEPT !.requests = @ \cup {r}, !.version = 2,
                      !.subs[r] = [key |-> KeyOf[r], ack |-> ack, pending |-> <<>>]]
    ELSE [conn EXCEPT !.requests = @ \cup {r}, !.plain = @ \cup {r}]

\* completeRequest, before it persists.
Completed(conn, r, preserveAckFilter) ==
    [conn EXCEPT !.requests = @ \ {r}, !.plain = @ \ {r}, !.current = @ \ {r},
                 !.subs = [q \in Streams |-> IF q = r THEN NoSub ELSE @[q]],
                 !.suppressed = IF preserveAckFilter
                                THEN IF Subscribed(conn, r) THEN @ \cup {r} ELSE @
                                ELSE @ \ {r}]

\* completeAllRequests.
Cleared(conn) == [Fresh(conn.id) EXCEPT !.version = conn.version]

\* send, for a chunk of a subscription.
WithPending(conn, r, values) ==
    [conn EXCEPT !.subs[r].pending = values, !.current = @ \cup {r}]

\* Mutant: the last checkpoint of a batch leaves the request pending.
CheckpointedKeepingCurrent(conn, r, i) ==
    LET pending == conn.subs[r].pending
    IN  [conn EXCEPT !.subs[r].ack = pending[i],
                     !.subs[r].pending = SubSeq(pending, i + 1, Len(pending))]

\* checkpoint, for the token at place i of the pending batch: the batch loses the
\* tokens up to there, and with the last one the request is no longer pending.
Checkpointed(conn, r, i) ==
    LET pending == conn.subs[r].pending
    IN  [conn EXCEPT !.subs[r].ack = pending[i],
                     !.subs[r].pending = SubSeq(pending, i + 1, Len(pending)),
                     !.current = IF i = Len(pending) THEN @ \ {r} ELSE @]

----------------------------------------------------------------------------
(* Sockets                                                                   *)

Registered == {s \in Sockets : connections[s] # NoConnection}

\* Mutant: pings are left to the object while its sockets are idle.
SyncedWhenBusy(conns) ==
    \E s \in Sockets : conns[s] # NoConnection /\ conns[s].requests # {}

\* syncHeartbeat.
Synced(conns) == \E s \in Sockets : conns[s] # NoConnection

\* A step that keeps the socket: its connection, what is persisted of it, and
\* what its client still awaits.
Keep(s, conn, image, awaits) ==
    /\ connections' = [connections EXCEPT ![s] = conn]
    /\ attach' = [attach EXCEPT ![s] = image]
    /\ awaiting' = [awaiting EXCEPT ![s] = awaits]
    /\ paired' = Synced(connections')
    /\ UNCHANGED <<link, resetSockets, disconnects>>

\* Mutant: the RPC server is not told.
DropSilently(s, image) ==
    /\ connections' = [connections EXCEPT ![s] = NoConnection]
    /\ attach' = [attach EXCEPT ![s] = image]
    /\ awaiting' = [awaiting EXCEPT ![s] = {}]
    /\ link' = [link EXCEPT ![s] = "closing"]
    /\ resetSockets' = resetSockets \cup {s}
    /\ UNCHANGED disconnects
    /\ paired' = Synced(connections')

\* resetSocket, and unregister in it. The client sees the close and fails what
\* it awaits. The attachment stays as it was last written.
Drop(s, image) ==
    /\ connections' = [connections EXCEPT ![s] = NoConnection]
    /\ attach' = [attach EXCEPT ![s] = image]
    /\ awaiting' = [awaiting EXCEPT ![s] = {}]
    /\ link' = [link EXCEPT ![s] = "closing"]
    /\ resetSockets' = resetSockets \cup {s}
    /\ disconnects' = disconnects \cup
                        (IF connections[s] = NoConnection THEN {} ELSE {connections[s].id})
    /\ paired' = Synced(connections')

\* persistOrReset.
PersistOrReset(s, conn, awaits) ==
    \/ Keep(s, conn, Image(conn), awaits)
    \/ Faults /\ Drop(s, attach[s])

SocketOf(c) == {s \in Registered : connections[s].id = c}

\* A send on a socket that is closing fails.
Sendable(s) == link[s] = "open"

----------------------------------------------------------------------------
WebSocketInit ==
    /\ link = [s \in Sockets |-> "unused"]
    /\ attach = [s \in Sockets |-> NoAttachment]
    /\ paired = FALSE
    /\ awake = TRUE
    /\ build \in Builds
    /\ connections = [s \in Sockets |-> NoConnection]
    /\ resetSockets = {}
    /\ nextClientId = 0
    /\ fibers = [c \in ClientIds |-> [r \in Requests |-> NoFiber]]
    /\ disconnects = {}
    /\ sent = [s \in Sockets |-> {}]
    /\ awaiting = [s \in Sockets |-> {}]
    /\ received = [s \in Sockets |-> [k \in StreamKeys |-> 0]]
    /\ restarts = 0

\* A socket's first metadata, of version 1.
reserveClientId(s) ==
    /\ nextClientId \in ClientIds /\ nextClientId' = nextClientId + 1
    /\ attach' = [attach EXCEPT ![s] = Image(Fresh(nextClientId))]

\* accept, of an upgrade: register reserves a client id.
Accept(s) ==
    /\ awake /\ link[s] = "unused" /\ reserveClientId(s)
    /\ link' = [link EXCEPT ![s] = "open"]
    /\ connections' = [connections EXCEPT ![s] = Fresh(nextClientId)]
    /\ paired' = Synced(connections')
    /\ UNCHANGED <<awake, build, resetSockets, server, client, restarts>>

\* message events of a socket that was reset are dropped. A frame of several
\* messages is handled like as many frames.
Hears(s) == /\ awake /\ s \in Registered /\ s \notin resetSockets
            /\ link[s] \in {"open", "closing"}

SetFiber(c, r, f) == fibers' = [fibers EXCEPT ![c][r] = f]

Quiet == UNCHANGED <<awake, build, nextClientId, restarts>>

\* message, a Request: it is tracked and persisted before it reaches the server.
\* The client asks a stream to go on behind some value it has processed.
Request(s, r) ==
    /\ Hears(s) /\ r \notin sent[s]
    /\ sent' = [sent EXCEPT ![s] = @ \cup {r}]
    /\ LET conn == connections[s]
           awaits == IF Sendable(s) THEN awaiting[s] \cup {r} ELSE awaiting[s]
       IN  \/ /\ Identified(r) /\ Duplicate(conn, r)
              /\ Drop(s, attach[s])
              /\ UNCHANGED fibers
           \/ \E ack \in IF r \in Streams THEN 0..received[s][KeyOf[r]] ELSE {0} :
                /\ ~ (Identified(r) /\ Duplicate(conn, r))
                /\ Keep(s, Tracked(conn, r, ack), Image(Tracked(conn, r, ack)), awaits)
                /\ SetFiber(conn.id, r, [phase |-> "run",
                                         next |-> IF Identified(r) THEN ack + 1 ELSE 0])
           \/ Faults /\ Drop(s, attach[s]) /\ UNCHANGED fibers
    /\ UNCHANGED received /\ Quiet

\* Mutant: stock acknowledgements reach the server for every request.
AckFilterOff(conn, r) == TRUE

\* message, an Ack that the client's protocol sends on its own: it opens the
\* latch of the request's fiber, unless checkpoints stand for it.
AckPasses(conn, r) == ~ Subscribed(conn, r) /\ r \notin conn.suppressed

Ack(s, r) ==
    /\ Hears(s) /\ AckPasses(connections[s], r)
    /\ fibers[connections[s].id][r] # NoFiber
    /\ fibers[connections[s].id][r].phase = "wait"
    /\ SetFiber(connections[s].id, r, [fibers[connections[s].id][r] EXCEPT !.phase = "run"])
    /\ UNCHANGED <<platform, disconnects, connections, resetSockets, client>> /\ Quiet

\* message, an Interrupt: the request is completed and persisted at once, a subscription
\* before the server hears of it, keeping the filter for late acknowledgements, anything
\* else after; the fiber stops at its own pace, and its Exit completes nothing more.
InterruptRequest(s, r) ==
    /\ Hears(s) /\ r \in awaiting[s]
    /\ LET conn == connections[s] IN
         /\ fibers[conn.id][r] # NoFiber
         /\ SetFiber(conn.id, r, [fibers[conn.id][r] EXCEPT !.phase = "stopping"])
         /\ PersistOrReset(s, Completed(conn, r, Subscribed(conn, r)), awaiting[s] \ {r})
    /\ UNCHANGED <<sent, received>> /\ Quiet

\* checkpoint, called by the application for a value its client has reported.
\* Reports may be late and repeated; one that names no pending value changes
\* nothing. The last one of a batch stands for the acknowledgement.
Checkpoint(s, r, v) ==
    /\ awake /\ s \in Registered /\ Subscribed(connections[s], r)
    /\ v <= received[s][KeyOf[r]]
    /\ \E i \in DOMAIN connections[s].subs[r].pending :
         LET conn == connections[s]
             next == Checkpointed(conn, r, i)
             f == fibers[conn.id][r]
         IN  /\ conn.subs[r].pending[i] = v
             /\ \/ /\ Keep(s, next, Image(next), awaiting[s])
                   /\ IF r \in conn.current \ next.current /\ f # NoFiber /\ f.phase = "wait"
                      THEN SetFiber(conn.id, r, [f EXCEPT !.phase = "run"])
                      ELSE UNCHANGED fibers
                \/ Faults /\ Drop(s, attach[s]) /\ UNCHANGED fibers
    /\ UNCHANGED <<sent, received>> /\ Quiet

\* send, a Chunk: the pending batch is persisted before the values leave. A chunk
\* that cannot be encoded becomes a Defect, which ends every request of the
\* client; a failed send resets the socket.
SendChunk(s, r, values) ==
    LET conn == connections[s]
        tracked == IF Subscribed(conn, r) THEN WithPending(conn, r, values) ELSE conn
        image == IF Subscribed(conn, r) THEN Image(tracked) ELSE attach[s]
    IN  \/ /\ Sendable(s)
           /\ Keep(s, tracked, image, awaiting[s])
           /\ received' = IF Subscribed(conn, r) /\ values[Len(values)] > received[s][KeyOf[r]]
                          THEN [received EXCEPT ![s][KeyOf[r]] = values[Len(values)]]
                          ELSE received
        \/ /\ Sendable(s) /\ Faults
           /\ Keep(s, Cleared(conn), IF conn.requests = {} THEN image ELSE Image(Cleared(conn)),
                   {})
           /\ UNCHANGED received
        \/ /\ Faults \/ ~ Sendable(s)
           /\ \E saved \in IF Faults THEN {attach[s], image} ELSE {image} : Drop(s, saved)
           /\ UNCHANGED received

Batches(f) ==
    IF f.next = 0 THEN {<<>>}
    ELSE {[i \in 1..n |-> f.next + i - 1] : n \in {m \in 1..MaxChunk : f.next + m - 1 <= MaxValue}}

\* The RPC server pulls values, sends them, and waits for the acknowledgement.
Emit(c, r) ==
    /\ awake /\ fibers[c][r] # NoFiber /\ fibers[c][r].phase = "run"
    /\ \E values \in Batches(fibers[c][r]) :
         /\ SetFiber(c, r, [phase |-> "wait", next |-> fibers[c][r].next + Len(values)])
         /\ IF SocketOf(c) = {}
            THEN UNCHANGED <<platform, connections, resetSockets, disconnects, awaiting, received>>
            ELSE \E s \in SocketOf(c) : SendChunk(s, r, values)
    /\ UNCHANGED sent /\ Quiet

\* send, an Exit, and completeRequest after it.
SendExit(s, r) ==
    LET done == Completed(connections[s], r, FALSE)
    IN  \/ /\ Sendable(s)
           /\ IF r \in connections[s].requests
              THEN PersistOrReset(s, done, awaiting[s] \ {r})
              ELSE Keep(s, [connections[s] EXCEPT !.suppressed = @ \ {r}], attach[s],
                        awaiting[s] \ {r})
        \/ /\ Faults \/ ~ Sendable(s)
           /\ Drop(s, attach[s])

\* A fiber ends: a call returns, a stream is exhausted or fails, an interrupted
\* fiber has stopped.
FinishRequest(c, r) ==
    /\ awake /\ fibers[c][r] # NoFiber
    /\ \/ fibers[c][r].phase = "stopping"
       \/ /\ fibers[c][r].phase = "run"
          /\ fibers[c][r].next = 0 \/ fibers[c][r].next > MaxValue \/ Faults
    /\ SetFiber(c, r, NoFiber)
    /\ IF SocketOf(c) = {}
       THEN UNCHANGED <<platform, connections, resetSockets, disconnects, awaiting>>
       ELSE \E s \in SocketOf(c) : SendExit(s, r)
    /\ UNCHANGED <<sent, received>> /\ Quiet

\* The RPC server takes a client id off disconnects and stops its fibers.
Disconnect(c) ==
    /\ awake /\ c \in disconnects
    /\ disconnects' = disconnects \ {c}
    /\ fibers' = [fibers EXCEPT ![c] = [r \in Requests |-> NoFiber]]
    /\ UNCHANGED <<platform, connections, resetSockets, client>> /\ Quiet

\* The client leaves.
Leave(s) ==
    /\ link[s] = "open"
    /\ link' = [link EXCEPT ![s] = "closing"]
    /\ awaiting' = [awaiting EXCEPT ![s] = {}]
    /\ UNCHANGED <<attach, paired, activation, server, sent, received, restarts>>

\* close: the platform reports the end of a socket.
CloseSocket(s) ==
    /\ awake /\ link[s] = "closing"
    /\ connections' = [connections EXCEPT ![s] = NoConnection]
    /\ link' = [link EXCEPT ![s] = "closed"]
    /\ resetSockets' = resetSockets \cup {s}
    /\ disconnects' = disconnects \cup (IF s \in Registered THEN {connections[s].id} ELSE {})
    /\ paired' = IF s \in Registered THEN Synced(connections') ELSE paired
    /\ UNCHANGED <<attach, fibers, client>> /\ Quiet

\* error: the platform reports a broken socket.
Error(s) ==
    /\ Faults /\ awake /\ link[s] = "open"
    /\ Drop(s, attach[s])
    /\ UNCHANGED <<fibers, sent, received>> /\ Quiet

\* message, a frame that cannot be decoded: one that is too large closes the
\* socket; otherwise a Defect is sent, which ends every request of the client.
BadFrame(s) ==
    /\ Faults /\ Hears(s)
    /\ LET conn == connections[s] IN
         \/ /\ link' = [link EXCEPT ![s] = "closing"]
            /\ awaiting' = [awaiting EXCEPT ![s] = {}]
            /\ UNCHANGED <<attach, paired, connections, resetSockets, disconnects>>
         \/ /\ Sendable(s)
            /\ Keep(s, Cleared(conn),
                    IF conn.requests = {} THEN attach[s] ELSE Image(Cleared(conn)), {})
         \/ Drop(s, attach[s])
    /\ UNCHANGED <<fibers, sent, received>> /\ Quiet

\* Hibernation, eviction or a deployment: the activation is gone.
Hibernate ==
    /\ awake /\ restarts < MaxRestarts
    /\ restarts' = restarts + 1
    /\ awake' = FALSE
    /\ connections' = [s \in Sockets |-> NoConnection]
    /\ resetSockets' = {} /\ nextClientId' = 0 /\ disconnects' = {}
    /\ fibers' = [c \in ClientIds |-> [r \in Requests |-> NoFiber]]
    /\ UNCHANGED <<platform, build, client>>

----------------------------------------------------------------------------
(* The next activation                                                       *)

\* What an activation reads of its own key: nothing, or metadata of either version.
readAttachment(s) == IF attach[s] = NoAttachment THEN "Missing" ELSE "Valid"

\* Mutant: plain requests do not count.
IntactIfDeclared(s, b) ==
    /\ attach[s] # NoAttachment /\ attach[s].codec = b.codec
    /\ attach[s].version = 1 => ~ attach[s].busy
    /\ attach[s].version = 2 =>
         (Subscriptions(attach[s].subs) # {} => b.declared)

\* Whether a socket can be taken over: nothing is lost with the old activation,
\* and every subscription is still declared.
Intact(s, b) ==
    /\ readAttachment(s) = "Valid" /\ attach[s].codec = b.codec
    /\ attach[s].version = 1 => ~ attach[s].busy
    /\ attach[s].version = 2 =>
         /\ ~ attach[s].plain
         /\ attach[s].busy <=> Subscriptions(attach[s].subs) # {}
         /\ Subscriptions(attach[s].subs) # {} => b.declared

\* register, with the metadata of an attachment.
Restored(s) ==
    [Fresh(attach[s].id) EXCEPT !.version = attach[s].version, !.subs = attach[s].subs,
                                !.requests = Subscriptions(attach[s].subs)]

LastId(kept) == CHOOSE c \in ClientIds : /\ \E s \in kept : attach[s].id = c
                                         /\ \A s \in kept : attach[s].id <= c

\* Mutant: restored client ids are not reserved.
NextIdFromZero(kept) == 0

NextId(kept) == IF kept = {} THEN 0 ELSE LastId(kept) + 1

\* Mutant: the replay goes on behind the pending batch.
ReplayedBehindPending(kept, c, r) ==
    IF \E s \in kept : attach[s].id = c /\ Subscribed(attach[s], r)
    THEN LET sub == attach[CHOOSE s \in kept : attach[s].id = c].subs[r]
         IN  [phase |-> "run", next |-> sub.ack + Len(sub.pending) + 1]
    ELSE NoFiber

\* rebuild: the request of a subscription goes on behind its checkpoint.
Replayed(kept, c, r) ==
    IF \E s \in kept : attach[s].id = c /\ Subscribed(attach[s], r)
    THEN [phase |-> "run",
          next |-> attach[CHOOSE s \in kept : attach[s].id = c].subs[r].ack + 1]
    ELSE NoFiber

\* The layer is built. The platform still lists open sockets, and may list
\* closing ones. Of sockets with the same client id one is kept; of idle sockets
\* of version 1, whose attachment is written again, any may fail. Requests of
\* subscriptions are rebuilt from their checkpoint and replayed.
Wake ==
    /\ ~ awake /\ awake' = TRUE
    /\ \E b \in Builds, closing \in SUBSET {s \in Sockets : link[s] = "closing"} :
         LET listed == {s \in Sockets : link[s] = "open"} \cup closing
             intact == {s \in listed : Intact(s, b)}
         IN  \E kept \in SUBSET intact :
               /\ \A s, t \in kept : attach[s].id = attach[t].id => s = t
               /\ \A s \in intact \ kept :
                    \/ \E t \in kept : attach[s].id = attach[t].id
                    \/ Faults /\ attach[s].version = 1
               /\ build' = b
               /\ connections' = [s \in Sockets |-> IF s \in kept THEN Restored(s)
                                                    ELSE NoConnection]
               /\ resetSockets' = listed \ kept
               /\ nextClientId' = NextId(kept)
               /\ link' = [s \in Sockets |-> IF s \in listed \ kept THEN "closing" ELSE link[s]]
               /\ awaiting' = [s \in Sockets |-> IF s \in listed \ kept THEN {} ELSE awaiting[s]]
               /\ fibers' = [c \in ClientIds |-> [r \in Requests |-> Replayed(kept, c, r)]]
               /\ paired' = Synced(connections')
    /\ UNCHANGED <<attach, disconnects, sent, received, restarts>>

----------------------------------------------------------------------------
WebSocketNext ==
    \/ \E s \in Sockets : Accept(s) \/ Leave(s) \/ CloseSocket(s) \/ Error(s) \/ BadFrame(s)
    \/ \E s \in Sockets, r \in Requests : Request(s, r) \/ Ack(s, r) \/ InterruptRequest(s, r)
    \/ \E s \in Sockets, r \in Streams, v \in Values : Checkpoint(s, r, v)
    \/ \E c \in ClientIds, r \in Requests : Emit(c, r) \/ FinishRequest(c, r)
    \/ \E c \in ClientIds : Disconnect(c)
    \/ Hibernate
    \/ Wake

WebSocketSpec == WebSocketInit /\ [][WebSocketNext]_webSocketVars

\* The runtime continues a fiber that can continue and drains its queue, the
\* platform reports a closed socket and wakes the object, and a client reports
\* every value it receives, replayed ones too.
WebSocketFairness ==
    /\ \A c \in ClientIds, r \in Requests : WF_webSocketVars(Emit(c, r)) /\ WF_webSocketVars(FinishRequest(c, r))
    /\ \A c \in ClientIds : WF_webSocketVars(Disconnect(c))
    /\ \A s \in Sockets, r \in Requests : WF_webSocketVars(Ack(s, r))
    /\ \A s \in Sockets, r \in Streams, v \in Values : WF_webSocketVars(Checkpoint(s, r, v))
    /\ \A s \in Sockets : WF_webSocketVars(CloseSocket(s))
    /\ WF_webSocketVars(Wake)

WebSocketFairSpec == WebSocketSpec /\ WebSocketFairness

----------------------------------------------------------------------------
(* Properties                                                                *)

WebSocketTypeOK ==
    /\ link \in [Sockets -> {"unused", "open", "closing", "closed"}]
    /\ attach \in [Sockets -> Attachment \cup {NoAttachment}]
    /\ paired \in BOOLEAN /\ awake \in BOOLEAN /\ build \in Builds
    /\ connections \in [Sockets -> Connection \cup {NoConnection}]
    /\ resetSockets \subseteq Sockets
    /\ nextClientId \in 0..MaxClients
    /\ fibers \in [ClientIds -> [Requests -> Fiber \cup {NoFiber}]]
    /\ disconnects \subseteq ClientIds
    /\ sent \in [Sockets -> SUBSET Requests]
    /\ awaiting \in [Sockets -> SUBSET Requests]
    /\ received \in [Sockets -> [StreamKeys -> 0..MaxValue]]
    /\ restarts \in 0..MaxRestarts

\* The object may be evicted between any two steps, so what a connection knows
\* of its requests and subscriptions is in its attachment whenever it rests
\* (persistConnection after every change).
AttachmentAgrees ==
    \A s \in Registered :
      LET conn == connections[s] IN
      /\ attach[s].id = conn.id
      /\ attach[s].version = conn.version
      /\ attach[s].subs = conn.subs
      /\ attach[s].busy <=> conn.requests # {}
      /\ conn.version = 2 => (attach[s].plain <=> conn.requests # Subscriptions(conn.subs))

\* A stream waits for an acknowledgement exactly while its current batch has
\* values to be checkpointed: it neither runs ahead of its client, nor waits for
\* a checkpoint that cannot come (shouldAck in checkpoint, the filter of Acks).
LatchFollowsCheckpoint ==
    \A s \in Registered, r \in Streams :
      LET conn == connections[s] IN
      (Subscribed(conn, r) /\ fibers[conn.id][r] # NoFiber) =>
        /\ fibers[conn.id][r].phase = "wait" <=> r \in conn.current
        /\ r \in conn.current => conn.subs[r].pending # <<>>

\* What a client awaits on an open socket is either being worked on or recorded
\* as lost: a call that the server forgot never keeps its client waiting on a
\* socket that looks healthy.
NoLostCalls ==
    \A s \in Sockets : \A r \in awaiting[s] :
      IF awake
      THEN /\ s \in Registered
           /\ r \in connections[s].requests
           /\ fibers[connections[s].id][r] # NoFiber
      ELSE attach[s].busy /\ (attach[s].version = 2 =>
                                 Subscribed(attach[s], r) \/ attach[s].plain)

\* A checkpoint never passes what the client received, and a subscribed stream
\* goes on no further than one value behind it: no restart, late or repeated
\* checkpoint makes the client miss a value.
NothingSkipped ==
    \A s \in Sockets :
      /\ attach[s] # NoAttachment =>
           \A r \in Subscriptions(attach[s].subs) :
             attach[s].subs[r].ack <= received[s][attach[s].subs[r].key]
      /\ s \in Registered =>
           \A r \in Subscriptions(connections[s].subs) :
             LET f == fibers[connections[s].id][r]
             IN  f # NoFiber => f.next <= received[s][KeyOf[r]] + 1

\* An open socket is registered with the running activation, a registered socket
\* was not reset, and no two have the same client id: every message is handled,
\* for the client that sent it.
OpenIsRegistered ==
    /\ awake => \A s \in Sockets : link[s] = "open" => s \in Registered
    /\ \A s \in Registered :
         /\ s \notin resetSockets
         /\ connections[s].id < nextClientId
         /\ \A t \in Registered : connections[s].id = connections[t].id => s = t

\* The platform answers pings while any socket is open, also while the object
\* sleeps: keepalives do not wake it.
PairWhileOpen == (\E s \in Sockets : link[s] = "open") => paired

\* The server works for registered clients and for those it is about to
\* disconnect.
NoOrphanFibers ==
    \A c \in ClientIds : (\E r \in Requests : fibers[c][r] # NoFiber) =>
      SocketOf(c) # {} \/ c \in disconnects

\* Evicted between any two steps, an object can go on with its sockets: attachments
\* say what connections knew, streams wait for a checkpoint exactly while one is owed
\* and skip nothing, no client waits for a call the object forgot, ids stay distinct,
\* the keepalive pair holds, and no fiber is left without a client.
SocketsSurviveHibernation ==
    /\ WebSocketTypeOK
    /\ AttachmentAgrees
    /\ LatchFollowsCheckpoint
    /\ NoLostCalls
    /\ NothingSkipped
    /\ OpenIsRegistered
    /\ PairWhileOpen
    /\ NoOrphanFibers

\* A client that reports what it receives gets its whole stream, across
\* evictions, unless it gives the stream up or the socket ends.
StreamsComplete ==
    \A s \in Sockets, r \in Streams :
      (r \in awaiting[s]) ~> (r \notin awaiting[s])
=============================================================================
