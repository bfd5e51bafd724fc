---------------------------- MODULE SocketAttachments ----------------------------
(* Hibernating sockets of a Durable Object and what is attached to them, as        *)
(* DurableObjectWebSocket.ts accepts, labels and restores them.  The platform keeps *)
(* the sockets, their tags, their attachments and the keepalive pair across an      *)
(* eviction; the Object keeps nothing.  Attachments are told apart by the schema    *)
(* that decodes them; one stored raw may be of no schema at all.                    *)
EXTENDS Naturals, Sequences, SequencesExt, FiniteSets

CONSTANTS Sockets, Schemas, NoTag,
          Keepalives,    \* keepalive pairs the constructors of the Object install
          Calls,         \* rehydrate calls: [schema, tag, onInvalid]
          MaxHibernations   \* bound: evictions of the Object

Missing == "missing"
Garbled == "garbled"     \* stored, and of no schema
NoCall == [schema |-> NoTag, tag |-> NoTag, onInvalid |-> "idle"]
NoPair == "no pair"

AttachmentsAssumption ==
  /\ IsFiniteSet(Sockets) /\ MaxHibernations \in Nat
  /\ {Missing, Garbled, NoTag} \cap Schemas = {}
  /\ Calls \subseteq [schema : Schemas, tag : Schemas \cup {NoTag},
                      onInvalid : {"ignore", "ignore-and-close", "fail"}]

\* A call that closes what it cannot read names its own schema's tag; without, it
\* closes the sockets of other schemas too.
ClosesItsOwn == \A c \in Calls : c.onInvalid = "ignore-and-close" => c.tag = c.schema

VARIABLES state,       \* of each socket: fresh, open, closed by the peer, rejected by rehydrate
          tag,         \* the tag each accepted socket has
          attached,    \* the attachment each socket carries
          autoResponse, \* the keepalive pair the platform answers
          installed,   \* whether this instance's constructor installed its pair
          call, todo, restored, \* the rehydrate call under way, its sockets still to read, and its result
          listed,      \* history: the attachments of the listed sockets when the call began
          promised,    \* history: sockets accepted with an attachment
          answering,   \* history: the pair in force when each socket was accepted
          hibernations

attachmentVars == <<state, tag, attached, autoResponse, installed, call, todo, restored, listed, promised, answering, hibernations>>
socketVars == <<state, tag, attached, promised, answering>>
loopVars == <<call, todo, restored, listed>>

Idle == call = NoCall /\ todo = <<>> /\ restored = <<>> /\ listed = <<>>
AttachmentsInit ==
  /\ state = [s \in Sockets |-> "fresh"]
  /\ tag = [s \in Sockets |-> NoTag]
  /\ attached = [s \in Sockets |-> Missing]
  /\ autoResponse = NoPair /\ installed = FALSE
  /\ Idle
  /\ promised = {} /\ answering = [s \in Sockets |-> NoPair]
  /\ hibernations = 0

(* installKeepalive, in the constructor: a different pair in force ends it. *)
\* A mutant: the pair is replaced.
InstallOver(pair) ==
  /\ ~installed
  /\ autoResponse' = pair /\ installed' = TRUE
  /\ UNCHANGED <<socketVars, loopVars, hibernations>>
InstallKeepalive(pair) ==
  /\ ~installed
  /\ autoResponse \in {NoPair, pair}
  /\ autoResponse' = pair /\ installed' = TRUE
  /\ UNCHANGED <<socketVars, loopVars, hibernations>>

(* acceptUpgrade with an attachment: what cannot be serialized is not accepted. *)
\* A mutant: the socket is accepted before its attachment is serialized.
AcceptThenAttach(s, t, value) ==
  /\ state[s] = "fresh"
  /\ state' = [state EXCEPT ![s] = "open"] /\ tag' = [tag EXCEPT ![s] = t]
  /\ attached' \in {attached, [attached EXCEPT ![s] = value]}
  /\ promised' = promised \cup {s} /\ answering' = [answering EXCEPT ![s] = autoResponse]
  /\ UNCHANGED <<autoResponse, installed, loopVars, hibernations>>
Accept(s, t, value) ==
  /\ state[s] = "fresh"
  /\ state' = [state EXCEPT ![s] = "open"] /\ tag' = [tag EXCEPT ![s] = t]
  /\ attached' = [attached EXCEPT ![s] = value]
  /\ promised' = promised \cup {s} /\ answering' = [answering EXCEPT ![s] = autoResponse]
  /\ UNCHANGED <<autoResponse, installed, loopVars, hibernations>>

(* acceptUpgrade without one: the Object means to attach it later. *)
AcceptBare(s, t) ==
  /\ state[s] = "fresh"
  /\ state' = [state EXCEPT ![s] = "open"] /\ tag' = [tag EXCEPT ![s] = t]
  /\ answering' = [answering EXCEPT ![s] = autoResponse]
  /\ UNCHANGED <<attached, promised, autoResponse, installed, loopVars, hibernations>>

(* serialize: encoded by the schema first, so that a failure leaves the old one. *)
Serialize(s, schema) ==
  /\ state[s] = "open" /\ tag[s] = schema
  /\ attached' = [attached EXCEPT ![s] = schema]
  /\ UNCHANGED <<state, tag, promised, answering, autoResponse, installed, loopVars, hibernations>>

PeerCloses(s) ==
  /\ state[s] = "open"
  /\ state' = [state EXCEPT ![s] = "closed"]
  /\ UNCHANGED <<tag, attached, promised, answering, autoResponse, installed, loopVars, hibernations>>

Hibernate ==
  /\ hibernations < MaxHibernations /\ hibernations' = hibernations + 1
  /\ installed' = FALSE
  /\ call' = NoCall /\ todo' = <<>> /\ restored' = <<>> /\ listed' = <<>>
  /\ UNCHANGED <<socketVars, autoResponse>>

-----------------------------------------------------------------------------
(* rehydrate lists the sockets once and reads them one by one; other handlers and *)
(* peers may act in between.                                                       *)
Selected(c) == {s \in Sockets : state[s] = "open" /\ c.tag \in {NoTag, tag[s]}}

Rehydrate(c) ==
  /\ call = NoCall
  /\ call' = c /\ todo' = SetToSeq(Selected(c)) /\ restored' = <<>>
  /\ listed' = [s \in Selected(c) |-> attached[s]]
  /\ UNCHANGED <<socketVars, autoResponse, installed, hibernations>>

\* A mutant: an absent attachment is decoded like any other.
MissingIsInvalid(s) == attached[s] # call.schema
IsInvalid(s) == attached[s] \notin {Missing, call.schema}

\* A mutant: reading stops at the first invalid socket.
ReadUntilInvalid ==
  /\ call # NoCall /\ todo # <<>>
  /\ restored' = IF attached[Head(todo)] = call.schema THEN Append(restored, Head(todo)) ELSE restored
  /\ todo' = IF IsInvalid(Head(todo)) THEN <<>> ELSE Tail(todo)
  /\ UNCHANGED <<socketVars, autoResponse, installed, call, listed, hibernations>>
ReadNext ==
  /\ call # NoCall /\ todo # <<>>
  /\ LET s == Head(todo) IN
       /\ restored' = IF attached[s] = call.schema THEN Append(restored, s) ELSE restored
       /\ ~(IsInvalid(s) /\ call.onInvalid = "fail")
       \* A close that fails is ignored.
       /\ state' \in IF IsInvalid(s) /\ call.onInvalid = "ignore-and-close" /\ state[s] = "open"
                     THEN {state, [state EXCEPT ![s] = "rejected"]} ELSE {state}
  /\ todo' = Tail(todo)
  /\ UNCHANGED <<tag, attached, promised, answering, autoResponse, installed, call, listed, hibernations>>

(* The first invalid attachment fails the call. *)
FailRead ==
  /\ call # NoCall /\ todo # <<>>
  /\ IsInvalid(Head(todo)) /\ call.onInvalid = "fail"
  /\ call' = NoCall /\ todo' = <<>> /\ restored' = <<>> /\ listed' = <<>>
  /\ UNCHANGED <<socketVars, autoResponse, installed, hibernations>>

Return ==
  /\ call # NoCall /\ todo = <<>>
  /\ call' = NoCall /\ restored' = <<>> /\ listed' = <<>>
  /\ UNCHANGED <<todo, socketVars, autoResponse, installed, hibernations>>

AttachmentsNext ==
  \/ \E p \in Keepalives : InstallKeepalive(p)
  \/ \E s \in Sockets :
       \/ \E t \in Schemas : AcceptBare(s, t) \/ Serialize(s, t) \/ Accept(s, t, t) \/ Accept(s, t, Garbled)
       \/ PeerCloses(s)
  \/ \E c \in Calls : Rehydrate(c)
  \/ ReadNext \/ FailRead \/ Return \/ Hibernate

AttachmentsSpec == AttachmentsInit /\ [][AttachmentsNext]_attachmentVars

-----------------------------------------------------------------------------
(* Variables stay in their domains; a call holds each socket once. *)
AttachmentsTypeOK ==
  /\ state \in [Sockets -> {"fresh", "open", "closed", "rejected"}]
  /\ attached \in [Sockets -> Schemas \cup {Missing, Garbled}] /\ tag \in [Sockets -> Schemas \cup {NoTag}]
  /\ autoResponse \in Keepalives \cup {NoPair} /\ hibernations \in 0..MaxHibernations
  /\ ToSet(restored) \cap ToSet(todo) = {} /\ IsInjective(restored \o todo)
  /\ ToSet(restored \o todo) \subseteq DOMAIN listed

(* acceptUpgrade serializes before it accepts: no crash and no failure leaves a    *)
(* socket that was to carry an attachment accepted without one.                    *)
AcceptedIsAttached == \A s \in promised : attached[s] # Missing

(* rehydrate closes a socket only for an attachment it cannot read: never one that *)
(* has none yet, and with a tag never one that another schema labelled.            *)
OnlyGarbledAreRejected == \A s \in Sockets : state[s] = "rejected" => attached[s] = Garbled

(* What rehydrate has read so far is complete: each listed socket that carried a   *)
(* readable attachment from the start is restored, whatever its neighbours carry,  *)
(* and whatever is restored carries one of the call's schema.                      *)
ReadableAreRestored ==
  call # NoCall =>
    /\ {s \in DOMAIN listed : listed[s] = call.schema} \ ToSet(todo) \subseteq ToSet(restored)
    /\ \A s \in ToSet(restored) : attached[s] = call.schema

(* "The pair applies to all hibernating sockets": the pair a socket was accepted   *)
(* under stays in force, whatever a later constructor would install.               *)
KeepaliveHolds == \A s \in Sockets : answering[s] \in {NoPair, autoResponse}

(* Rehydration restores every readable socket and rejects garbled ones only, what  *)
(* was promised at acceptance is attached, and the keepalive pair holds.           *)
SocketsComeBack ==
  /\ AttachmentsTypeOK
  /\ AcceptedIsAttached
  /\ OnlyGarbledAreRejected
  /\ ReadableAreRestored
  /\ KeepaliveHolds
=============================================================================
