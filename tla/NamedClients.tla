------------------------------ MODULE NamedClients ------------------------------
(***************************************************************************)
(* Clients of named sandboxes and containers (Sandbox.ts, ContainerNamespace.ts) *)
(* over the native targets of one event.  Sandboxes share one adapter of their *)
(* namespace, which is the target a failure discards, and have a native stub   *)
(* each; a container's stub is its own target.  Clients look their target up    *)
(* anew for every operation; process and terminal handles, and the clients of  *)
(* getByName, stay with the target they came from.                             *)
(***************************************************************************)
EXTENDS Naturals, FiniteSets

CONSTANTS
    Sandboxes, Containers,  \* names
    Fibers,
    MaxTargets,             \* bound: targets constructed
    MaxHandles,             \* bound: handles alive at once
    None

BoundsAssumption == MaxTargets \in Nat /\ MaxHandles \in Nat
\* The adapter that the sandboxes share is an object of its own.
NamesAssumption == Sandboxes \cap Containers = {} /\ "sandbox-namespace" \notin Containers

Names == Sandboxes \union Containers
Targets == 1..MaxTargets
\* Undefined is no target.
NoneAssumption == None \notin Targets
Kinds == {"plain", "handle", "stream"}

\* What a process or terminal handle closes over: its sandbox, the target it was made
\* by and the stub, all of which each of its operations uses again.
Handles == [name : Names, target : Targets, through : Targets]

\* Mutant: everything has the address of the adapter.
OneAddress(n) == "sandbox-namespace"

\* The address of a name's target among those of the event.
Address(n) == IF n \in Sandboxes THEN "sandbox-namespace" ELSE n
Addresses == {Address(n) : n \in Names}

VARIABLES
    open,     \* the event's scope is open
    cached,   \* address -> target or None
    made,     \* targets constructed
    address,  \* target -> the address it was constructed for
    known,    \* targets the event has under an address
    stubs,    \* target -> sandboxes -> the target its stub was constructed through
    fresh,    \* history: target -> name -> stubs constructed through it
    op,       \* fiber -> its operation: [at, kind, name, target, through]
    handles,  \* [name, target, through] of the handles and clients alive
    failed    \* history: targets an operation has failed on

vars == <<open, cached, made, address, known, stubs, fresh, op, handles, failed>>

Idle == [at |-> "idle", kind |-> "plain", name |-> None, target |-> None, through |-> None]

Init ==
    /\ open \in BOOLEAN
    /\ cached = [a \in Addresses |-> None] /\ known = {}
    /\ made = 0 /\ address = [t \in Targets |-> None]
    /\ stubs = [t \in Targets |-> [n \in Sandboxes |-> None]]
    /\ fresh = [t \in Targets |-> [n \in Names |-> 0]]
    /\ op = [f \in Fibers |-> Idle] /\ handles = {} /\ failed = {}

\* Mutant: stubs are kept under the namespace, not under its adapter.
ByNamespace(t) == 1

\* targets.value.get(adapter, ...)
Owner(t) == t

\* Mutant: an adapter constructs a stub for each operation.
Uncached(t) == FALSE

\* Option.isSome(targets), of a scope that has not closed.
Keeps(t) == open

\* RpcTargets.get: the target of n's address, constructed if there is none.
FindTarget(n, t) ==
    LET a == Address(n) IN
    IF open /\ cached[a] # None
    THEN t = cached[a] /\ UNCHANGED <<made, address, cached, known>>
    ELSE /\ made < MaxTargets /\ t = made + 1
         /\ made' = t /\ address' = [address EXCEPT ![t] = a]
         /\ cached' = IF open THEN [cached EXCEPT ![a] = t] ELSE cached
         /\ known' = IF open THEN known \union {t} ELSE known

\* adapter.get, for a sandbox: the stub, as the target it was constructed through.
FindStub(n, t, through) ==
    IF n \in Containers
    THEN /\ through = t /\ UNCHANGED stubs
         /\ fresh' = IF made' = made THEN fresh ELSE [fresh EXCEPT ![t][n] = 1]
    ELSE IF Keeps(t) /\ stubs[Owner(t)][n] # None
    THEN through = stubs[Owner(t)][n] /\ UNCHANGED <<stubs, fresh>>
    ELSE /\ through = t /\ fresh' = [fresh EXCEPT ![t][n] = @ + 1]
         /\ stubs' = IF Keeps(t) THEN [stubs EXCEPT ![Owner(t)][n] = t] ELSE stubs

Send(f, kind, n, t, through) ==
    op' = [op EXCEPT ![f] = [at |-> "sent", kind |-> kind, name |-> n, target |-> t, through |-> through]]

\* resolve, then the call: both in one go.
Start(f, n, kind) ==
    /\ op[f].at = "idle"
    /\ \E t, through \in Targets :
         FindTarget(n, t) /\ FindStub(n, t, through) /\ Send(f, kind, n, t, through)
    /\ UNCHANGED <<open, handles, failed>>

\* An operation of a sandbox client.
Operate(f, n, kind) == n \in Sandboxes /\ Start(f, n, kind)

\* An operation of byName of a container.
ContainerCall(f, n) == n \in Containers /\ Start(f, n, "plain")

\* getSandbox throws: the adapter is not to blame.
GetFails(f, n) ==
    /\ op[f].at = "idle" /\ n \in Sandboxes
    /\ \E t \in Targets : FindTarget(n, t)
    /\ UNCHANGED <<open, stubs, fresh, op, handles, failed>>

\* getByName: a client that stays with the stub found now.
GetByName(f, n) ==
    /\ op[f].at = "idle" /\ n \in Containers /\ Cardinality(handles) < MaxHandles
    /\ \E t, through \in Targets :
         /\ FindTarget(n, t) /\ FindStub(n, t, through)
         /\ handles' = handles \union {[name |-> n, target |-> t, through |-> through]}
    /\ UNCHANGED <<open, op, failed>>

\* An operation or stream of a process or a terminal.
UseHandle(f, h, kind) ==
    /\ op[f].at = "idle" /\ kind # "handle" /\ h.name \in Sandboxes
    /\ Send(f, kind, h.name, h.target, h.through)
    /\ UNCHANGED <<open, cached, made, address, known, stubs, fresh, handles, failed>>

\* An operation of a client of getByName.
UseInstance(f, h) ==
    /\ op[f].at = "idle" /\ h.name \in Containers
    /\ Send(f, "plain", h.name, h.target, h.through)
    /\ UNCHANGED <<open, cached, made, address, known, stubs, fresh, handles, failed>>

\* Symbol.dispose lets go of the handle and leaves its process alone.
Dispose(h) ==
    /\ handles' = handles \ {h}
    /\ UNCHANGED <<open, cached, made, address, known, stubs, fresh, op, failed>>

Reply(f) ==
    LET o == op[f] IN
    /\ o.at = "sent"
    /\ CASE o.kind = "plain" -> op' = [op EXCEPT ![f] = Idle] /\ UNCHANGED handles
         [] o.kind = "stream" -> op' = [op EXCEPT ![f].at = "streaming"] /\ UNCHANGED handles
         [] o.kind = "handle" ->
              /\ op' = [op EXCEPT ![f] = Idle]
              /\ Cardinality(handles) < MaxHandles
              /\ handles' = handles \union {[name |-> o.name, target |-> o.target, through |-> o.through]}
    /\ UNCHANGED <<open, cached, made, address, known, stubs, fresh, failed>>

EndStream(f) ==
    /\ op[f].at = "streaming" /\ op' = [op EXCEPT ![f] = Idle]
    /\ UNCHANGED <<open, cached, made, address, known, stubs, fresh, handles, failed>>

\* Mutant: the address is emptied, whatever it holds by now.
Whatever(t) == TRUE

\* invalidate: only the target that failed, if its address still holds it.
Discards(t) == t \in known /\ cached[address[t]] = t

Invalidate(t) ==
    /\ cached' = IF Discards(t) THEN [cached EXCEPT ![address[t]] = None] ELSE cached
    /\ known' = known \ {t} /\ failed' = failed \union {t}

\* The call or its stream fails; a reply that does not decode is none of this.
Fail(f) ==
    /\ op[f].at \in {"sent", "streaming"}
    /\ Invalidate(op[f].target) /\ op' = [op EXCEPT ![f] = Idle]
    /\ UNCHANGED <<open, made, address, stubs, fresh, handles>>

\* Whether an interrupt runs tapCause is the runtime's.
Interrupt(f) ==
    /\ op[f].at \in {"sent", "streaming"} /\ op' = [op EXCEPT ![f] = Idle]
    /\ Invalidate(op[f].target) \/ UNCHANGED <<cached, known, failed>>
    /\ UNCHANGED <<open, made, address, stubs, fresh, handles>>

\* The scope of the event closes; fibers started by waitUntil go on.
Close ==
    /\ open /\ open' = FALSE
    /\ cached' = [a \in Addresses |-> None] /\ known' = {}
    /\ UNCHANGED <<made, address, stubs, fresh, op, handles, failed>>

\* The event is over and its fibers are done.
Over == ~ open /\ (\A f \in Fibers : op[f] = Idle) /\ UNCHANGED vars

Next ==
    \/ \E f \in Fibers :
         \/ \E n \in Names : GetFails(f, n) \/ GetByName(f, n) \/ ContainerCall(f, n)
                                  \/ \E k \in Kinds : Operate(f, n, k)
         \/ \E h \in handles : UseInstance(f, h) \/ \E k \in Kinds : UseHandle(f, h, k)
         \/ Reply(f) \/ EndStream(f) \/ Fail(f) \/ Interrupt(f)
    \/ \E h \in handles : Dispose(h)
    \/ Close \/ Over

Spec == Init /\ [][Next]_vars

----------------------------------------------------------------------------
TypeOK ==
    /\ open \in BOOLEAN /\ made \in 0..MaxTargets
    /\ cached \in [Addresses -> (1..made) \union {None}] /\ known = {cached[a] : a \in Addresses} \ {None}
    /\ address \in [Targets -> Addresses \union {None}]
    /\ stubs \in [Targets -> [Sandboxes -> Targets \union {None}]]
    /\ handles \subseteq Handles /\ failed \subseteq 1..made
    /\ \A f \in Fibers : op[f] = Idle \/
         (op[f].at \in {"sent", "streaming"} /\ op[f].kind \in Kinds /\ op[f].target \in 1..made)

\* A retained client recovers: an operation that starts never goes through a
\* target or a stub of a target that failed, unless a handle holds it.
ClientsRecover ==
    [][\A f \in Fibers :
         (op[f].at = "idle" /\ op'[f].at = "sent"
            /\ [name |-> op'[f].name, target |-> op'[f].target, through |-> op'[f].through] \notin handles)
         => op'[f].target \notin failed /\ op'[f].through \notin failed]_vars

\* Within an event a name has one stub that works, however late and in whatever
\* order calls on the older ones fail.
OneStubPerName ==
    open => \A n \in Names :
        LET live == {t \in (1..made) \ failed : address[t] = Address(n)} IN
        Cardinality(live) <= 1 /\ \A t \in live : fresh[t][n] <= 1

\* The stub of a container is discarded by a call on that container only, whatever
\* happens to the sandboxes and the other containers of the event.
ContainersFailAlone ==
    [][\A n \in Containers :
         LET a == Address(n) IN
         (open' /\ cached[a] # None /\ cached'[a] # cached[a]) =>
           \E f \in Fibers : op[f].name = n /\ op[f].target = cached[a] /\ op'[f] = Idle]_vars
=============================================================================
