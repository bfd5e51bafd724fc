------------------------------ MODULE RpcTargets ------------------------------
(***************************************************************************)
(* Native RPC targets (stubs) shared by the calls of one event: RpcTargets.ts, *)
(* and the client calls of DurableObjectNamespace.ts that acquire, use and     *)
(* discard them.  Background work of an event may go on after its scope        *)
(* closed; the results of scoped calls belong to the scope of their caller.    *)
(***************************************************************************)
EXTENDS Naturals, FiniteSets

CONSTANTS
    Events,     \* scopes opened by withScope, one per event or retry
    Callers,    \* fibers that call
    Home,       \* the event of a caller
    Late,       \* callers that outlive their event, started by waitUntil
    Keys,       \* (owner, address) pairs
    MaxTargets, \* bound: native targets constructed
    None

ASSUME HomeAssumption == Home \in [Callers -> Events] /\ Late \subseteq Callers
ASSUME MaxAssumption == MaxTargets \in Nat
ASSUME NoneAssumption == None \notin Nat

Targets == 1..MaxTargets
Kinds == {"call", "scopedCall"}

VARIABLES
    active,   \* event -> whether its scope is open
    cached,   \* event -> key -> its target or None
    known,    \* targets with an entry in addresses
    made,     \* targets constructed so far
    origin,   \* target -> the event and key it was constructed for
    at,       \* caller -> "idle", "held", "sent", "decoding", "done"
    target,   \* caller -> the stub it holds
    kind,     \* caller -> what it is calling
    results,  \* callers -> number of scoped results not yet disposed
    failed    \* history: targets a call has failed on

vars == <<active, cached, known, made, origin, at, target, kind, results, failed>>

Init ==
    /\ active = [e \in Events |-> TRUE]
    /\ cached = [e \in Events |-> [k \in Keys |-> None]]
    /\ known = {} /\ made = 0 /\ origin = [t \in Targets |-> None]
    /\ at = [c \in Callers |-> "idle"] /\ target = [c \in Callers |-> None]
    /\ kind = [c \in Callers |-> "call"]
    /\ results = [c \in Callers |-> 0] /\ failed = {}

\* Mutant: a scope that has closed goes on caching.
AlwaysCaches(e) == TRUE

\* if (!active) return create()
Caches(e) == active[e]

\* get, by the event's service; create may throw, which is a defect of the caller.
Lookup(c, k) ==
    LET e == Home[c] IN
    /\ at[c] = "idle"
    /\ IF Caches(e) /\ cached[e][k] # None
       THEN /\ target' = [target EXCEPT ![c] = cached[e][k]]
            /\ UNCHANGED <<made, cached, known, origin>>
       ELSE /\ made < MaxTargets
            /\ made' = made + 1
            /\ origin' = [origin EXCEPT ![made + 1] = <<e, k>>]
            /\ target' = [target EXCEPT ![c] = made + 1]
            /\ cached' = IF Caches(e) THEN [cached EXCEPT ![e][k] = made + 1] ELSE cached
            /\ known' = IF Caches(e) THEN known \union {made + 1} ELSE known
    /\ at' = [at EXCEPT ![c] = "held"]
    /\ UNCHANGED <<active, kind, results, failed>>

CreateThrows(c, k) ==
    /\ at[c] = "idle" /\ ~ (Caches(Home[c]) /\ cached[Home[c]][k] # None)
    /\ at' = [at EXCEPT ![c] = "done"]
    /\ UNCHANGED <<active, cached, known, made, origin, target, kind, results, failed>>

\* The caller gives up, or is done with its stub.
Finish(c) ==
    /\ at[c] \in {"idle", "held"}
    /\ at' = [at EXCEPT ![c] = "done"] /\ target' = [target EXCEPT ![c] = None]
    /\ UNCHANGED <<active, cached, known, made, origin, kind, results, failed>>

\* Mutant: the entry of the address goes, whichever target it holds now.
AnyEntry(e, t) == TRUE

\* Mutant: the target is forgotten, its entry stays.
NoEntry(e, t) == FALSE

\* entry?.entries.get(entry.address) === target
IsEntry(e, t) == t \in known /\ cached[e][origin[t][2]] = t

\* invalidate: addresses of a closed scope are empty.
Invalidate(c) ==
    LET e == Home[c]  t == target[c] IN
    /\ cached' = IF active[e] /\ IsEntry(e, t)
                 THEN [cached EXCEPT ![e][origin[t][2]] = None] ELSE cached
    /\ known' = known \ {t}
    /\ failed' = failed \union {t}

\* The arguments do not encode: the stub is not to blame.
EncodeFails(c) ==
    /\ at[c] = "held"
    /\ at' = [at EXCEPT ![c] = "idle"] /\ target' = [target EXCEPT ![c] = None]
    /\ UNCHANGED <<active, cached, known, made, origin, kind, results, failed>>

Send(c, how) ==
    /\ at[c] = "held"
    /\ at' = [at EXCEPT ![c] = "sent"] /\ kind' = [kind EXCEPT ![c] = how]
    /\ UNCHANGED <<active, cached, known, made, origin, target, results, failed>>

\* Mutant: a scoped call may be interrupted while its result is on the way.
InterruptibleAlways(how) == TRUE

\* A native call throws at once, its promise rejects, or the waiting fiber is
\* interrupted; acquireRelease does not let go of a scoped result in between.
Interruptible(how) == how # "scopedCall"

Fail(c) ==
    /\ at[c] \in {"held", "sent"}
    /\ Invalidate(c)
    /\ \/ at' = [at EXCEPT ![c] = "idle"] /\ target' = [target EXCEPT ![c] = None]
       \/ at' = [at EXCEPT ![c] = "held"] /\ UNCHANGED target
    /\ UNCHANGED <<active, made, origin, kind, results>>

\* The late result of an interrupted call finds no owner; whether tapCause runs
\* is the runtime's.
Interrupt(c) ==
    /\ at[c] = "sent" /\ Interruptible(kind[c])
    /\ Invalidate(c) \/ UNCHANGED <<cached, known, failed>>
    /\ results' = IF kind[c] = "scopedCall" THEN [results EXCEPT ![c] = @ + 1] ELSE results
    /\ at' = [at EXCEPT ![c] = "done"] /\ target' = [target EXCEPT ![c] = None]
    /\ UNCHANGED <<active, made, origin, kind>>

Resolve(c) ==
    /\ at[c] = "sent"
    /\ results' = IF kind[c] = "scopedCall" THEN [results EXCEPT ![c] = 1] ELSE results
    /\ at' = [at EXCEPT ![c] = "decoding"]
    /\ UNCHANGED <<active, cached, known, made, origin, target, kind, failed>>

\* The result decodes or not; its owner's scope closes, which disposes it.
Decode(c) ==
    /\ at[c] = "decoding"
    /\ results' = [results EXCEPT ![c] = 0]
    /\ \/ at' = [at EXCEPT ![c] = "idle"] /\ target' = [target EXCEPT ![c] = None]
       \/ at' = [at EXCEPT ![c] = "held"] /\ UNCHANGED target
    /\ UNCHANGED <<active, cached, known, made, origin, kind, failed>>

\* Mutant: only the entries are dropped.
KeepsAddresses(e) == known

\* addresses = new WeakMap()
OtherAddresses(e) == {t \in known : origin[t][1] # e}

\* The event's scope closes once its own fibers are done.
Close(e) ==
    /\ active[e]
    /\ \A c \in Callers \ Late : Home[c] = e => at[c] = "done"
    /\ active' = [active EXCEPT ![e] = FALSE]
    /\ cached' = [cached EXCEPT ![e] = [k \in Keys |-> None]]
    /\ known' = OtherAddresses(e)
    /\ UNCHANGED <<made, origin, at, target, kind, results, failed>>

Terminated ==
    /\ (\A c \in Callers : at[c] = "done") /\ (\A e \in Events : ~ active[e])
    /\ UNCHANGED vars

Step(c) ==
    \/ \E k \in Keys : Lookup(c, k) \/ CreateThrows(c, k)
    \/ \E how \in Kinds : Send(c, how)
    \/ EncodeFails(c) \/ Fail(c) \/ Interrupt(c) \/ Resolve(c) \/ Decode(c) \/ Finish(c)

Next == (\E c \in Callers : Step(c)) \/ (\E e \in Events : Close(e)) \/ Terminated

Spec == Init /\ [][Next]_vars

----------------------------------------------------------------------------
Made == 1..made

TypeOK ==
    /\ active \in [Events -> BOOLEAN]
    /\ cached \in [Events -> [Keys -> Targets \union {None}]]
    /\ made \in 0..MaxTargets /\ failed \subseteq Made
    /\ known \subseteq {t \in Made : active[origin[t][1]]}
    /\ origin \in [Targets -> (Events \X Keys) \union {None}]
    /\ at \in [Callers -> {"idle", "held", "sent", "decoding", "done"}]
    /\ target \in [Callers -> Targets \union {None}]
    /\ kind \in [Callers -> Kinds] /\ results \in [Callers -> Nat]

\* A lookup never gives out a target that a call of the event has failed on.
FailedIsDiscarded ==
    \A e \in Events, k \in Keys : cached[e][k] \notin failed

\* Calls of an event share their targets: while its scope is open, every target
\* constructed after the first of a key is paid for by one that failed, so that
\* a late failure of an old target does not drop its replacement.
OneLiveTarget ==
    \A e \in Events, k \in Keys : active[e] =>
        Cardinality({t \in Made \ failed : origin[t] = <<e, k>>}) <= 1

\* A target is never used by another event than the one that constructed it, and
\* an event that ended keeps none for its background work.
NeverAcrossEvents ==
    /\ \A c \in Callers : target[c] # None => origin[target[c]][1] = Home[c]
    /\ \A e \in Events, k \in Keys :
         cached[e][k] # None => active[e] /\ origin[cached[e][k]] = <<e, k>>

\* The result of a scoped call is disposed of, however the call ended.
ScopedResultsDisposed ==
    \A c \in Callers : at[c] \in {"idle", "held", "done"} => results[c] = 0

\* Events share working targets and nothing else: a failed target is discarded, its
\* replacement survives late failures, none outlives its event, and results of
\* scoped calls are disposed of (RpcTargets.run, invalidate).
TargetsAreSafe ==
    /\ TypeOK
    /\ FailedIsDiscarded
    /\ OneLiveTarget
    /\ NeverAcrossEvents
    /\ ScopedResultsDisposed
=============================================================================
