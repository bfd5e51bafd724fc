------------------------------ MODULE AlarmWake ------------------------------
(***************************************************************************)
(* How DurableObjectAlarm keeps the Object's one native alarm armed: the    *)
(* guard of deferWakes, the dispatch pass of runAlarm, and reconcileAlarm,  *)
(* which both of them and every alarm transaction end with.                 *)
(*                                                                          *)
(* Times are remaining delays: 0 is due, Tick takes one off each.  Of the   *)
(* table only its earliest wake_at matters here; AlarmScheduler has the     *)
(* rows.  A storage transaction with its reconciliation is one step.  The   *)
(* guard's reconciliation runs outside a transaction and is two.  The       *)
(* tables exist already.                                                    *)
(***************************************************************************)
EXTENDS Integers, FiniteSets

CONSTANTS
    Inline,             \* deferWakes regions of event handlers
    PassScope,          \* the deferWakes region of runRegistrations
    Natives,            \* native deliveries: the platform runs one at a time
    Posts,              \* post-response dispatches
    InFlight,           \* inFlightRecovery
    ParkedDelay,        \* parkedRetryDelay
    MaxDelay,           \* bound: the longest delay work is enrolled with
    DispatchAfterEvent, \* dispatchAfterEvent
    EventFaults,        \* whether an event may fail, in its layer or later
    StorageFaults,      \* whether a transaction may fail
    Crashes,            \* whether the Object may be evicted
    NoCaller

NoTime == -1
Reset == -1     \* deferredRecoveryAt = 0
Unknown == -2   \* no cached native alarm

Scopes == Inline \cup {PassScope}
Callers == Natives \cup Posts

ASSUME WakeAssumption ==
    /\ IsFiniteSet(Inline) /\ PassScope \notin Inline
    /\ Natives \cap Posts = {} /\ NoCaller \notin Natives \cup Posts
    /\ InFlight \in Nat \ {0} /\ ParkedDelay \in Nat /\ ParkedDelay >= InFlight
    /\ MaxDelay \in Nat
    /\ {DispatchAfterEvent, EventFaults, StorageFaults, Crashes} \subseteq BOOLEAN

VARIABLES
    wake,      \* durable: the earliest wake_at, NoTime for an empty table
    native,    \* durable: the native alarm
    cached,    \* the cached native alarm of this delivery
    scope,     \* where each deferred region is
    seen,      \* what the guard's reconciliation read
    waking,    \* wakesReady exists
    guard,     \* guardReady
    call,      \* where each call of runAlarm is
    pending,   \* the call that owns pendingAlarm
    active,    \* dispatchActive
    needs,     \* dispatchNeedsReconcile
    failed,    \* the owner's event or reconciliation failed
    recDelay,  \* deferredRecoveryDelay
    recAt      \* deferredRecoveryAt

vars == <<wake, native, cached, scope, seen, waking, guard, call, pending,
          active, needs, failed, recDelay, recAt>>
scopeVars == <<scope, seen, waking, guard>>
callVars == <<call, pending, active, failed>>

Delays == 0..MaxDelay
Native == (0..(MaxDelay + ParkedDelay)) \cup {NoTime}
Holding == {"guarding", "deciding", "awaiting", "body"}

TypeOK ==
    /\ wake \in Delays \cup {NoTime}
    /\ native \in Native
    /\ cached \in Native \cup {Unknown}
    /\ scope \in [Scopes -> Holding \cup {"idle", "releasing", "clearing"}]
    /\ seen \in Native
    /\ waking \in BOOLEAN
    /\ guard \in {"none", "pending", "ready", "failed"}
    /\ call \in [Callers -> {"idle", "fired", "restoring", "waiting", "acquiring",
                             "dispatching", "passing", "reconciling", "completing",
                             "joining", "joined", "late"}]
    /\ pending \in Callers \cup {NoCaller}
    /\ {active, needs, failed} \subseteq BOOLEAN
    /\ recDelay \in {InFlight, ParkedDelay}
    /\ recAt \in 0..ParkedDelay \cup {Reset}

Init ==
    /\ wake = NoTime /\ native = NoTime /\ cached = Unknown
    /\ scope = [s \in Scopes |-> "idle"]
    /\ seen = NoTime /\ waking = FALSE /\ guard = "none"
    /\ call = [c \in Callers |-> "idle"]
    /\ pending = NoCaller
    /\ active = FALSE /\ needs = FALSE /\ failed = FALSE
    /\ recDelay = ParkedDelay /\ recAt = Reset

-----------------------------------------------------------------------------
(* Reconciliation.                                                          *)

Held(holding) == {s \in Scopes : holding[s] \in Holding}

Deferred == Held(scope) # {}     \* wakeDeferrals > 0

\* readNativeAlarm: the cache answers during a dispatch, unless it was dropped.
Observable == {native} \cup (IF active /\ cached # Unknown THEN {cached} ELSE {})

Wrote(at) == native' = at /\ cached' = at

\* Mutant: any alarm will do as the guard.
KeepAnyGuard(current) ==
    LET at == IF recAt <= 0 THEN recDelay ELSE recAt
    IN  /\ needs' = (needs \/ active)
        /\ recAt' = at
        /\ IF current # NoTime THEN native' = native /\ cached' = current ELSE Wrote(at)

\* Mutant: every reconciliation stretches the guard.
StretchGuard(current) ==
    LET at == (IF recAt = Reset THEN 0 ELSE recAt) + recDelay
    IN  /\ needs' = (needs \/ active)
        /\ recAt' = at
        /\ Wrote(at)

\* While a region or a dispatch is active the native alarm is only a guard.
KeepGuard(current) ==
    LET at == IF recAt <= 0 THEN recDelay ELSE recAt
        short == /\ current # NoTime
                 /\ current <= at
                 /\ ~ (recAt = Reset /\ current <= 0)
    IN  /\ needs' = (needs \/ active)
        /\ recAt' = at
        /\ IF short THEN native' = native /\ cached' = current ELSE Wrote(at)

\* An RPC or fetch that leaves due work behind is followed by a dispatch.
Target(next, current, response) ==
    IF next # NoTime /\ next <= 0 /\ response /\ DispatchAfterEvent
    THEN IF current = NoTime \/ current > InFlight THEN InFlight ELSE current
    ELSE next

\* Otherwise it is the earliest deadline.
Rearm(next, current, response) ==
    LET target == Target(next, current, response)
    IN  /\ IF current = target THEN native' = native /\ cached' = current ELSE Wrote(target)
        /\ UNCHANGED <<needs, recAt>>

Reconcile(next, response) ==
    \E current \in Observable :
        IF Deferred \/ active THEN KeepGuard(current) ELSE Rearm(next, current, response)

\* A transaction: it commits, reconciled, or fails and is rolled back.
Transaction(next, response) ==
    /\ wake' = next
    /\ Reconcile(next, response)
    /\ UNCHANGED recDelay

RolledBack ==
    /\ StorageFaults
    /\ cached' = Unknown
    /\ UNCHANGED <<wake, native, needs, recDelay, recAt>>

\* A transaction of an event, a handler, an event layer, or of a pass that
\* finished or moved due work.
Write ==
    /\ \E next \in Delays \cup {NoTime}, response \in BOOLEAN : Transaction(next, response)
    /\ UNCHANGED <<scopeVars, callVars>>

-----------------------------------------------------------------------------
(* deferWakes.                                                              *)

Enter(s) ==
    /\ scope[s] = "idle"
    /\ scope' = [scope EXCEPT ![s] = IF Deferred THEN "awaiting" ELSE "guarding"]
    /\ IF Deferred
       THEN UNCHANGED <<waking, guard, recDelay, recAt>>
       ELSE /\ waking' = TRUE
            /\ guard' = "pending"
            /\ recDelay' = InFlight
            /\ recAt' = InFlight
    /\ UNCHANGED <<wake, native, cached, seen, needs>>

EnterInline(s) == s \in Inline /\ Enter(s) /\ UNCHANGED callVars

\* The first region arms the guard.  Reading the alarm from storage and writing
\* it are two steps; a cached one is at hand.
GuardRead(s) ==
    /\ scope[s] = "guarding"
    /\ scope' = [scope EXCEPT ![s] = "deciding"]
    /\ seen' = native
    /\ needs' = (needs \/ active)
    /\ UNCHANGED <<wake, native, cached, waking, guard, recDelay, recAt, callVars>>

GuardWrite(s) ==
    /\ \/ scope[s] = "deciding" /\ KeepGuard(seen)
       \/ scope[s] = "guarding" /\ active /\ cached # Unknown /\ KeepGuard(cached)
    /\ scope' = [scope EXCEPT ![s] = "body"]
    /\ seen' = NoTime
    /\ guard' = "ready"
    /\ UNCHANGED <<wake, waking, recDelay, callVars>>

\* Mutant: the last region out reconciles only what its own transactions left.
LeaveUnreconciled(s) ==
    /\ scope' = [scope EXCEPT ![s] = IF Held(scope) # {s} THEN "idle" ELSE "clearing"]
    /\ seen' = IF scope[s] = "deciding" THEN NoTime ELSE seen
    /\ UNCHANGED <<wake, native, cached, waking, needs, recDelay, recAt, callVars>>

\* wakeDeferrals-- : the last region out reconciles, unless a dispatch will.
Leave(s) ==
    /\ scope' = [scope EXCEPT ![s] =
          IF Held(scope) # {s} THEN "idle" ELSE IF active THEN "clearing" ELSE "releasing"]
    /\ seen' = IF scope[s] = "deciding" THEN NoTime ELSE seen
    /\ UNCHANGED <<wake, native, cached, waking, needs, recDelay, recAt, callVars>>

\* The body ends, in any way.
Exit(s) == scope[s] = "body" /\ Leave(s) /\ UNCHANGED guard

\* Arming the guard fails or is interrupted, and every waiting region with it.
GuardFails(s) ==
    /\ StorageFaults
    /\ scope[s] \in {"guarding", "deciding"}
    /\ guard' = "failed"
    /\ Leave(s)

Await(s) ==
    /\ scope[s] = "awaiting"
    /\ \/ /\ guard = "ready"
          /\ scope' = [scope EXCEPT ![s] = "body"]
          /\ UNCHANGED <<wake, native, cached, seen, waking, guard,
                         needs, recDelay, recAt, callVars>>
       \/ guard = "failed" /\ Leave(s) /\ UNCHANGED guard

Release(s) ==
    /\ scope[s] = "releasing"
    /\ \/ \E response \in BOOLEAN :
             (response => s \in Inline) /\ Transaction(wake, response)
       \/ RolledBack
    /\ scope' = [scope EXCEPT ![s] = "clearing"]
    /\ UNCHANGED <<seen, waking, guard, callVars>>

\* Mutants: a region that entered meanwhile is forgotten; nobody is woken.
ClearAlways(s) ==
    /\ scope[s] = "clearing"
    /\ scope' = [scope EXCEPT ![s] = "idle"]
    /\ waking' = FALSE /\ guard' = "none"
    /\ UNCHANGED <<wake, native, cached, seen, needs, recDelay, recAt, callVars>>

ClearSilently(s) ==
    /\ scope[s] = "clearing"
    /\ scope' = [scope EXCEPT ![s] = "idle"]
    /\ UNCHANGED <<wake, native, cached, seen, waking, guard, needs, recDelay, recAt, callVars>>

Clear(s) ==
    /\ scope[s] = "clearing"
    /\ scope' = [scope EXCEPT ![s] = "idle"]
    /\ IF Deferred THEN UNCHANGED <<waking, guard>>
                   ELSE waking' = FALSE /\ guard' = "none"
    /\ UNCHANGED <<wake, native, cached, seen, needs, recDelay, recAt, callVars>>

Region(s) ==
    \/ EnterInline(s) \/ GuardRead(s) \/ GuardWrite(s) \/ GuardFails(s) \/ Await(s)
    \/ Exit(s) \/ Release(s) \/ Clear(s)

-----------------------------------------------------------------------------
(* runAlarm.                                                                *)

Goto(c, stage) == call' = [call EXCEPT ![c] = stage]

\* The platform delivers a due alarm and clears it; no event begins while a
\* storage read is under way (the input gate).
Fire(n) ==
    /\ call[n] = "idle"
    /\ native = 0
    /\ \A s \in Scopes : scope[s] # "deciding"
    /\ native' = NoTime
    /\ Goto(n, "fired")
    /\ UNCHANGED <<wake, cached, scopeVars, pending, active, needs, failed, recDelay, recAt>>

\* pendingAlarm: the first call owns the pass, the others join it.  A native
\* one has consumed the guard and restores it first.
Own(c) ==
    /\ pending = NoCaller
    /\ pending' = c
    /\ needs' = (c \in Natives)
    /\ failed' = FALSE
    /\ Goto(c, IF c \in Natives /\ waking THEN "restoring" ELSE "waiting")

Join(c) ==
    /\ pending # NoCaller
    /\ Goto(c, IF c \in Natives THEN "joining" ELSE "joined")
    /\ UNCHANGED <<pending, needs, failed>>

Deliver(n) ==
    /\ call[n] = "fired"
    /\ cached' = Unknown
    /\ Own(n) \/ Join(n)
    /\ UNCHANGED <<wake, native, scopeVars, active, recDelay, recAt>>

PostEvent(p) ==
    /\ DispatchAfterEvent
    /\ call[p] = "idle"
    /\ Own(p) \/ Join(p)
    /\ UNCHANGED <<wake, native, cached, scopeVars, active, recDelay, recAt>>

\* A call that fails before any dispatcher ran: dispatchActive keeps the
\* reconciliation from rearming the untouched due work at once.
FailsEarly(c) ==
    /\ active' = TRUE
    /\ failed' = TRUE
    /\ Goto(c, "reconciling")
    /\ IF Deferred THEN UNCHANGED <<recDelay, recAt>>
                   ELSE recDelay' = ParkedDelay /\ recAt' = Reset
    /\ UNCHANGED <<wake, native, needs, pending>>

\* Restore the guard of the regions that still run, then wait for them.
Restore(c) ==
    /\ call[c] = "restoring"
    /\ \/ Transaction(wake, FALSE) /\ Goto(c, "waiting") /\ UNCHANGED <<active, failed, pending>>
       \/ StorageFaults /\ cached' = Unknown /\ FailsEarly(c)
    /\ UNCHANGED scopeVars

\* awaitWakes; then the event layer is acquired.
StartDispatch(c) ==
    /\ call[c] = "waiting"
    /\ ~ waking
    /\ active' = TRUE
    /\ Goto(c, "acquiring")
    /\ UNCHANGED <<wake, native, cached, scopeVars, pending, needs, failed, recDelay, recAt>>

\* beginDispatch; a post-response call only goes on when rows are due.
BeginDispatch(c) ==
    /\ call[c] = "acquiring"
    /\ c \in Natives \/ wake = 0
    /\ Goto(c, "dispatching")
    /\ UNCHANGED <<wake, native, cached, scopeVars, pending, active, needs, failed,
                   recDelay, recAt>>

\* The event ends: after a dispatch always with a reconciliation.
Ends(c) ==
    /\ active' = FALSE
    /\ Goto(c, "reconciling")
    /\ UNCHANGED <<wake, native, cached, scopeVars, pending, needs, recDelay, recAt>>

NothingDue(c) ==
    /\ call[c] = "acquiring"
    /\ c \in Posts
    /\ wake # 0
    /\ IF needs
       THEN Ends(c) /\ UNCHANGED failed
       ELSE /\ active' = FALSE
            /\ Goto(c, "completing")
            /\ UNCHANGED <<wake, native, cached, scopeVars, pending, needs, failed,
                           recDelay, recAt>>

AcquireFails(c) ==
    /\ EventFaults
    /\ call[c] = "acquiring"
    /\ FailsEarly(c)
    /\ UNCHANGED <<cached, scopeVars>>

\* The registered dispatchers run in a region of their own.
EnterPass(c) ==
    /\ call[c] = "dispatching"
    /\ Enter(PassScope)
    /\ Goto(c, "passing")
    /\ UNCHANGED <<pending, active, failed>>

\* The event's finalizers included; it may fail.
EndDispatch(c) ==
    /\ call[c] = "passing"
    /\ scope[PassScope] = "idle"
    /\ failed' \in {FALSE, EventFaults}
    /\ Ends(c)

ReconcileDispatch(c) ==
    /\ call[c] = "reconciling"
    /\ \/ Transaction(wake, FALSE) /\ UNCHANGED failed
       \/ RolledBack /\ failed' = TRUE
    /\ Goto(c, "completing")
    /\ UNCHANGED <<scopeVars, pending, active>>

\* Mutant: the calls that joined the pass are not released.
CompleteAlone(c) ==
    /\ call[c] = "completing"
    /\ active' = FALSE /\ pending' = NoCaller /\ failed' = FALSE
    /\ Goto(c, "idle")
    /\ UNCHANGED <<wake, native, cached, scopeVars, needs, recDelay, recAt>>

\* The calls that end with the pass; a delivery that fails with no alarm set is
\* repeated by the platform.
Complete(c) ==
    LET ended == {d \in Callers : d = c \/ call[d] = "joined"}
    IN  /\ call[c] = "completing"
        /\ active' = FALSE
        /\ pending' = NoCaller
        /\ failed' = FALSE
        /\ call' = [d \in Callers |->
              IF d \in ended THEN "idle" ELSE IF call[d] = "joining" THEN "late" ELSE call[d]]
        /\ native' = IF failed /\ ended \cap Natives # {} /\ native = NoTime THEN 0 ELSE native
        /\ UNCHANGED <<wake, cached, scopeVars, needs, recDelay, recAt>>

\* Mutant: a late delivery has nothing left to restore.
JoinOnly(n) ==
    /\ call[n] \in {"joining", "late"}
    /\ Goto(n, IF call[n] = "joining" THEN "joined" ELSE "idle")
    /\ UNCHANGED <<wake, native, cached, needs, recDelay, recAt, scopeVars,
                   pending, active, failed>>

\* A joining delivery restores the guard; a late one finds its pass gone.
JoinRestore(n) ==
    /\ call[n] \in {"joining", "late"}
    /\ \/ Transaction(wake, FALSE) /\ Goto(n, IF call[n] = "joining" THEN "joined" ELSE "idle")
       \/ /\ StorageFaults
          /\ Goto(n, "idle")
          /\ native' = IF native = NoTime THEN 0 ELSE native
          /\ UNCHANGED <<wake, cached, needs, recDelay, recAt>>
    /\ UNCHANGED <<scopeVars, pending, active, failed>>

Call(c) ==
    \/ c \in Natives /\ (Fire(c) \/ Deliver(c) \/ JoinRestore(c))
    \/ c \in Posts /\ PostEvent(c)
    \/ Restore(c) \/ StartDispatch(c) \/ BeginDispatch(c) \/ NothingDue(c) \/ AcquireFails(c)
    \/ EnterPass(c) \/ EndDispatch(c) \/ ReconcileDispatch(c) \/ Complete(c)

-----------------------------------------------------------------------------
\* Eviction.  A delivery that was not acknowledged is repeated.
Crash ==
    /\ Crashes
    /\ native' = IF native = NoTime /\ \E n \in Natives : call[n] # "idle" THEN 0 ELSE native
    /\ cached' = Unknown
    /\ scope' = [s \in Scopes |-> "idle"]
    /\ seen' = NoTime /\ waking' = FALSE /\ guard' = "none"
    /\ call' = [c \in Callers |-> "idle"]
    /\ pending' = NoCaller
    /\ active' = FALSE /\ needs' = FALSE /\ failed' = FALSE
    /\ recDelay' = ParkedDelay /\ recAt' = Reset
    /\ UNCHANGED wake

Later(time) == IF time > 0 THEN time - 1 ELSE time

Tick ==
    /\ wake' = Later(wake)
    /\ native' = Later(native)
    /\ cached' = Later(cached)
    /\ seen' = Later(seen)
    /\ recAt' = Later(recAt)
    /\ UNCHANGED <<scope, waking, guard, callVars, needs, recDelay>>

Next ==
    \/ Write
    \/ \E s \in Scopes : Region(s)
    \/ \E c \in Callers : Call(c)
    \/ Crash \/ Tick

Spec == Init /\ [][Next]_vars

-----------------------------------------------------------------------------
(* Safety.                                                                  *)

\* The platform repeats a delivery that does not return.
InHand(n) == call[n] # "idle"

\* Committed work is never left without a wake: at its deadline, or at most one
\* parked delay late, the native alarm fires, or a delivery is still in hand.
WorkIsCovered ==
    wake # NoTime =>
        \/ native # NoTime /\ (native <= wake \/ native <= ParkedDelay)
        \/ \E n \in Natives : InHand(n)

\* While the body of a deferred region runs, an eviction is recovered within
\* inFlightRecovery ("guard while a scope or pass is active").
GuardIsShort ==
    \A s \in Scopes : scope[s] = "body" =>
        \/ native \in 0..InFlight
        \/ \E n \in Natives : InHand(n)

Quiet ==
    /\ \A s \in Scopes : scope[s] = "idle"
    /\ \A c \in Callers : call[c] = "idle"

\* When nothing runs, the native alarm is the earliest deadline and no other:
\* no guard outlives its regions, no deadline is missed or woken for twice.
\* (Without faults, evictions and post-response dispatch, which keep guards.)
QuietIsExact == Quiet => native = wake

\* deferWakes blocks dispatch until its last region exits.
RegionsDelayDispatch ==
    [][\A c \in Callers : call[c] = "waiting" /\ call'[c] = "acquiring" => ~ Deferred]_vars

-----------------------------------------------------------------------------
(* Liveness.  The platform fires due alarms, handlers and transactions end, *)
(* and the event layer is acquired sooner or later.  A call that waits for  *)
(* the regions goes on if it can again and again.                           *)

Fairness ==
    /\ WF_vars(Tick)
    /\ \A s \in Scopes :
          /\ WF_vars(GuardRead(s) \/ GuardWrite(s) \/ Await(s))
          /\ WF_vars(Exit(s))
          /\ WF_vars(Release(s) \/ Clear(s))
    /\ \A n \in Natives : SF_vars(Fire(n)) /\ WF_vars(Deliver(n)) /\ WF_vars(JoinRestore(n))
    /\ \A c \in Callers :
          /\ WF_vars(Restore(c) \/ EnterPass(c) \/ EndDispatch(c)
                     \/ ReconcileDispatch(c) \/ Complete(c))
          /\ WF_vars(NothingDue(c) \/ AcquireFails(c))
          /\ SF_vars(StartDispatch(c))
          /\ SF_vars(BeginDispatch(c))

FairSpec == Spec /\ Fairness

\* Due work reaches a dispatcher, unless it is cancelled or moved first.
DueWorkIsDispatched == wake = 0 ~> wake # 0 \/ scope[PassScope] = "body"

\* Every delivery returns: waiting for regions, joining a pass and restoring
\* guards never wait for each other.
DeliveriesReturn == \A n \in Natives : call[n] = "fired" ~> call[n] = "idle"
=============================================================================
