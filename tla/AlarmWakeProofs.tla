--------------------------- MODULE AlarmWakeProofs ---------------------------
(***************************************************************************)
(* What AlarmWake promises for every number of regions, deliveries and      *)
(* post-response dispatches and every choice of the three delays.           *)
(***************************************************************************)
EXTENDS AlarmWake, TLAPS

-----------------------------------------------------------------------------
(* The inductive invariant.                                                 *)

\* The stages in which a call owns the pass and has not yet reconciled it.
Working == {"restoring", "waiting", "acquiring", "dispatching", "passing", "reconciling"}

Arming(s) == scope[s] \in {"guarding", "deciding"}

\* wakesReady outlives the regions, one region arms the guard at a time, and a
\* body runs only behind an armed guard.
RegionsHold ==
    /\ Deferred => waking
    /\ \A s \in Scopes : Arming(s) =>
          guard = "pending" /\ \A t \in Scopes : Arming(t) => t = s
    /\ \A s \in Scopes : scope[s] = "body" => guard = "ready"

\* The guard of a region is inFlightRecovery, however often it was rewritten.
GuardTimed == Deferred => recDelay = InFlight /\ recAt \in 0..InFlight

PassOwned ==
    /\ \A c \in Callers : call[c] \in Working \cup {"completing"} <=> pending = c
    /\ \A c \in Callers : call[c] \in {"fired", "joining", "late", "restoring"} => c \in Natives

\* A delivery that has not begun: its alarm is consumed and nothing was read yet.
Fired == \E n \in Natives : call[n] = "fired"

\* A native delivery that still has a reconciliation to do, or will be repeated.
Owing ==
    \/ \E n \in Natives : call[n] \in {"fired", "joining", "late"} \cup Working
    \/ \E n \in Natives : call[n] = "completing" /\ failed

\* The native alarm is no later than a time, or soon enough to be a guard.
Within(time) == native >= 0 /\ (native <= time \/ native <= InFlight)

\* What the guard's reconciliation read may have been rewritten meanwhile, but
\* only to something that serves as well.
SeenSafe == \A s \in Scopes : scope[s] = "deciding" /\ seen >= 0 => Within(seen)

\* So may what a dispatch cached, unless its alarm fired since.
CacheSafe == cached >= 0 => Within(cached) \/ (native = NoTime /\ Fired)

Near(deadline) == native >= 0 /\ (native <= deadline \/ native <= ParkedDelay)

Covered == wake # NoTime => Near(wake) \/ (native = NoTime /\ Owing)

GuardArmed ==
    Deferred /\ guard = "ready" => native \in 0..InFlight \/ (native = NoTime /\ Owing)

IInv ==
    /\ TypeOK /\ RegionsHold /\ GuardTimed /\ PassOwned
    /\ SeenSafe /\ CacheSafe /\ Covered /\ GuardArmed

-----------------------------------------------------------------------------
(* What a reconciliation leaves.                                            *)

LEMMA TimesAreIntegers ==
    ASSUME TypeOK
    PROVE  /\ wake \in Int /\ native \in Int /\ cached \in Int /\ seen \in Int
           /\ wake >= -1 /\ native >= -1 /\ seen >= -1
           /\ recAt \in Int /\ recAt >= -1 /\ recAt <= ParkedDelay
           /\ recDelay \in 1..ParkedDelay
           /\ InFlight \in Nat /\ InFlight > 0 /\ ParkedDelay \in Nat /\ ParkedDelay >= InFlight
           /\ MaxDelay \in Nat
  BY WakeAssumption DEF TypeOK, Delays, Native, NoTime, Unknown, Reset

\* A guard is rewritten to the recovery time, or is already no later.
LEMMA GuardIsKept ==
    ASSUME TypeOK, NEW current \in Int, KeepGuard(current)
    PROVE  /\ recAt' = IF recAt <= 0 THEN recDelay ELSE recAt
           /\ recAt' \in 1..ParkedDelay
           /\ needs' \in BOOLEAN
           /\ \/ native' = recAt' /\ cached' = recAt'
              \/ native' = native /\ cached' = current /\ current # NoTime /\ current <= recAt'
<1> DEFINE at == IF recAt <= 0 THEN recDelay ELSE recAt
           short == /\ current # NoTime
                    /\ current <= at
                    /\ ~ (recAt = Reset /\ current <= 0)
<1>1. /\ needs' = (needs \/ active)
      /\ recAt' = at
      /\ IF short THEN native' = native /\ cached' = current ELSE Wrote(at)
  BY DEF KeepGuard
<1>2. at \in 1..ParkedDelay
  BY TimesAreIntegers
<1>3. needs' \in BOOLEAN
  BY <1>1 DEF TypeOK
<1>4. CASE short
  BY <1>1, <1>2, <1>3, <1>4
<1>5. CASE ~ short
  BY <1>1, <1>2, <1>3, <1>5 DEF Wrote
<1>6. QED
  BY <1>4, <1>5

\* Without regions and passes it becomes the target.
LEMMA AlarmIsRearmed ==
    ASSUME TypeOK, NEW next \in Delays \cup {NoTime}, NEW response \in BOOLEAN,
           Rearm(next, native, response)
    PROVE  /\ native' \in Native /\ cached' = native'
           /\ native' = Target(next, native, response)
           /\ next # NoTime => native' >= 0 /\ (native' <= next \/ native' <= InFlight)
           /\ next = NoTime => native' = NoTime
           /\ recAt' = recAt /\ needs' = needs
<1> DEFINE target == Target(next, native, response)
<1>1. native' = target /\ cached' = target /\ recAt' = recAt /\ needs' = needs
  BY DEF Rearm, Wrote
<1>2. target \in Native
  BY TimesAreIntegers DEF Target, Delays, Native, TypeOK, NoTime
<1>3. next # NoTime => target >= 0 /\ (target <= next \/ target <= InFlight)
  BY TimesAreIntegers DEF Target, Delays, NoTime
<1>4. next = NoTime => target = NoTime
  BY DEF Target
<1>5. QED
  BY <1>1, <1>2, <1>3, <1>4

\* What holds of the native alarm once it is reconciled with a deadline.
Reconciled(next) ==
    /\ native' \in Native /\ cached' \in Native \cup {Unknown}
    /\ needs' \in BOOLEAN /\ recAt' \in 0..ParkedDelay \cup {Reset} /\ recDelay' = recDelay
    /\ cached' >= 0 => Within(cached)' \/ (native' = NoTime /\ Fired)
    /\ next # NoTime => \/ native' >= 0 /\ (native' <= next \/ native' <= ParkedDelay)
                        \/ native' = NoTime /\ Fired
    /\ Deferred =>
          /\ recAt' \in 0..InFlight
          /\ native' = native \/ native' \in 0..InFlight
          /\ native' \in 0..InFlight \/ (native' = NoTime /\ Fired)

\* It does not matter that a guard is judged by a value that was read earlier.
LEMMA GuardCovers ==
    ASSUME IInv, NEW current \in Native, recDelay' = recDelay, KeepGuard(current),
           current >= 0 => Within(current) \/ (native = NoTime /\ Fired),
           NEW next \in Delays \cup {NoTime}
    PROVE  Reconciled(next)
<1>1. current \in Int /\ current >= -1
  BY TimesAreIntegers DEF IInv, Native, NoTime
<1>2. /\ recAt' = IF recAt <= 0 THEN recDelay ELSE recAt
      /\ recAt' \in 1..ParkedDelay
      /\ needs' \in BOOLEAN
      /\ \/ native' = recAt' /\ cached' = recAt'
         \/ native' = native /\ cached' = current /\ current # NoTime /\ current <= recAt'
  BY <1>1, GuardIsKept DEF IInv
<1>3. Deferred => recAt' \in 0..InFlight
  BY <1>2, TimesAreIntegers DEF IInv, GuardTimed
<1>4. recAt' \in Native
  BY <1>2, TimesAreIntegers DEF IInv, Native
<1>5. CASE native' = recAt' /\ cached' = recAt'
  <2>1. Within(cached)'
    BY <1>2, <1>5 DEF Within
  <2>2. native' >= 0 /\ native' <= ParkedDelay
    BY <1>2, <1>5
  <2>3. QED
    BY <1>2, <1>3, <1>4, <1>5, <2>1, <2>2 DEF Reconciled
<1>6. CASE native' = native /\ cached' = current /\ current # NoTime /\ current <= recAt'
  <2>1. current >= 0
    BY <1>1, <1>6 DEF NoTime
  <2>2. CASE Within(current)
    <3>1. native >= 0 /\ native <= ParkedDelay /\ (Deferred => native \in 0..InFlight)
      BY <1>1, <1>2, <1>3, <1>6, <2>2, TimesAreIntegers DEF Within, IInv
    <3>2. Within(cached)'
      BY <1>6, <2>2 DEF Within
    <3>3. QED
      BY <1>2, <1>3, <1>6, <3>1, <3>2 DEF Reconciled, IInv, TypeOK
  <2>3. CASE native = NoTime /\ Fired
    BY <1>2, <1>3, <1>6, <2>3 DEF Reconciled, IInv, TypeOK
  <2>4. QED
    BY <2>1, <2>2, <2>3
<1>7. QED
  BY <1>2, <1>5, <1>6

LEMMA TransactionReconciles ==
    ASSUME IInv, NEW next \in Delays \cup {NoTime}, NEW response \in BOOLEAN,
           Transaction(next, response)
    PROVE  wake' = next /\ Reconciled(next)
<1>1. wake' = next /\ recDelay' = recDelay
  BY DEF Transaction
<1>2. PICK current \in Observable :
        IF Deferred \/ active THEN KeepGuard(current) ELSE Rearm(next, current, response)
  BY DEF Transaction, Reconcile
<1>3. CASE Deferred \/ active
  <2>1. current \in Native
    BY DEF Observable, IInv, TypeOK
  <2>2. current >= 0 => Within(current) \/ (native = NoTime /\ Fired)
    <3>1. CASE current = native
      BY <3>1, TimesAreIntegers DEF IInv, Within
    <3>2. CASE current = cached
      BY <3>2 DEF IInv, CacheSafe, Within
    <3>3. QED
      BY <3>1, <3>2 DEF Observable
  <2>3. QED
    BY <1>1, <1>2, <1>3, <2>1, <2>2, GuardCovers
<1>4. CASE ~ (Deferred \/ active)
  <2>1. current = native
    BY <1>4 DEF Observable
  <2>2. Rearm(next, native, response)
    BY <1>2, <1>4, <2>1
  <2>3. /\ native' \in Native /\ cached' = native'
        /\ next # NoTime => native' >= 0 /\ (native' <= next \/ native' <= InFlight)
        /\ recAt' = recAt /\ needs' = needs
    BY <2>2, AlarmIsRearmed DEF IInv
  <2>4. native' \in Int /\ next \in Int
    BY <2>3, WakeAssumption DEF Native, Delays, NoTime
  <2>5. next # NoTime => native' >= 0 /\ (native' <= next \/ native' <= ParkedDelay)
    BY <2>3, <2>4, TimesAreIntegers DEF IInv
  <2>6. cached' >= 0 => Within(cached)'
    BY <2>3, <2>4 DEF Within
  <2>7. QED
    BY <1>1, <1>4, <2>3, <2>5, <2>6 DEF Reconciled, IInv, TypeOK
<1>5. QED
  BY <1>3, <1>4

-----------------------------------------------------------------------------
(* Every step keeps the types.                                              *)

LEMMA GuardWriteKeeps ==
    ASSUME IInv, NEW s \in Scopes, GuardWrite(s)
    PROVE  Reconciled(wake)
<1>1. recDelay' = recDelay
  BY DEF GuardWrite
<1>2. seen \in Native /\ wake \in Delays \cup {NoTime}
  BY DEF IInv, TypeOK
<1>3. CASE scope[s] = "deciding" /\ KeepGuard(seen)
  <2>1. seen >= 0 => Within(seen)
    BY <1>3 DEF IInv, SeenSafe
  <2>2. QED
    BY <1>1, <1>2, <1>3, <2>1, GuardCovers
<1>4. CASE active /\ cached # Unknown /\ KeepGuard(cached)
  <2>1. cached \in Native
    BY <1>4 DEF IInv, TypeOK
  <2>2. cached >= 0 => Within(cached) \/ (native = NoTime /\ Fired)
    BY DEF IInv, CacheSafe
  <2>3. QED
    BY <1>1, <1>2, <1>4, <2>1, <2>2, GuardCovers
<1>5. QED
  BY <1>3, <1>4 DEF GuardWrite

LEMMA EnterTypes ==
    ASSUME TypeOK, NEW s \in Scopes, Enter(s)
    PROVE  /\ scope' \in [Scopes -> Holding \cup {"idle", "releasing", "clearing"}]
           /\ waking' \in BOOLEAN /\ guard' \in {"none", "pending", "ready", "failed"}
           /\ recDelay' \in {InFlight, ParkedDelay} /\ recAt' \in 0..ParkedDelay \cup {Reset}
           /\ UNCHANGED <<wake, native, cached, seen, needs>>
<1>1. scope' \in [Scopes -> Holding \cup {"idle", "releasing", "clearing"}]
  BY DEF TypeOK, Enter, Holding
<1>2. InFlight \in 0..ParkedDelay
  BY WakeAssumption
<1>3. CASE Deferred
  BY <1>1, <1>3 DEF TypeOK, Enter
<1>4. CASE ~ Deferred
  BY <1>1, <1>2, <1>4 DEF TypeOK, Enter
<1>5. QED
  BY <1>3, <1>4

LEMMA RegionTypes ==
    ASSUME IInv, NEW s \in Scopes, Region(s)
    PROVE  TypeOK'
<1> USE DEF IInv
<1>1. CASE EnterInline(s)
  BY <1>1, EnterTypes DEF TypeOK, EnterInline, callVars
<1>2. CASE GuardRead(s)
  BY <1>2 DEF TypeOK, GuardRead, callVars, Holding
<1>3. CASE GuardWrite(s)
  <2>1. Reconciled(wake)
    BY <1>3, GuardWriteKeeps
  <2>2. UNCHANGED <<wake, waking, recDelay, call, pending, active, failed>>
    BY <1>3 DEF GuardWrite, callVars
  <2>3. scope' = [scope EXCEPT ![s] = "body"] /\ seen' = NoTime /\ guard' = "ready"
    BY <1>3 DEF GuardWrite
  <2>4. QED
    BY <2>1, <2>2, <2>3 DEF TypeOK, Reconciled, Holding, Native
<1>4. CASE GuardFails(s)
  BY <1>4 DEF TypeOK, GuardFails, Leave, callVars, Native
<1>5. CASE Await(s)
  BY <1>5 DEF TypeOK, Await, Leave, callVars, Native, Holding
<1>6. CASE Exit(s)
  BY <1>6 DEF TypeOK, Exit, Leave, callVars, Native
<1>7. CASE Release(s)
  <2>1. scope' = [scope EXCEPT ![s] = "clearing"]
        /\ UNCHANGED <<seen, waking, guard, call, pending, active, failed>>
    BY <1>7 DEF Release, callVars
  <2>2. CASE RolledBack
    BY <2>1, <2>2 DEF TypeOK, RolledBack
  <2>3. CASE \E response \in BOOLEAN : Transaction(wake, response)
    <3>1. wake \in Delays \cup {NoTime}
      BY DEF TypeOK
    <3>2. wake' = wake /\ Reconciled(wake)
      BY <2>3, <3>1, TransactionReconciles
    <3>3. QED
      BY <2>1, <3>2 DEF TypeOK, Reconciled
  <2>4. QED
    BY <1>7, <2>2, <2>3 DEF Release
<1>8. CASE Clear(s)
  BY <1>8 DEF TypeOK, Clear, callVars
<1>9. QED
  BY <1>1, <1>2, <1>3, <1>4, <1>5, <1>6, <1>7, <1>8 DEF Region

\* A transaction that leaves the work as it is.
LEMMA Reconciliation ==
    ASSUME IInv, Transaction(wake, FALSE)
    PROVE  wake' = wake /\ Reconciled(wake)
<1>1. wake \in Delays \cup {NoTime}
  BY DEF IInv, TypeOK
<1>2. QED
  BY <1>1, TransactionReconciles

LEMMA CallTypes ==
    ASSUME IInv, NEW c \in Callers, Call(c)
    PROVE  TypeOK'
<1> USE DEF IInv
<1> DEFINE Stages == {"idle", "fired", "restoring", "waiting", "acquiring", "dispatching",
                      "passing", "reconciling", "completing", "joining", "joined", "late"}
<1>1. CASE c \in Natives /\ Fire(c)
  BY <1>1 DEF TypeOK, Fire, Goto, scopeVars, Native
<1>2. CASE c \in Natives /\ Deliver(c)
  BY <1>2 DEF TypeOK, Deliver, Own, Join, Goto, scopeVars
<1>3. CASE c \in Natives /\ JoinRestore(c)
  <2>1. UNCHANGED <<scope, seen, waking, guard, pending, active, failed>>
    BY <1>3 DEF JoinRestore, scopeVars
  <2>2. CASE Transaction(wake, FALSE) /\ Goto(c, IF call[c] = "joining" THEN "joined" ELSE "idle")
    <3>1. wake' = wake /\ Reconciled(wake)
      BY <2>2, Reconciliation
    <3>2. call' \in [Callers -> Stages]
      BY <2>2 DEF Goto, TypeOK
    <3>3. QED
      BY <2>1, <3>1, <3>2 DEF TypeOK, Reconciled
  <2>3. CASE /\ StorageFaults
             /\ Goto(c, "idle")
             /\ native' = IF native = NoTime THEN 0 ELSE native
             /\ UNCHANGED <<wake, cached, needs, recDelay, recAt>>
    <3>1. native' \in Native
      BY <2>3, WakeAssumption DEF TypeOK, Native
    <3>2. call' \in [Callers -> Stages]
      BY <2>3 DEF Goto, TypeOK
    <3>3. QED
      BY <2>1, <2>3, <3>1, <3>2 DEF TypeOK
  <2>4. QED
    BY <1>3, <2>2, <2>3 DEF JoinRestore
<1>4. CASE c \in Posts /\ PostEvent(c)
  <2>1. CASE Own(c)
    <3>1. needs' = (c \in Natives) /\ failed' = FALSE /\ pending' = c
      BY <2>1 DEF Own
    <3>2. call' \in [Callers -> Stages]
      BY <2>1 DEF Own, Goto, TypeOK
    <3>3. needs' \in BOOLEAN
      BY <3>1
    <3>4. QED
      BY <1>4, <3>1, <3>2, <3>3 DEF PostEvent, TypeOK, scopeVars
  <2>2. CASE Join(c)
    BY <1>4, <2>2 DEF TypeOK, PostEvent, Join, Goto, scopeVars
  <2>3. QED
    BY <1>4, <2>1, <2>2 DEF PostEvent
<1>5. CASE Restore(c)
  <2>1. UNCHANGED <<scope, seen, waking, guard>>
    BY <1>5 DEF Restore, scopeVars
  <2>2. CASE Transaction(wake, FALSE) /\ Goto(c, "waiting") /\ UNCHANGED <<active, failed, pending>>
    <3>1. wake' = wake /\ Reconciled(wake)
      BY <2>2, Reconciliation
    <3>2. QED
      BY <2>1, <2>2, <3>1 DEF TypeOK, Reconciled, Goto
  <2>3. CASE StorageFaults /\ cached' = Unknown /\ FailsEarly(c)
    BY <2>1, <2>3 DEF TypeOK, FailsEarly, Goto
  <2>4. QED
    BY <1>5, <2>2, <2>3 DEF Restore
<1>6. CASE StartDispatch(c) \/ BeginDispatch(c)
  BY <1>6 DEF TypeOK, StartDispatch, BeginDispatch, Goto, scopeVars
<1>7. CASE NothingDue(c)
  BY <1>7 DEF TypeOK, NothingDue, Ends, Goto, scopeVars
<1>8. CASE AcquireFails(c)
  BY <1>8 DEF TypeOK, AcquireFails, FailsEarly, Goto, scopeVars
<1>9. CASE EnterPass(c)
  <2>1. PassScope \in Scopes /\ Enter(PassScope)
    BY <1>9 DEF EnterPass, Scopes
  <2>2. call' \in [Callers -> Stages] /\ UNCHANGED <<pending, active, failed>>
    BY <1>9 DEF EnterPass, Goto, TypeOK
  <2>3. QED
    BY <2>1, <2>2, EnterTypes DEF TypeOK
<1>10. CASE EndDispatch(c)
  <2>1. failed' \in BOOLEAN
    BY <1>10, WakeAssumption DEF EndDispatch
  <2>2. QED
    BY <1>10, <2>1 DEF TypeOK, EndDispatch, Ends, Goto, scopeVars
<1>11. CASE ReconcileDispatch(c)
  <2>1. UNCHANGED <<scope, seen, waking, guard, pending, active>> /\ Goto(c, "completing")
    BY <1>11 DEF ReconcileDispatch, scopeVars
  <2>2. CASE Transaction(wake, FALSE) /\ UNCHANGED failed
    <3>1. wake' = wake /\ Reconciled(wake)
      BY <2>2, Reconciliation
    <3>2. QED
      BY <2>1, <2>2, <3>1 DEF TypeOK, Reconciled, Goto
  <2>3. CASE RolledBack /\ failed' = TRUE
    BY <2>1, <2>3 DEF TypeOK, RolledBack, Goto
  <2>4. QED
    BY <1>11, <2>2, <2>3 DEF ReconcileDispatch
<1>12. CASE Complete(c)
  <2>1. native' \in Native
    BY <1>12, WakeAssumption DEF Complete, TypeOK, Native
  <2>2. call' \in [Callers -> Stages]
    BY <1>12 DEF Complete, TypeOK
  <2>3. QED
    BY <1>12, <2>1, <2>2 DEF Complete, TypeOK, scopeVars
<1>13. QED
  BY <1>1, <1>2, <1>3, <1>4, <1>5, <1>6, <1>7, <1>8, <1>9, <1>10, <1>11, <1>12 DEF Call

LEMMA TickTypes ==
    ASSUME IInv, Tick
    PROVE  TypeOK'
<1>1. \A time \in Int : Later(time) = IF time > 0 THEN time - 1 ELSE time
  BY DEF Later
<1>2. wake' \in Delays \cup {NoTime}
  BY <1>1, TimesAreIntegers DEF Tick, IInv, TypeOK, Delays, NoTime
<1>3. native' \in Native
  BY <1>1, TimesAreIntegers DEF Tick, IInv, TypeOK, Native, NoTime
<1>4. cached' \in Native \cup {Unknown}
  BY <1>1, TimesAreIntegers DEF Tick, IInv, TypeOK, Native, NoTime, Unknown
<1>5. seen' \in Native
  BY <1>1, TimesAreIntegers DEF Tick, IInv, TypeOK, Native, NoTime
<1>6. recAt' \in 0..ParkedDelay \cup {Reset}
  BY <1>1, TimesAreIntegers DEF Tick, IInv, TypeOK, Reset
<1>7. QED
  BY <1>2, <1>3, <1>4, <1>5, <1>6 DEF Tick, IInv, TypeOK, callVars

LEMMA TypeStep ==
    ASSUME IInv, [Next]_vars
    PROVE  TypeOK'
<1>1. CASE Write
  <2>1. PICK next \in Delays \cup {NoTime}, response \in BOOLEAN : Transaction(next, response)
    BY <1>1 DEF Write
  <2>2. wake' = next /\ Reconciled(next)
    BY <2>1, TransactionReconciles
  <2>3. QED
    BY <1>1, <2>2 DEF IInv, Write, TypeOK, Reconciled, scopeVars, callVars
<1>2. CASE Crash
  <2>1. native' \in Native
    BY <1>2, WakeAssumption DEF Crash, IInv, TypeOK, Native
  <2>2. QED
    BY <1>2, <2>1, WakeAssumption DEF Crash, IInv, TypeOK, Native, Holding
<1>3. CASE UNCHANGED vars
  BY <1>3 DEF IInv, TypeOK, vars
<1>4. QED
  BY <1>1, <1>2, <1>3, RegionTypes, CallTypes, TickTypes DEF Next

-----------------------------------------------------------------------------
(* The regions.                                                             *)

LEMMA HeldIs ==
    /\ Deferred <=> \E s \in Scopes : scope[s] \in Holding
    /\ Deferred' <=> \E s \in Scopes : scope'[s] \in Holding
  BY DEF Deferred, Held

\* What a region's own step does to the others.
LEMMA OneRegionMoves ==
    ASSUME TypeOK, NEW s \in Scopes, NEW stage, scope' = [scope EXCEPT ![s] = stage]
    PROVE  /\ scope'[s] = stage
           /\ \A t \in Scopes : t # s => scope'[t] = scope[t]
           /\ stage \in Holding => Deferred'
           /\ stage \notin Holding => (Deferred' <=> Held(scope) \ {s} # {})
           /\ scope[s] \in Holding => Deferred
           /\ (scope[s] \in Holding <=> stage \in Holding) => (Deferred' <=> Deferred)
  BY DEF TypeOK, Deferred, Held

LEMMA RegionsStep ==
    ASSUME IInv, [Next]_vars
    PROVE  RegionsHold' /\ GuardTimed'
<1> USE DEF IInv
<1>1. \A time \in Int : Later(time) = IF time > 0 THEN time - 1 ELSE time
  BY DEF Later
<1>2. ASSUME UNCHANGED <<scope, waking, guard>>
      PROVE  RegionsHold' /\ (Deferred' <=> Deferred)
  BY <1>2 DEF RegionsHold, Arming, Deferred, Held
<1>3. ASSUME NEW next \in Delays \cup {NoTime}, UNCHANGED <<scope, waking, guard>>,
             Reconciled(next)
      PROVE  RegionsHold' /\ GuardTimed'
  BY <1>2, <1>3 DEF GuardTimed, Reconciled
<1>4. ASSUME UNCHANGED <<scope, waking, guard, recDelay, recAt>>
      PROVE  RegionsHold' /\ GuardTimed'
  BY <1>2, <1>4 DEF GuardTimed
<1>5. ASSUME NEW s \in Scopes, Enter(s)
      PROVE  RegionsHold' /\ GuardTimed'
  <2>1. scope' = [scope EXCEPT ![s] = IF Deferred THEN "awaiting" ELSE "guarding"]
    BY <1>5 DEF Enter
  <2>2. CASE Deferred
    <3>1. UNCHANGED <<waking, guard, recDelay, recAt>>
      BY <1>5, <2>2 DEF Enter
    <3>2. scope'[s] = "awaiting" /\ \A t \in Scopes : t # s => scope'[t] = scope[t]
      BY <2>1, <2>2, OneRegionMoves
    <3>3. QED
      BY <2>2, <3>1, <3>2 DEF RegionsHold, GuardTimed, Arming
  <2>3. CASE ~ Deferred
    <3>1. waking' = TRUE /\ guard' = "pending" /\ recDelay' = InFlight /\ recAt' = InFlight
      BY <1>5, <2>3 DEF Enter
    <3>2. scope'[s] = "guarding" /\ \A t \in Scopes : t # s => scope'[t] = scope[t]
      BY <2>1, <2>3, OneRegionMoves
    <3>3. \A t \in Scopes : ~ scope[t] \in Holding
      BY <2>3, HeldIs
    <3>4. QED
      BY <3>1, <3>2, <3>3, TimesAreIntegers DEF RegionsHold, GuardTimed, Arming, Holding
  <2>4. QED
    BY <2>2, <2>3
<1>6. ASSUME NEW s \in Scopes, scope[s] \in Holding, Leave(s),
             \/ UNCHANGED guard /\ ~ Arming(s)
             \/ guard' = "failed" /\ Arming(s)
      PROVE  RegionsHold' /\ GuardTimed'
  <2> DEFINE stage == IF Held(scope) # {s} THEN "idle" ELSE IF active THEN "clearing" ELSE "releasing"
  <2>1. scope' = [scope EXCEPT ![s] = stage] /\ UNCHANGED <<waking, recDelay, recAt>>
    BY <1>6 DEF Leave
  <2>2. /\ scope'[s] = stage
        /\ \A t \in Scopes : t # s => scope'[t] = scope[t]
        /\ Deferred /\ stage \notin Holding
    BY <1>6, <2>1, OneRegionMoves DEF Holding
  <2>3. waking' = waking /\ waking
    BY <2>1, <2>2 DEF RegionsHold
  <2>4. \A t \in Scopes : Arming(t)' => Arming(t) /\ t # s
    BY <2>2 DEF Arming
  <2>5. \A t \in Scopes : scope'[t] = "body" => scope[t] = "body" /\ t # s
    BY <2>2
  <2>6. CASE UNCHANGED guard /\ ~ Arming(s)
    BY <2>1, <2>2, <2>3, <2>4, <2>5, <2>6 DEF RegionsHold, GuardTimed
  <2>7. CASE guard' = "failed" /\ Arming(s)
    <3>1. \A t \in Scopes : ~ Arming(t)'
      BY <2>4, <2>7 DEF RegionsHold
    <3>2. \A t \in Scopes : scope[t] # "body"
      BY <2>7 DEF RegionsHold
    <3>3. QED
      BY <2>1, <2>2, <2>3, <2>5, <3>1, <3>2 DEF RegionsHold, GuardTimed
  <2>8. QED
    BY <1>6, <2>6, <2>7
<1>7. ASSUME NEW s \in Scopes, Region(s)
      PROVE  RegionsHold' /\ GuardTimed'
  <2>1. CASE EnterInline(s)
    BY <1>5, <2>1 DEF EnterInline
  <2>2. CASE GuardRead(s)
    <3>1. /\ scope[s] = "guarding" /\ scope'[s] = "deciding"
          /\ \A t \in Scopes : t # s => scope'[t] = scope[t]
          /\ Deferred /\ UNCHANGED <<waking, guard, recDelay, recAt>>
      BY <2>2, OneRegionMoves DEF GuardRead, Holding
    <3>2. QED
      BY <3>1 DEF RegionsHold, GuardTimed, Arming
  <2>3. CASE GuardWrite(s)
    <3>1. Arming(s) /\ guard' = "ready" /\ UNCHANGED waking
      BY <2>3 DEF GuardWrite, Arming
    <3>2. /\ scope'[s] = "body" /\ \A t \in Scopes : t # s => scope'[t] = scope[t]
          /\ Deferred
      BY <2>3, <3>1, OneRegionMoves DEF GuardWrite, Holding, Arming
    <3>3. recDelay' = InFlight /\ recAt' \in 0..InFlight
      BY <2>3, <3>2, GuardWriteKeeps DEF Reconciled, GuardTimed, GuardWrite
    <3>4. \A t \in Scopes : ~ Arming(t)'
      BY <3>1, <3>2 DEF RegionsHold, Arming
    <3>5. QED
      BY <3>1, <3>2, <3>3, <3>4 DEF RegionsHold, GuardTimed
  <2>4. CASE GuardFails(s)
    <3>1. scope[s] \in Holding /\ Leave(s) /\ guard' = "failed" /\ Arming(s)
      BY <2>4 DEF GuardFails, Arming, Holding
    <3>2. QED
      BY <1>6, <3>1
  <2>5. CASE Await(s)
    <3>1. scope[s] = "awaiting" /\ scope[s] \in Holding /\ ~ Arming(s)
      BY <2>5 DEF Await, Holding, Arming
    <3>2. CASE /\ guard = "ready" /\ scope' = [scope EXCEPT ![s] = "body"]
               /\ UNCHANGED <<waking, guard, recDelay, recAt>>
      <4>1. /\ scope'[s] = "body" /\ \A t \in Scopes : t # s => scope'[t] = scope[t]
            /\ Deferred
        BY <3>1, <3>2, OneRegionMoves
      <4>2. QED
        BY <3>2, <4>1 DEF RegionsHold, GuardTimed, Arming
    <3>3. CASE Leave(s) /\ UNCHANGED guard
      BY <1>6, <3>1, <3>3
    <3>4. QED
      BY <2>5, <3>2, <3>3 DEF Await
  <2>6. CASE Exit(s)
    <3>1. scope[s] \in Holding /\ Leave(s) /\ UNCHANGED guard /\ ~ Arming(s)
      BY <2>6 DEF Exit, Arming, Holding
    <3>2. QED
      BY <1>6, <3>1
  <2>7. CASE Release(s)
    <3>1. /\ scope[s] = "releasing" /\ scope' = [scope EXCEPT ![s] = "clearing"]
          /\ UNCHANGED <<waking, guard>>
      BY <2>7 DEF Release
    <3>2. /\ scope'[s] = "clearing" /\ \A t \in Scopes : t # s => scope'[t] = scope[t]
          /\ Deferred' <=> Deferred
      BY <3>1, OneRegionMoves DEF Holding
    <3>3. RegionsHold'
      BY <3>1, <3>2 DEF RegionsHold, Arming
    <3>4. CASE \E response \in BOOLEAN : Transaction(wake, response)
      <4>1. wake \in Delays \cup {NoTime}
        BY DEF TypeOK
      <4>2. Reconciled(wake)
        BY <3>4, <4>1, TransactionReconciles
      <4>3. QED
        BY <3>2, <3>3, <4>2 DEF Reconciled, GuardTimed
    <3>5. CASE RolledBack
      BY <3>2, <3>3, <3>5 DEF RolledBack, GuardTimed
    <3>6. QED
      BY <2>7, <3>4, <3>5 DEF Release
  <2>8. CASE Clear(s)
    <3>1. scope[s] = "clearing" /\ scope' = [scope EXCEPT ![s] = "idle"] /\ UNCHANGED <<recDelay, recAt>>
      BY <2>8 DEF Clear
    <3>2. /\ scope'[s] = "idle" /\ \A t \in Scopes : t # s => scope'[t] = scope[t]
          /\ Deferred' <=> Deferred
      BY <3>1, OneRegionMoves DEF Holding
    <3>3. CASE Deferred
      BY <2>8, <3>1, <3>2, <3>3 DEF Clear, RegionsHold, GuardTimed, Arming
    <3>4. CASE ~ Deferred
      <4>1. \A t \in Scopes : scope'[t] \notin Holding
        BY <3>2, <3>4, HeldIs
      <4>2. QED
        BY <3>2, <3>4, <4>1 DEF RegionsHold, GuardTimed, Arming, Holding
    <3>5. QED
      BY <3>3, <3>4
  <2>9. QED
    BY <1>7, <2>1, <2>2, <2>3, <2>4, <2>5, <2>6, <2>7, <2>8 DEF Region
<1>8. ASSUME NEW c \in Callers, Call(c)
      PROVE  RegionsHold' /\ GuardTimed'
  <2>1. wake \in Delays \cup {NoTime}
    BY DEF TypeOK
  <2>2. ASSUME Transaction(wake, FALSE), UNCHANGED <<scope, waking, guard>>
        PROVE  RegionsHold' /\ GuardTimed'
    BY <1>3, <2>1, <2>2, TransactionReconciles
  <2>3. ASSUME FailsEarly(c), UNCHANGED <<scope, waking, guard>>
        PROVE  RegionsHold' /\ GuardTimed'
    BY <1>2, <2>3 DEF FailsEarly, GuardTimed
  <2>4. CASE (c \in Natives /\ (Fire(c) \/ Deliver(c))) \/ (c \in Posts /\ PostEvent(c))
    BY <1>4, <2>4 DEF Fire, Deliver, PostEvent, scopeVars
  <2>5. CASE StartDispatch(c) \/ BeginDispatch(c) \/ NothingDue(c) \/ EndDispatch(c) \/ Complete(c)
    BY <1>4, <2>5 DEF StartDispatch, BeginDispatch, NothingDue, EndDispatch, Ends, Complete, scopeVars
  <2>6. CASE JoinRestore(c)
    BY <1>4, <2>2, <2>6 DEF JoinRestore, scopeVars
  <2>7. CASE Restore(c)
    BY <2>2, <2>3, <2>7 DEF Restore, scopeVars
  <2>8. CASE AcquireFails(c)
    BY <2>3, <2>8 DEF AcquireFails, scopeVars
  <2>9. CASE EnterPass(c)
    BY <1>5, <2>9 DEF EnterPass, Scopes
  <2>10. CASE ReconcileDispatch(c)
    BY <1>4, <2>2, <2>10 DEF ReconcileDispatch, RolledBack, scopeVars
  <2>11. QED
    BY <1>8, <2>4, <2>5, <2>6, <2>7, <2>8, <2>9, <2>10 DEF Call
<1>9. CASE Write
  <2>1. PICK next \in Delays \cup {NoTime}, response \in BOOLEAN : Transaction(next, response)
    BY <1>9 DEF Write
  <2>2. QED
    BY <1>3, <1>9, <2>1, TransactionReconciles DEF Write, scopeVars
<1>10. CASE Crash
  BY <1>10 DEF Crash, RegionsHold, GuardTimed, Arming, Deferred, Held, Holding
<1>11. CASE Tick
  <2>1. RegionsHold' /\ (Deferred' <=> Deferred)
    BY <1>2, <1>11 DEF Tick
  <2>2. Deferred => recAt' \in 0..InFlight
    BY <1>1, <1>11, TimesAreIntegers DEF Tick, GuardTimed
  <2>3. QED
    BY <1>11, <2>1, <2>2 DEF Tick, GuardTimed
<1>12. CASE UNCHANGED vars
  BY <1>4, <1>12 DEF vars
<1>13. QED
  BY <1>7, <1>8, <1>9, <1>10, <1>11, <1>12 DEF Next

-----------------------------------------------------------------------------
(* The calls.                                                               *)

\* One call moves from a stage to another, and pendingAlarm with it.
LEMMA OneCallMoves ==
    ASSUME IInv, NEW c \in Callers, NEW stage, Goto(c, stage),
           \/ /\ call[c] \in Working \cup {"completing"} /\ pending' = pending
              /\ stage \in Working \cup {"completing"}
           \/ /\ call[c] \notin Working \cup {"completing"} /\ pending' = pending
              /\ stage \notin Working \cup {"completing"}
           \/ /\ pending = NoCaller /\ pending' = c
              /\ stage \in Working \cup {"completing"},
           stage \in {"fired", "joining", "late", "restoring"} => c \in Natives
    PROVE  PassOwned'
<1>2. call'[c] = stage /\ \A d \in Callers : d # c => call'[d] = call[d]
  BY DEF Goto, IInv, TypeOK
<1>3. NoCaller \notin Callers
  BY WakeAssumption DEF Callers
<1>4. \A d \in Callers : call'[d] \in Working \cup {"completing"} <=> pending' = d
  BY <1>2, <1>3 DEF IInv, PassOwned
<1>5. \A d \in Callers : call'[d] \in {"fired", "joining", "late", "restoring"} => d \in Natives
  BY <1>2 DEF IInv, PassOwned
<1>6. QED
  BY <1>4, <1>5 DEF PassOwned

LEMMA PassStep ==
    ASSUME IInv, [Next]_vars
    PROVE  PassOwned'
<1>1. ASSUME UNCHANGED callVars
      PROVE  PassOwned'
  BY <1>1 DEF callVars, IInv, PassOwned
<1>2. ASSUME NEW c \in Callers, Own(c), call[c] \in {"idle", "fired"}
      PROVE  PassOwned'
  BY <1>2, OneCallMoves DEF Own, Working
<1>3. ASSUME NEW c \in Callers, Join(c), call[c] \in {"idle", "fired"}
      PROVE  PassOwned'
  BY <1>3, OneCallMoves DEF Join, Working
<1>4. ASSUME NEW c \in Callers, Call(c)
      PROVE  PassOwned'
  <2>1. CASE c \in Natives /\ Fire(c)
    BY <2>1, OneCallMoves DEF Fire, Working
  <2>2. CASE c \in Natives /\ Deliver(c)
    BY <1>2, <1>3, <2>2 DEF Deliver
  <2>3. CASE c \in Natives /\ JoinRestore(c)
    BY <2>3, OneCallMoves DEF JoinRestore, Working
  <2>4. CASE c \in Posts /\ PostEvent(c)
    BY <1>2, <1>3, <2>4 DEF PostEvent
  <2>5. CASE Restore(c)
    BY <2>5, OneCallMoves DEF Restore, FailsEarly, Working
  <2>6. CASE StartDispatch(c) \/ BeginDispatch(c)
    BY <2>6, OneCallMoves DEF StartDispatch, BeginDispatch, Working
  <2>7. CASE NothingDue(c)
    BY <2>7, OneCallMoves DEF NothingDue, Ends, Working
  <2>8. CASE AcquireFails(c)
    BY <2>8, OneCallMoves DEF AcquireFails, FailsEarly, Working
  <2>9. CASE EnterPass(c)
    BY <2>9, OneCallMoves DEF EnterPass, Working
  <2>10. CASE EndDispatch(c)
    BY <2>10, OneCallMoves DEF EndDispatch, Ends, Working
  <2>11. CASE ReconcileDispatch(c)
    BY <2>11, OneCallMoves DEF ReconcileDispatch, Working
  <2>12. CASE Complete(c)
    <3>1. pending = c /\ pending' = NoCaller /\ c \notin {NoCaller}
      BY <2>12, WakeAssumption DEF Complete, IInv, PassOwned, Callers
    <3>2. \A d \in Callers :
            call'[d] = IF d = c \/ call[d] = "joined" THEN "idle"
                       ELSE IF call[d] = "joining" THEN "late" ELSE call[d]
      BY <2>12 DEF Complete
    <3>3. \A d \in Callers : call'[d] \notin Working \cup {"completing"}
      BY <3>1, <3>2 DEF IInv, PassOwned, Working
    <3>4. \A d \in Callers : d # NoCaller
      BY WakeAssumption DEF Callers
    <3>5. \A d \in Callers : call'[d] \in {"fired", "joining", "late", "restoring"} => d \in Natives
      BY <3>2 DEF IInv, PassOwned
    <3>6. QED
      BY <3>1, <3>3, <3>4, <3>5 DEF PassOwned
  <2>13. QED
    BY <1>4, <2>1, <2>2, <2>3, <2>4, <2>5, <2>6, <2>7, <2>8, <2>9, <2>10, <2>11, <2>12 DEF Call
<1>5. ASSUME NEW s \in Scopes, Region(s)
      PROVE  UNCHANGED callVars
  BY <1>5 DEF Region, EnterInline, GuardRead, GuardWrite, GuardFails, Await, Exit, Leave,
              Release, Clear
<1>6. CASE Crash
  <2>1. \A c \in Callers : call'[c] = "idle" /\ pending' # c
    BY <1>6, WakeAssumption DEF Crash, Callers
  <2>2. QED
    BY <2>1 DEF PassOwned, Working
<1>7. CASE Write \/ Tick \/ UNCHANGED vars
  BY <1>1, <1>7 DEF Write, Tick, vars, callVars
<1>8. QED
  BY <1>1, <1>4, <1>5, <1>6, <1>7 DEF Next

-----------------------------------------------------------------------------
(* The native alarm.                                                        *)

\* What the four invariants of the native alarm say together.
Safe == SeenSafe /\ CacheSafe /\ Covered /\ GuardArmed

LEMMA AlarmUntouched ==
    ASSUME IInv, UNCHANGED <<wake, native>>, (cached' = cached /\ (Fired => Fired')) \/ cached' = Unknown,
           Owing => Owing',
           \A s \in Scopes : scope'[s] = "deciding" =>
              seen' = native \/ (scope[s] = "deciding" /\ seen' = seen),
           Deferred' /\ guard' = "ready" => Deferred /\ guard = "ready"
    PROVE  Safe'
<1> USE DEF IInv
<1>1. native \in Int /\ seen \in Int
  BY TimesAreIntegers
<1>2. SeenSafe'
  BY <1>1 DEF SeenSafe, Within
<1>3. CacheSafe'
  <2>1. CASE cached' = Unknown
    BY <2>1 DEF CacheSafe, Unknown
  <2>2. CASE cached' = cached /\ (Fired => Fired')
    BY <2>2 DEF CacheSafe, Within
  <2>3. QED
    BY <2>1, <2>2
<1>4. Covered' /\ GuardArmed'
  BY DEF Covered, Near, GuardArmed
<1>5. QED
  BY <1>2, <1>3, <1>4 DEF Safe

LEMMA AlarmReconciled ==
    ASSUME IInv, NEW next \in Delays \cup {NoTime}, wake' = next, Reconciled(next),
           Fired => Fired',
           \A s \in Scopes : scope'[s] = "deciding" => scope[s] = "deciding" /\ seen' = seen,
           Deferred' => Deferred
    PROVE  Safe'
<1> USE DEF IInv
<1>1. native \in Int /\ seen \in Int /\ native' \in Int /\ next \in Int
  BY TimesAreIntegers, WakeAssumption DEF Reconciled, Native, Delays, NoTime
<1>2. SeenSafe'
  <2> SUFFICES ASSUME NEW s \in Scopes, scope'[s] = "deciding", seen' >= 0
               PROVE  Within(seen)'
    BY DEF SeenSafe
  <2>1. scope[s] = "deciding" /\ seen' = seen /\ Within(seen)
    BY DEF SeenSafe
  <2>2. Deferred
    BY <2>1, HeldIs DEF Holding
  <2>3. native' = native \/ native' \in 0..InFlight
    BY <2>2 DEF Reconciled
  <2>4. QED
    BY <1>1, <2>1, <2>3, TimesAreIntegers DEF Within
<1>3. CacheSafe'
  BY DEF CacheSafe, Reconciled
<1>4. Fired' => Owing'
  BY DEF Fired, Owing
<1>5. Covered'
  BY <1>4 DEF Covered, Near, Reconciled
<1>6. GuardArmed'
  BY <1>4 DEF GuardArmed, Reconciled
<1>7. QED
  BY <1>2, <1>3, <1>5, <1>6 DEF Safe

\* A call that moves on still owes what it owed, and so do the others.
LEMMA OwingStays ==
    ASSUME IInv, NEW c \in Callers, NEW stage, Goto(c, stage),
           \/ c \in Posts
           \/ call[c] \in {"idle", "joined"}
           \/ stage \in {"fired", "joining", "late"} \cup Working
           \/ stage = "completing" /\ failed',
           \/ failed' = failed
           \/ failed'
           \/ call[c] \in Working
           \/ pending = NoCaller
    PROVE  Owing => Owing'
<1>1. call'[c] = stage /\ \A d \in Callers : d # c => call'[d] = call[d]
  BY DEF Goto, IInv, TypeOK
<1>2. Posts \cap Natives = {} /\ Natives \subseteq Callers /\ NoCaller \notin Callers
  BY WakeAssumption DEF Callers
<1>3. SUFFICES ASSUME NEW n \in Natives,
                      \/ call[n] \in {"fired", "joining", "late"} \cup Working
                      \/ call[n] = "completing" /\ failed
               PROVE  Owing'
  BY DEF Owing
<1>4. CASE n = c
  <2>1. stage \in {"fired", "joining", "late"} \cup Working \/ (stage = "completing" /\ failed')
    BY <1>2, <1>3, <1>4 DEF Working
  <2>2. QED
    BY <1>1, <1>2, <1>4, <2>1 DEF Owing
<1>5. CASE n # c
  <2>1. call'[n] = call[n]
    BY <1>1, <1>2, <1>5
  <2>2. call[n] = "completing" => failed'
    <3>1. call[n] = "completing" => pending = n
      BY <1>2 DEF IInv, PassOwned
    <3>2. call[c] \in Working => pending = c
      BY DEF IInv, PassOwned
    <3>3. CASE call[c] \in Working \/ pending = NoCaller
      BY <1>2, <1>5, <3>1, <3>2, <3>3
    <3>4. CASE failed' = failed
      BY <1>3, <3>4 DEF Working
    <3>5. CASE failed'
      BY <3>5
    <3>6. QED
      BY <3>3, <3>4, <3>5
  <2>3. QED
    BY <1>3, <2>1, <2>2 DEF Owing
<1>6. QED
  BY <1>4, <1>5

LEMMA FiredStays ==
    ASSUME IInv, NEW c \in Callers, NEW stage, Goto(c, stage), call[c] # "fired"
    PROVE  Fired => Fired'
<1>1. \A n \in Natives : call[n] = "fired" => call'[n] = "fired"
  BY DEF Goto, IInv, TypeOK, Callers
<1>2. QED
  BY <1>1 DEF Fired

\* A call's step that leaves the regions alone.
LEMMA CallKeepsRegions ==
    ASSUME UNCHANGED scopeVars
    PROVE  /\ \A s \in Scopes : scope'[s] = "deciding" => scope[s] = "deciding" /\ seen' = seen
           /\ Deferred' <=> Deferred
           /\ guard' = guard
  BY DEF scopeVars, Deferred, Held

LEMMA CallSafe ==
    ASSUME IInv, NEW c \in Callers, Call(c)
    PROVE  Safe'
<1> USE DEF IInv
<1>1. ASSUME NEW stage, Goto(c, stage), call[c] # "fired", Transaction(wake, FALSE),
             UNCHANGED scopeVars
      PROVE  Safe'
  <2>1. wake \in Delays \cup {NoTime}
    BY DEF TypeOK
  <2>2. wake' = wake /\ Reconciled(wake)
    BY <1>1, Reconciliation
  <2>3. Fired => Fired'
    BY <1>1, FiredStays
  <2>4. QED
    BY <1>1, <2>1, <2>2, <2>3, AlarmReconciled, CallKeepsRegions
<1>2. ASSUME NEW stage, Goto(c, stage), UNCHANGED <<wake, native>>, UNCHANGED scopeVars,
             cached' = Unknown \/ (cached' = cached /\ call[c] # "fired"),
             Owing => Owing'
      PROVE  Safe'
  <2>1. (cached' = cached /\ (Fired => Fired')) \/ cached' = Unknown
    BY <1>2, FiredStays
  <2>2. QED
    BY <1>2, <2>1, AlarmUntouched, CallKeepsRegions
<1>3. CASE c \in Natives /\ Fire(c)
  <2>1. Goto(c, "fired") /\ native' = NoTime /\ UNCHANGED <<wake, cached, scopeVars>>
    BY <1>3 DEF Fire
  <2>2. call'[c] = "fired"
    BY <2>1 DEF Goto, TypeOK
  <2>3. Fired' /\ Owing'
    BY <1>3, <2>2 DEF Fired, Owing
  <2>4. \A s \in Scopes : scope'[s] # "deciding"
    BY <1>3 DEF Fire, scopeVars
  <2>5. QED
    BY <2>1, <2>3, <2>4 DEF Safe, SeenSafe, CacheSafe, Covered, GuardArmed
<1>4. CASE c \in Natives /\ Deliver(c)
  <2>1. call[c] = "fired" /\ cached' = Unknown /\ UNCHANGED <<wake, native, scopeVars>>
    BY <1>4 DEF Deliver
  <2>2. CASE Own(c)
    <3>1. PICK stage \in Working : Goto(c, stage)
      BY <2>2 DEF Own, Working
    <3>2. pending = NoCaller
      BY <2>2 DEF Own
    <3>3. Owing => Owing'
      BY <3>1, <3>2, OwingStays
    <3>4. QED
      BY <1>2, <2>1, <3>1, <3>3
  <2>3. CASE Join(c)
    <3>1. Goto(c, "joining") /\ failed' = failed
      BY <1>4, <2>3 DEF Join
    <3>2. Owing => Owing'
      BY <3>1, OwingStays
    <3>3. QED
      BY <1>2, <2>1, <3>1, <3>2
  <2>4. QED
    BY <1>4, <2>2, <2>3 DEF Deliver
<1>5. CASE c \in Natives /\ JoinRestore(c)
  <2>1. call[c] # "fired" /\ UNCHANGED <<scopeVars, failed>>
    BY <1>5 DEF JoinRestore
  <2>2. CASE Transaction(wake, FALSE) /\ Goto(c, IF call[c] = "joining" THEN "joined" ELSE "idle")
    BY <1>1, <2>1, <2>2
  <2>3. CASE /\ Goto(c, "idle")
             /\ native' = IF native = NoTime THEN 0 ELSE native
             /\ UNCHANGED <<wake, cached, needs, recDelay, recAt>>
    <3>1. Fired => Fired'
      BY <2>1, <2>3, FiredStays
    <3>2. CASE native = NoTime
      <4>1. native' = 0
        BY <2>3, <3>2
      <4>2. wake' # NoTime => wake' \in Nat
        BY <2>3, TimesAreIntegers DEF TypeOK, Delays
      <4>3. cached' >= 0 => Within(cached)'
        BY <4>1, TimesAreIntegers DEF Within
      <4>4. \A s \in Scopes : scope'[s] = "deciding" /\ seen' >= 0 => Within(seen)'
        BY <4>1, TimesAreIntegers DEF Within
      <4>5. QED
        BY <4>1, <4>2, <4>3, <4>4, TimesAreIntegers
        DEF Safe, SeenSafe, CacheSafe, Covered, Near, GuardArmed
    <3>3. CASE native # NoTime
      <4>1. native' = native
        BY <2>3, <3>3
      <4>2. SeenSafe' /\ CacheSafe'
        BY <2>1, <2>3, <3>3, <4>1, CallKeepsRegions DEF SeenSafe, CacheSafe, Within
      <4>3. Covered' /\ GuardArmed'
        BY <2>1, <2>3, <3>3, <4>1, CallKeepsRegions DEF Covered, Near, GuardArmed
      <4>4. QED
        BY <4>2, <4>3 DEF Safe
    <3>4. QED
      BY <3>2, <3>3
  <2>4. QED
    BY <1>5, <2>2, <2>3 DEF JoinRestore
<1>6. CASE c \in Posts /\ PostEvent(c)
  <2>1. call[c] = "idle" /\ UNCHANGED <<wake, native, cached, scopeVars>>
    BY <1>6 DEF PostEvent
  <2>2. PICK stage : Goto(c, stage)
    BY <1>6 DEF PostEvent, Own, Join
  <2>3. failed' = failed \/ pending = NoCaller
    BY <1>6 DEF PostEvent, Own, Join
  <2>4. Owing => Owing'
    BY <2>1, <2>2, <2>3, OwingStays
  <2>5. QED
    BY <1>2, <2>1, <2>2, <2>4
<1>7. CASE Restore(c)
  <2>1. call[c] = "restoring" /\ UNCHANGED scopeVars
    BY <1>7 DEF Restore
  <2>2. CASE Transaction(wake, FALSE) /\ Goto(c, "waiting")
    BY <1>1, <2>1, <2>2
  <2>3. CASE cached' = Unknown /\ FailsEarly(c)
    <3>1. Goto(c, "reconciling") /\ failed' /\ UNCHANGED <<wake, native>>
      BY <2>3 DEF FailsEarly
    <3>2. Owing => Owing'
      BY <3>1, OwingStays DEF Working
    <3>3. QED
      BY <1>2, <2>1, <2>3, <3>1, <3>2
  <2>4. QED
    BY <1>7, <2>2, <2>3 DEF Restore
<1>8. CASE StartDispatch(c) \/ BeginDispatch(c)
  <2>1. /\ call[c] # "fired" /\ UNCHANGED <<wake, native, cached, scopeVars, failed>>
        /\ Goto(c, "acquiring") \/ Goto(c, "dispatching")
    BY <1>8 DEF StartDispatch, BeginDispatch
  <2>2. PICK stage \in Working : Goto(c, stage)
    BY <2>1 DEF Working
  <2>3. Owing => Owing'
    BY <2>1, <2>2, OwingStays
  <2>4. QED
    BY <1>2, <2>1, <2>2, <2>3
<1>9. CASE NothingDue(c)
  <2>1. /\ c \in Posts /\ call[c] # "fired" /\ UNCHANGED <<wake, native, cached, scopeVars, failed>>
        /\ Goto(c, "reconciling") \/ Goto(c, "completing")
    BY <1>9 DEF NothingDue, Ends
  <2>2. PICK stage : Goto(c, stage)
    BY <2>1
  <2>3. Owing => Owing'
    BY <2>1, <2>2, OwingStays
  <2>4. QED
    BY <1>2, <2>1, <2>2, <2>3
<1>10. CASE AcquireFails(c)
  <2>1. /\ call[c] # "fired" /\ UNCHANGED <<wake, native, cached, scopeVars>>
        /\ failed' /\ Goto(c, "reconciling")
    BY <1>10 DEF AcquireFails, FailsEarly
  <2>2. Owing => Owing'
    BY <2>1, OwingStays DEF Working
  <2>3. QED
    BY <1>2, <2>1, <2>2
<1>11. CASE EnterPass(c)
  <2>1. /\ call[c] = "dispatching" /\ UNCHANGED <<wake, native, cached, seen, failed>>
        /\ Goto(c, "passing")
    BY <1>11 DEF EnterPass, Enter
  <2>2. Owing => Owing'
    BY <2>1, OwingStays DEF Working
  <2>3. Fired => Fired'
    BY <2>1, FiredStays
  <2>4. PassScope \in Scopes /\ scope' = [scope EXCEPT ![PassScope] = IF Deferred THEN "awaiting" ELSE "guarding"]
    BY <1>11 DEF EnterPass, Enter, Scopes
  <2>5. \A s \in Scopes : scope'[s] = "deciding" => scope[s] = "deciding"
    BY <2>4, OneRegionMoves
  <2>6. Deferred' /\ guard' = "ready" => Deferred /\ guard = "ready"
    BY <1>11 DEF EnterPass, Enter
  <2>7. QED
    BY <2>1, <2>2, <2>3, <2>5, <2>6, AlarmUntouched
<1>12. CASE EndDispatch(c)
  <2>1. /\ call[c] = "passing" /\ UNCHANGED <<wake, native, cached, scopeVars>>
        /\ Goto(c, "reconciling")
    BY <1>12 DEF EndDispatch, Ends
  <2>2. Owing => Owing'
    BY <2>1, OwingStays DEF Working
  <2>3. QED
    BY <1>2, <2>1, <2>2
<1>13. CASE ReconcileDispatch(c)
  <2>1. call[c] = "reconciling" /\ Goto(c, "completing") /\ UNCHANGED scopeVars
    BY <1>13 DEF ReconcileDispatch
  <2>2. CASE Transaction(wake, FALSE)
    BY <1>1, <2>1, <2>2
  <2>3. CASE RolledBack /\ failed' = TRUE
    <3>1. Owing => Owing'
      BY <2>1, <2>3, OwingStays
    <3>2. QED
      BY <1>2, <2>1, <2>3, <3>1 DEF RolledBack
  <2>4. QED
    BY <1>13, <2>2, <2>3 DEF ReconcileDispatch
<1>14. CASE Complete(c)
  <2> DEFINE ended == {d \in Callers : d = c \/ call[d] = "joined"}
  <2>1. /\ call[c] = "completing" /\ UNCHANGED <<wake, cached, scopeVars>>
        /\ call' = [d \in Callers |->
              IF d \in ended THEN "idle" ELSE IF call[d] = "joining" THEN "late" ELSE call[d]]
        /\ native' = IF failed /\ ended \cap Natives # {} /\ native = NoTime THEN 0 ELSE native
    BY <1>14 DEF Complete
  <2>2. Natives \subseteq Callers
    BY DEF Callers
  <2>3. \A d \in Callers :
          call'[d] = IF d \in ended THEN "idle" ELSE IF call[d] = "joining" THEN "late" ELSE call[d]
    BY <2>1
  <2>4. Fired => Fired'
    BY <2>1, <2>2, <2>3 DEF Fired
  <2>5. CASE native' = native
    <3>1. ASSUME native = NoTime, Owing
          PROVE  Owing'
      <4>1. PICK n \in Natives :
              \/ call[n] \in {"fired", "joining", "late"} \cup Working
              \/ call[n] = "completing" /\ failed
        BY <3>1 DEF Owing
      <4>2. CASE n \in ended
        <5>1. n = c \/ call[n] = "joined"
          BY <4>2
        <5>2. n = c /\ failed
          BY <2>1, <4>1, <5>1 DEF Working
        <5>3. native' = 0
          BY <2>1, <3>1, <4>2, <5>2
        <5>4. QED
          BY <2>5, <3>1, <5>3 DEF NoTime
      <4>3. CASE n \notin ended
        <5>1. call[n] \in Working \cup {"completing"} => n = c
          BY <2>1, <2>2 DEF PassOwned
        <5>2. call[n] \in {"fired", "joining", "late"}
          BY <2>2, <4>1, <4>3, <5>1
        <5>3. call'[n] \in {"fired", "late"}
          BY <2>2, <2>3, <4>3, <5>2
        <5>4. QED
          BY <5>3 DEF Owing
      <4>4. QED
        BY <4>2, <4>3
    <3>2. SeenSafe' /\ CacheSafe'
      BY <2>1, <2>4, <2>5, CallKeepsRegions DEF SeenSafe, CacheSafe, Within
    <3>3. Covered' /\ GuardArmed'
      BY <2>1, <2>5, <3>1, CallKeepsRegions DEF Covered, Near, GuardArmed
    <3>4. QED
      BY <3>2, <3>3 DEF Safe
  <2>6. CASE native' = 0
    <3>1. wake' # NoTime => wake' \in Nat
      BY <2>1, TimesAreIntegers DEF TypeOK, Delays
    <3>2. cached' >= 0 => Within(cached)'
      BY <2>6, TimesAreIntegers DEF Within
    <3>3. \A s \in Scopes : scope'[s] = "deciding" /\ seen' >= 0 => Within(seen)'
      BY <2>6, TimesAreIntegers DEF Within
    <3>4. QED
      BY <2>6, <3>1, <3>2, <3>3, TimesAreIntegers
      DEF Safe, SeenSafe, CacheSafe, Covered, Near, GuardArmed
  <2>7. QED
    BY <2>1, <2>5, <2>6
<1>15. QED
  BY <1>3, <1>4, <1>5, <1>6, <1>7, <1>8, <1>9, <1>10, <1>11, <1>12, <1>13, <1>14 DEF Call

LEMMA RegionSafe ==
    ASSUME IInv, NEW s \in Scopes, Region(s)
    PROVE  Safe'
<1> USE DEF IInv
<1>1. Fired' <=> Fired
  <2>1. call' = call
    BY DEF Region, EnterInline, GuardRead, GuardWrite, GuardFails, Await, Exit, Leave,
           Release, Clear, callVars
  <2>2. QED
    BY <2>1 DEF Fired
<1>2. Owing' <=> Owing
  <2>1. call' = call /\ failed' = failed
    BY DEF Region, EnterInline, GuardRead, GuardWrite, GuardFails, Await, Exit, Leave,
           Release, Clear, callVars
  <2>2. QED
    BY <2>1 DEF Owing
<1>3. ASSUME scope[s] \in Holding, Leave(s), guard' = guard \/ guard' = "failed"
      PROVE  Safe'
  <2> DEFINE stage == IF Held(scope) # {s} THEN "idle" ELSE IF active THEN "clearing" ELSE "releasing"
  <2>1. scope' = [scope EXCEPT ![s] = stage] /\ UNCHANGED <<wake, native, cached>>
    BY <1>3 DEF Leave
  <2>2. /\ scope'[s] = stage /\ \A t \in Scopes : t # s => scope'[t] = scope[t]
        /\ Deferred
    BY <1>3, <2>1, OneRegionMoves
  <2>3. \A t \in Scopes : scope'[t] = "deciding" => scope[t] = "deciding" /\ seen' = seen
    <3> SUFFICES ASSUME NEW t \in Scopes, scope'[t] = "deciding"
                 PROVE  scope[t] = "deciding" /\ seen' = seen
      OBVIOUS
    <3>1. t # s /\ scope[t] = "deciding"
      BY <2>2
    <3>2. scope[s] # "deciding"
      BY <3>1 DEF RegionsHold, Arming
    <3>3. QED
      BY <1>3, <3>1, <3>2 DEF Leave
  <2>4. CASE guard' = guard
    BY <1>1, <1>2, <2>1, <2>2, <2>3, <2>4, AlarmUntouched
  <2>5. CASE guard' # "ready"
    BY <1>1, <1>2, <2>1, <2>3, <2>5, AlarmUntouched
  <2>6. QED
    BY <1>3, <2>4, <2>5
<1>4. CASE EnterInline(s)
  <2>1. UNCHANGED <<wake, native, cached, seen>>
        /\ scope' = [scope EXCEPT ![s] = IF Deferred THEN "awaiting" ELSE "guarding"]
    BY <1>4 DEF EnterInline, Enter
  <2>2. \A t \in Scopes : scope'[t] = "deciding" => scope[t] = "deciding"
    BY <2>1, OneRegionMoves
  <2>3. Deferred' /\ guard' = "ready" => Deferred /\ guard = "ready"
    BY <1>4 DEF EnterInline, Enter
  <2>4. QED
    BY <1>1, <1>2, <2>1, <2>2, <2>3, AlarmUntouched
<1>5. CASE GuardRead(s)
  <2>1. /\ scope[s] = "guarding" /\ seen' = native
        /\ UNCHANGED <<wake, native, cached, guard>>
        /\ scope' = [scope EXCEPT ![s] = "deciding"]
    BY <1>5 DEF GuardRead
  <2>2. Deferred
    BY <2>1, OneRegionMoves DEF Holding
  <2>3. QED
    BY <1>1, <1>2, <2>1, <2>2, AlarmUntouched
<1>6. CASE GuardWrite(s)
  <2>1. Reconciled(wake) /\ wake \in Delays \cup {NoTime} /\ wake' = wake
    BY <1>6, GuardWriteKeeps DEF TypeOK, GuardWrite
  <2>2. Arming(s) /\ scope' = [scope EXCEPT ![s] = "body"]
    BY <1>6 DEF GuardWrite, Arming
  <2>3. /\ scope'[s] = "body" /\ \A t \in Scopes : t # s => scope'[t] = scope[t]
        /\ Deferred
    BY <2>2, OneRegionMoves DEF Holding, Arming
  <2>4. \A t \in Scopes : scope'[t] # "deciding"
    BY <2>2, <2>3 DEF RegionsHold, Arming
  <2>5. QED
    BY <1>1, <2>1, <2>3, <2>4, AlarmReconciled
<1>7. CASE GuardFails(s) \/ Exit(s)
  BY <1>3, <1>7 DEF GuardFails, Exit, Holding
<1>8. CASE Await(s)
  <2>1. scope[s] = "awaiting"
    BY <1>8 DEF Await
  <2>2. CASE /\ guard = "ready" /\ scope' = [scope EXCEPT ![s] = "body"]
             /\ UNCHANGED <<wake, native, cached, seen, guard>>
    <3>1. /\ scope'[s] = "body" /\ \A t \in Scopes : t # s => scope'[t] = scope[t]
          /\ Deferred
      BY <2>1, <2>2, OneRegionMoves DEF Holding
    <3>2. \A t \in Scopes : scope'[t] = "deciding" => scope[t] = "deciding"
      BY <3>1
    <3>3. QED
      BY <1>1, <1>2, <2>2, <3>1, <3>2, AlarmUntouched
  <2>3. CASE Leave(s) /\ UNCHANGED guard
    BY <1>3, <2>1, <2>3 DEF Holding
  <2>4. QED
    BY <1>8, <2>2, <2>3 DEF Await
<1>9. CASE Release(s)
  <2>1. /\ scope[s] = "releasing" /\ scope' = [scope EXCEPT ![s] = "clearing"]
        /\ UNCHANGED <<seen, guard>>
    BY <1>9 DEF Release
  <2>2. /\ scope'[s] = "clearing" /\ \A t \in Scopes : t # s => scope'[t] = scope[t]
        /\ Deferred' <=> Deferred
    BY <2>1, OneRegionMoves DEF Holding
  <2>3. \A t \in Scopes : scope'[t] = "deciding" => scope[t] = "deciding"
    BY <2>2
  <2>4. CASE \E response \in BOOLEAN : Transaction(wake, response)
    <3>1. wake \in Delays \cup {NoTime}
      BY DEF TypeOK
    <3>2. wake' = wake /\ Reconciled(wake)
      BY <2>4, <3>1, TransactionReconciles
    <3>3. QED
      BY <1>1, <2>1, <2>2, <2>3, <3>1, <3>2, AlarmReconciled
  <2>5. CASE RolledBack
    BY <1>1, <1>2, <2>1, <2>2, <2>3, <2>5, AlarmUntouched DEF RolledBack
  <2>6. QED
    BY <1>9, <2>4, <2>5 DEF Release
<1>10. CASE Clear(s)
  <2>1. /\ scope[s] = "clearing" /\ scope' = [scope EXCEPT ![s] = "idle"]
        /\ UNCHANGED <<wake, native, cached, seen>>
        /\ guard' = guard \/ guard' = "none"
    BY <1>10 DEF Clear
  <2>2. /\ scope'[s] = "idle" /\ \A t \in Scopes : t # s => scope'[t] = scope[t]
        /\ Deferred' <=> Deferred
    BY <2>1, OneRegionMoves DEF Holding
  <2>3. \A t \in Scopes : scope'[t] = "deciding" => scope[t] = "deciding"
    BY <2>2
  <2>4. QED
    BY <1>1, <1>2, <2>1, <2>2, <2>3, AlarmUntouched
<1>11. QED
  BY <1>4, <1>5, <1>6, <1>7, <1>8, <1>9, <1>10 DEF Region

LEMMA SafeStep ==
    ASSUME IInv, [Next]_vars
    PROVE  Safe'
<1> USE DEF IInv
<1>1. CASE Write
  <2>1. PICK next \in Delays \cup {NoTime}, response \in BOOLEAN : Transaction(next, response)
    BY <1>1 DEF Write
  <2>2. UNCHANGED scopeVars /\ call' = call
    BY <1>1 DEF Write, callVars
  <2>3. Fired => Fired'
    BY <2>2 DEF Fired
  <2>4. wake' = next /\ Reconciled(next)
    BY <2>1, TransactionReconciles
  <2>5. QED
    BY <2>2, <2>3, <2>4, AlarmReconciled, CallKeepsRegions
<1>2. CASE Crash
  <2>1. \A s \in Scopes : scope'[s] = "idle"
    BY <1>2 DEF Crash
  <2>2. ~ Deferred'
    BY <2>1, HeldIs DEF Holding
  <2>3. SeenSafe' /\ CacheSafe'
    BY <1>2, <2>1 DEF Crash, SeenSafe, CacheSafe, Unknown
  <2>4. Owing => \E n \in Natives : call[n] # "idle"
    BY DEF Owing, Working
  <2>5. Covered'
    <3>1. CASE native = NoTime /\ Owing
      <4>1. native' = 0 /\ wake' = wake
        BY <1>2, <2>4, <3>1 DEF Crash
      <4>2. QED
        BY <4>1, TimesAreIntegers DEF Covered, Near
    <3>2. CASE wake # NoTime /\ Near(wake)
      <4>1. native' = native /\ wake' = wake
        BY <1>2, <3>2, TimesAreIntegers DEF Crash, Near, NoTime
      <4>2. QED
        BY <3>2, <4>1 DEF Covered, Near
    <3>3. CASE wake = NoTime
      BY <1>2, <3>3 DEF Crash, Covered
    <3>4. QED
      BY <3>1, <3>2, <3>3 DEF Covered
  <2>6. QED
    BY <2>2, <2>3, <2>5 DEF Safe, GuardArmed
<1>3. CASE Tick
  <2>1. \A time \in Int : Later(time) = IF time > 0 THEN time - 1 ELSE time
    BY DEF Later
  <2>2. /\ wake' = Later(wake) /\ native' = Later(native)
        /\ cached' = Later(cached) /\ seen' = Later(seen)
        /\ UNCHANGED <<scope, guard, call, failed>>
    BY <1>3 DEF Tick, callVars
  <2>3. (Fired' <=> Fired) /\ (Owing' <=> Owing) /\ (Deferred' <=> Deferred)
    BY <2>2 DEF Fired, Owing, Deferred, Held
  <2>4. SeenSafe'
    BY <2>1, <2>2, TimesAreIntegers DEF SeenSafe, Within
  <2>5. CacheSafe'
    BY <2>1, <2>2, <2>3, TimesAreIntegers DEF CacheSafe, Within, NoTime
  <2>6. Covered'
    BY <2>1, <2>2, <2>3, TimesAreIntegers DEF Covered, Near, NoTime
  <2>7. GuardArmed'
    BY <2>1, <2>2, <2>3, TimesAreIntegers DEF GuardArmed, NoTime
  <2>8. QED
    BY <2>4, <2>5, <2>6, <2>7 DEF Safe
<1>4. CASE UNCHANGED vars
  BY <1>4 DEF vars, Safe, SeenSafe, CacheSafe, Covered, GuardArmed, Within, Near, Fired, Owing,
              Deferred, Held
<1>5. QED
  BY <1>1, <1>2, <1>3, <1>4, RegionSafe, CallSafe DEF Next

-----------------------------------------------------------------------------
(* The theorems.                                                            *)

LEMMA Initially ==
    ASSUME Init
    PROVE  IInv
<1>1. TypeOK
  BY WakeAssumption DEF Init, TypeOK, Native, Holding
<1>2. ~ Deferred
  BY DEF Init, Deferred, Held, Holding
<1>3. RegionsHold /\ GuardTimed
  BY <1>2 DEF Init, RegionsHold, GuardTimed, Arming
<1>4. PassOwned
  BY WakeAssumption DEF Init, PassOwned, Working, Callers
<1>5. SeenSafe /\ CacheSafe /\ Covered /\ GuardArmed
  BY <1>2 DEF Init, SeenSafe, CacheSafe, Covered, GuardArmed, Unknown
<1>6. QED
  BY <1>1, <1>3, <1>4, <1>5 DEF IInv

LEMMA Invariance == Spec => []IInv
<1>1. Init => IInv
  BY Initially
<1>2. IInv /\ [Next]_vars => IInv'
  BY TypeStep, RegionsStep, PassStep, SafeStep DEF IInv, Safe
<1>3. QED
  BY <1>1, <1>2, PTL DEF Spec

\* The delays of the native alarm and of the guards stay within their bounds, and
\* regions and calls within their stages, whatever fails and however often the
\* Object is evicted.
THEOREM WakeTypeCorrect == Spec => []TypeOK
<1>1. IInv => TypeOK
  BY DEF IInv
<1>2. QED
  BY <1>1, Invariance, PTL

\* Due or future work always has a native alarm at its deadline, at most one parked
\* delay late, or a delivery in hand that still reconciles or is repeated: through
\* failing transactions and event layers, evictions, guards that are judged by a
\* value read before another transaction rewrote the alarm, and joined deliveries.
THEOREM WorkStaysCovered == Spec => []WorkIsCovered
<1>1. IInv => WorkIsCovered
  <2>1. Owing => \E n \in Natives : InHand(n)
    BY DEF Owing, InHand, Working
  <2>2. QED
    BY <2>1 DEF IInv, Covered, Near, NoTime, WorkIsCovered
<1>2. QED
  BY <1>1, Invariance, PTL

\* While the body of a deferWakes region runs, an eviction costs at most
\* inFlightRecovery, however many regions, passes and reconciliations overlap.
THEOREM GuardStaysShort == Spec => []GuardIsShort
<1>1. IInv => GuardIsShort
  <2>1. Owing => \E n \in Natives : InHand(n)
    BY DEF Owing, InHand, Working
  <2>2. \A s \in Scopes : scope[s] = "body" => Deferred
    BY HeldIs DEF Holding
  <2>3. QED
    BY <2>1, <2>2 DEF IInv, RegionsHold, GuardArmed, GuardIsShort
<1>2. QED
  BY <1>1, Invariance, PTL

\* No pass goes past awaitWakes while a region is open: wakesReady is there as long
\* as one is, also when regions enter while the last one leaves.
THEOREM RegionsHoldBackDispatch == Spec => RegionsDelayDispatch
<1>1. IInv /\ [Next]_vars =>
        [\A c \in Callers : call[c] = "waiting" /\ call'[c] = "acquiring" => ~ Deferred]_vars
  <2> SUFFICES ASSUME IInv, Next, NEW c \in Callers,
                      call[c] = "waiting", call'[c] = "acquiring"
               PROVE  ~ Deferred
    OBVIOUS
  <2>1. ASSUME NEW d \in Callers, NEW stage, Goto(d, stage)
        PROVE  d = c /\ stage = "acquiring"
    BY <2>1 DEF Goto, IInv, TypeOK
  <2>2. ASSUME NEW d \in Callers, Call(d)
        PROVE  ~ Deferred
    <3>1. ~ Fire(d) /\ ~ Deliver(d) /\ ~ PostEvent(d) /\ ~ JoinRestore(d)
      BY <2>1 DEF Fire, Deliver, PostEvent, Own, Join, JoinRestore
    <3>2. ~ Restore(d) /\ ~ BeginDispatch(d) /\ ~ AcquireFails(d)
      BY <2>1 DEF Restore, BeginDispatch, AcquireFails, FailsEarly
    <3>3. ~ NothingDue(d) /\ ~ EnterPass(d) /\ ~ EndDispatch(d) /\ ~ ReconcileDispatch(d)
      BY <2>1 DEF NothingDue, EnterPass, EndDispatch, Ends, ReconcileDispatch
    <3>4. ~ Complete(d)
      BY DEF Complete
    <3>5. StartDispatch(d)
      BY <2>2, <3>1, <3>2, <3>3, <3>4 DEF Call
    <3>6. QED
      BY <3>5 DEF StartDispatch, IInv, RegionsHold
  <2>3. ASSUME NEW s \in Scopes, Region(s)
        PROVE  call' = call
    BY <2>3 DEF Region, EnterInline, GuardRead, GuardWrite, GuardFails, Await, Exit, Leave,
                Release, Clear, callVars
  <2>4. Write \/ Tick => call' = call
    BY DEF Write, Tick, callVars
  <2>5. Crash => call'[c] = "idle"
    BY DEF Crash
  <2>6. QED
    BY <2>2, <2>3, <2>4, <2>5 DEF Next
<1>2. QED
  BY <1>1, Invariance, PTL DEF Spec, RegionsDelayDispatch

-----------------------------------------------------------------------------
(* Without faults, evictions and post-response dispatch nothing is left.    *)

\* The stages in which the Object still owes the table a reconciliation.
Unsettled == {"fired", "joining", "late"} \cup Working

Exact ==
    \/ native = wake
    \/ Deferred
    \/ \E s \in Scopes : scope[s] = "releasing"
    \/ \E c \in Callers : call[c] \in Unsettled

\* dispatchActive is set by a call that still reconciles; nothing failed.
Undisturbed ==
    /\ active => \E c \in Callers : call[c] \in {"acquiring", "dispatching", "passing"}
    /\ ~ failed
    /\ \A p \in Posts : call[p] = "idle"

ExactInv == Exact /\ Undisturbed

\* A transaction outside regions and passes makes the alarm exact.
LEMMA TransactionIsExact ==
    ASSUME IInv, DispatchAfterEvent = FALSE, NEW next \in Delays \cup {NoTime},
           NEW response \in BOOLEAN, Transaction(next, response), ~ Deferred, ~ active
    PROVE  native' = wake'
<1>1. Observable = {native}
  BY DEF Observable
<1>2. Rearm(next, native, response) /\ wake' = next
  BY <1>1 DEF Transaction, Reconcile
<1>3. native' = Target(next, native, response)
  BY <1>2, AlarmIsRearmed DEF IInv
<1>4. QED
  BY <1>2, <1>3 DEF Target

LEMMA ExactCall ==
    ASSUME IInv, ExactInv, DispatchAfterEvent = FALSE, EventFaults = FALSE,
           StorageFaults = FALSE, NEW c \in Callers, Call(c)
    PROVE  ExactInv'
<1> USE DEF IInv, ExactInv
<1>1. Natives \cap Posts = {} /\ Natives \subseteq Callers /\ Posts \subseteq Callers
  BY WakeAssumption DEF Callers
<1>2. ASSUME NEW stage, Goto(c, stage)
      PROVE  call'[c] = stage /\ \A d \in Callers : d # c => call'[d] = call[d]
  BY <1>2 DEF Goto, TypeOK
<1>3. call[c] # "idle" \/ c \in Natives
  BY DEF Call, PostEvent, Restore, StartDispatch, BeginDispatch, NothingDue, AcquireFails,
         EnterPass, EndDispatch, ReconcileDispatch, Complete
<1>4. c \in Natives /\ c \notin Posts
  BY <1>1, <1>3 DEF Undisturbed, Callers
<1>5. ASSUME NEW stage, Goto(c, stage)
      PROVE  \A p \in Posts : call'[p] = "idle"
  BY <1>1, <1>2, <1>4, <1>5 DEF Undisturbed
<1>6. ASSUME NEW stage \in Unsettled, Goto(c, stage)
      PROVE  Exact'
  BY <1>2, <1>6 DEF Exact
<1>7. ASSUME NEW stage, Goto(c, stage), UNCHANGED active,
             call[c] \notin {"acquiring", "dispatching", "passing"}
      PROVE  active' => \E d \in Callers : call'[d] \in {"acquiring", "dispatching", "passing"}
  BY <1>2, <1>7 DEF Undisturbed
\* A reconciliation, and the stage after it.
<1>8. ASSUME NEW stage, Goto(c, stage), Transaction(wake, FALSE), UNCHANGED <<scopeVars, active, failed>>,
             call[c] \notin {"acquiring", "dispatching", "passing"}
      PROVE  ExactInv'
  <2>1. active' => \E d \in Callers : call'[d] \in {"acquiring", "dispatching", "passing"}
    BY <1>7, <1>8
  <2>2. Undisturbed'
    BY <1>5, <1>8, <2>1 DEF Undisturbed
  <2>3. CASE Deferred
    BY <1>8, <2>2, <2>3, CallKeepsRegions DEF Exact
  <2>4. CASE active
    BY <1>8, <2>1, <2>2, <2>4 DEF Exact, Unsettled, Working
  <2>5. CASE ~ Deferred /\ ~ active
    <3>1. wake \in Delays \cup {NoTime}
      BY DEF TypeOK
    <3>2. native' = wake'
      BY <1>8, <2>5, <3>1, TransactionIsExact
    <3>3. QED
      BY <2>2, <3>2 DEF Exact
  <2>6. QED
    BY <2>3, <2>4, <2>5
<1>9. CASE Fire(c)
  <2>1. Goto(c, "fired") /\ UNCHANGED <<active, failed>> /\ call[c] = "idle"
    BY <1>9 DEF Fire
  <2>2. Exact'
    BY <1>6, <2>1 DEF Unsettled
  <2>3. QED
    BY <1>5, <1>7, <2>1, <2>2 DEF Undisturbed
<1>10. CASE Deliver(c)
  <2>1. PICK stage \in Unsettled : Goto(c, stage)
    BY <1>4, <1>10 DEF Deliver, Own, Join, Unsettled, Working
  <2>2. call[c] = "fired" /\ UNCHANGED active /\ ~ failed'
    BY <1>10 DEF Deliver, Own, Join, Undisturbed
  <2>3. Exact'
    BY <1>6, <2>1
  <2>4. active' => \E d \in Callers : call'[d] \in {"acquiring", "dispatching", "passing"}
    BY <1>7, <2>1, <2>2
  <2>5. QED
    BY <1>5, <2>1, <2>2, <2>3, <2>4 DEF Undisturbed
<1>11. CASE JoinRestore(c)
  BY <1>8, <1>11 DEF JoinRestore, scopeVars
<1>12. CASE Restore(c)
  BY <1>8, <1>12 DEF Restore
<1>13. CASE StartDispatch(c) \/ BeginDispatch(c)
  <2>1. PICK stage \in {"acquiring", "dispatching"} : Goto(c, stage)
    BY <1>13 DEF StartDispatch, BeginDispatch
  <2>2. ~ failed'
    BY <1>13 DEF StartDispatch, BeginDispatch, Undisturbed
  <2>3. Exact'
    BY <1>6, <2>1 DEF Unsettled, Working
  <2>4. QED
    BY <1>2, <1>5, <2>1, <2>2, <2>3 DEF Undisturbed
<1>14. ~ NothingDue(c) /\ ~ AcquireFails(c)
  BY <1>4 DEF NothingDue, AcquireFails
<1>15. CASE EnterPass(c)
  <2>1. Goto(c, "passing") /\ ~ failed'
    BY <1>15 DEF EnterPass, Undisturbed
  <2>2. Exact'
    BY <1>6, <2>1 DEF Unsettled, Working
  <2>3. QED
    BY <1>2, <1>5, <2>1, <2>2 DEF Undisturbed
<1>16. CASE EndDispatch(c)
  <2>1. Goto(c, "reconciling") /\ ~ failed' /\ ~ active'
    BY <1>16 DEF EndDispatch, Ends
  <2>2. Exact'
    BY <1>6, <2>1 DEF Unsettled, Working
  <2>3. QED
    BY <1>5, <2>1, <2>2 DEF Undisturbed
<1>17. CASE ReconcileDispatch(c)
  BY <1>8, <1>17 DEF ReconcileDispatch, RolledBack
<1>18. CASE Complete(c)
  <2>1. /\ call[c] = "completing" /\ ~ active' /\ ~ failed'
        /\ UNCHANGED <<wake, native, scopeVars>>
    BY <1>18 DEF Complete, Undisturbed
  <2>2. \A d \in Callers :
          call'[d] = IF d = c \/ call[d] = "joined" THEN "idle"
                     ELSE IF call[d] = "joining" THEN "late" ELSE call[d]
    BY <1>18 DEF Complete
  <2>3. \A d \in Callers : call[d] \in Unsettled => call'[d] \in Unsettled
    BY <2>1, <2>2 DEF Unsettled, Working
  <2>4. Exact'
    BY <2>1, <2>3, CallKeepsRegions DEF Exact, scopeVars
  <2>5. \A p \in Posts : call'[p] = "idle"
    BY <1>1, <2>2 DEF Undisturbed
  <2>6. QED
    BY <2>1, <2>4, <2>5 DEF Undisturbed
<1>19. ~ PostEvent(c)
  BY DEF PostEvent
<1>20. QED
  BY <1>9, <1>10, <1>11, <1>12, <1>13, <1>14, <1>15, <1>16, <1>17, <1>18, <1>19 DEF Call

LEMMA ExactRegion ==
    ASSUME IInv, ExactInv, DispatchAfterEvent = FALSE, StorageFaults = FALSE,
           NEW s \in Scopes, Region(s)
    PROVE  ExactInv'
<1> USE DEF IInv, ExactInv
<1>1. UNCHANGED callVars
  BY DEF Region, EnterInline, GuardRead, GuardWrite, GuardFails, Await, Exit, Leave, Release, Clear
<1>2. Undisturbed'
  BY <1>1 DEF callVars, Undisturbed
<1>3. (\E c \in Callers : call'[c] \in Unsettled) <=> (\E c \in Callers : call[c] \in Unsettled)
  BY <1>1 DEF callVars
<1>4. active => \E c \in Callers : call'[c] \in Unsettled
  BY <1>1 DEF callVars, Undisturbed, Unsettled, Working
<1>5. ASSUME Deferred'
      PROVE  Exact'
  BY <1>5 DEF Exact
<1>6. CASE Leave(s) /\ scope[s] \in Holding
  <2> DEFINE stage == IF Held(scope) # {s} THEN "idle" ELSE IF active THEN "clearing" ELSE "releasing"
  <2>1. scope' = [scope EXCEPT ![s] = stage]
    BY <1>6 DEF Leave
  <2>2. scope'[s] = stage /\ (Deferred' <=> Held(scope) \ {s} # {})
    BY <2>1, OneRegionMoves DEF Holding
  <2>3. s \in Held(scope)
    BY <1>6 DEF Held
  <2>4. CASE Held(scope) # {s}
    <3>1. Held(scope) \ {s} # {}
      BY <2>3, <2>4
    <3>2. QED
      BY <1>2, <1>5, <2>2, <3>1, <2>4 DEF Holding
  <2>5. CASE Held(scope) = {s} /\ active
    BY <1>2, <1>4, <2>5 DEF Exact
  <2>6. CASE Held(scope) = {s} /\ ~ active
    BY <1>2, <2>2, <2>6 DEF Exact
  <2>7. QED
    BY <2>4, <2>5, <2>6
<1>7. CASE EnterInline(s)
  <2>1. scope' = [scope EXCEPT ![s] = IF Deferred THEN "awaiting" ELSE "guarding"]
    BY <1>7 DEF EnterInline, Enter
  <2>2. Deferred'
    BY <2>1, OneRegionMoves DEF Holding
  <2>3. QED
    BY <1>2, <1>5, <2>2
<1>8. CASE GuardRead(s) \/ GuardWrite(s)
  <2>1. scope' = [scope EXCEPT ![s] = "deciding"] \/ scope' = [scope EXCEPT ![s] = "body"]
    BY <1>8 DEF GuardRead, GuardWrite
  <2>2. Deferred'
    BY <2>1, OneRegionMoves DEF Holding
  <2>3. QED
    BY <1>2, <1>5, <2>2
<1>9. CASE Await(s)
  <2>1. CASE scope' = [scope EXCEPT ![s] = "body"]
    <3>1. Deferred'
      BY <2>1, OneRegionMoves DEF Holding
    <3>2. QED
      BY <1>2, <1>5, <3>1
  <2>2. CASE Leave(s)
    BY <1>6, <1>9, <2>2 DEF Await, Holding
  <2>3. QED
    BY <1>9, <2>1, <2>2 DEF Await
<1>10. CASE Exit(s) \/ GuardFails(s)
  BY <1>6, <1>10 DEF Exit, GuardFails, Holding
<1>11. CASE Release(s)
  <2>1. scope[s] = "releasing" /\ scope' = [scope EXCEPT ![s] = "clearing"]
    BY <1>11 DEF Release
  <2>2. Deferred' <=> Deferred
    BY <2>1, OneRegionMoves DEF Holding
  <2>3. CASE Deferred
    BY <1>2, <1>5, <2>2, <2>3
  <2>4. CASE active
    BY <1>2, <1>4, <2>4 DEF Exact
  <2>5. CASE ~ Deferred /\ ~ active
    <3>1. PICK response \in BOOLEAN : Transaction(wake, response)
      BY <1>11 DEF Release, RolledBack
    <3>2. wake \in Delays \cup {NoTime}
      BY DEF TypeOK
    <3>3. native' = wake'
      BY <2>5, <3>1, <3>2, TransactionIsExact
    <3>4. QED
      BY <1>2, <3>3 DEF Exact
  <2>6. QED
    BY <2>3, <2>4, <2>5
<1>12. CASE Clear(s)
  <2>1. /\ scope[s] = "clearing" /\ scope' = [scope EXCEPT ![s] = "idle"]
        /\ UNCHANGED <<wake, native>>
    BY <1>12 DEF Clear
  <2>2. /\ Deferred' <=> Deferred
        /\ \A t \in Scopes : t # s => scope'[t] = scope[t]
    BY <2>1, OneRegionMoves DEF Holding
  <2>3. (\E t \in Scopes : scope[t] = "releasing") => \E t \in Scopes : scope'[t] = "releasing"
    BY <2>1, <2>2
  <2>4. QED
    BY <1>2, <1>3, <2>1, <2>2, <2>3 DEF Exact
<1>13. QED
  BY <1>7, <1>8, <1>9, <1>10, <1>11, <1>12 DEF Region

LEMMA ExactStep ==
    ASSUME IInv, ExactInv, DispatchAfterEvent = FALSE, EventFaults = FALSE,
           StorageFaults = FALSE, Crashes = FALSE, [Next]_vars
    PROVE  ExactInv'
<1> USE DEF IInv, ExactInv
<1>1. CASE Write
  <2>1. PICK next \in Delays \cup {NoTime}, response \in BOOLEAN : Transaction(next, response)
    BY <1>1 DEF Write
  <2>2. UNCHANGED scopeVars /\ UNCHANGED callVars
    BY <1>1 DEF Write
  <2>3. Undisturbed'
    BY <2>2 DEF callVars, Undisturbed
  <2>4. CASE Deferred
    BY <2>2, <2>3, <2>4, CallKeepsRegions DEF Exact
  <2>5. CASE active
    BY <2>2, <2>3, <2>5 DEF Exact, Undisturbed, callVars, Unsettled, Working
  <2>6. CASE ~ Deferred /\ ~ active
    BY <2>1, <2>3, <2>6, TransactionIsExact DEF Exact
  <2>7. QED
    BY <2>4, <2>5, <2>6
<1>2. CASE Tick
  <2>1. UNCHANGED <<scope, call, active, failed>> /\ wake' = Later(wake) /\ native' = Later(native)
    BY <1>2 DEF Tick, callVars
  <2>2. Undisturbed'
    BY <2>1 DEF Undisturbed
  <2>3. Exact'
    BY <2>1 DEF Exact, Deferred, Held
  <2>4. QED
    BY <2>2, <2>3
<1>3. CASE UNCHANGED vars
  BY <1>3 DEF vars, Exact, Undisturbed, Deferred, Held
<1>4. ~ Crash
  BY DEF Crash
<1>5. QED
  BY <1>1, <1>2, <1>3, <1>4, ExactRegion, ExactCall DEF Next

\* Once nothing runs, the native alarm is the earliest deadline of the table and no
\* other: the last region out, the owner of a pass or a joined delivery has rearmed
\* it.  A failed or evicted reconciliation and post-response dispatch may leave a
\* guard behind instead, so the hypotheses are those of the run.
THEOREM QuietObjectsAreExact ==
    ASSUME DispatchAfterEvent = FALSE, EventFaults = FALSE, StorageFaults = FALSE, Crashes = FALSE
    PROVE  Spec => []QuietIsExact
<1>1. Init => ExactInv
  BY DEF Init, ExactInv, Exact, Undisturbed, Callers
<1>2. IInv /\ ExactInv /\ [Next]_vars => ExactInv'
  BY ExactStep
<1>3. ExactInv => QuietIsExact
  <2>1. Quiet => ~ Deferred
    BY HeldIs DEF Quiet, Holding
  <2>2. QED
    BY <2>1 DEF ExactInv, Exact, QuietIsExact, Quiet, Unsettled, Working
<1>4. QED
  BY <1>1, <1>2, <1>3, Invariance, PTL DEF Spec
=============================================================================
