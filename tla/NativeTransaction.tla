--------------------------- MODULE NativeTransaction ---------------------------
(***************************************************************************)
(* Native operations that call back into Effect: storage.transaction,          *)
(* blockConcurrencyWhile and blockConcurrencyWhileOrReset, over                *)
(* internal/NativeCallback.ts.  The platform holds a gate from the call until  *)
(* its promise settles; the fiber that waits may be interrupted meanwhile.     *)
(***************************************************************************)
EXTENDS Integers

CONSTANTS
    Operation,       \* "transaction", "block", "blockOrReset"
    MaxRetries,      \* bound: callbacks the platform runs again after a conflict
    NativeFaults,    \* whether the platform may fail on its own
    MaxYields,       \* bound: yields of the callback
    ParentTimer      \* whether an older timer waits for the gate

ASSUME OperationAssumption ==
    /\ Operation \in {"transaction", "block", "blockOrReset"}
    /\ MaxRetries \in Nat /\ MaxYields \in Nat

Exits == {"none", "value", "failure", "defect", "interrupted"}

VARIABLES
    fiber,      \* "calling", "waiting", "closing", "settling", "done"
    setOpen,    \* the FiberSet that owns the callback's fiber
    native,     \* "idle", "called", "inCallback", "resolved", "rejected", "settled"
    callback,   \* "none", "running", "yielded", "guarded" (uninterruptible), "ended"
    exit,       \* the exit of the last callback
    verdict,    \* why the native promise settled: "none", "value", "thrown", "native"
    written,    \* what the callback wrote: "none", "tentative", "kept", "undone"
    outcome,    \* the exit of the fiber: "none", "value", "own", "storage", "interrupted"
    reset,      \* whether the platform resets the object
    retries, yields

vars == <<fiber, setOpen, native, callback, exit, verdict, written, outcome, reset, retries, yields>>

Init ==
    /\ fiber = "calling" /\ setOpen = TRUE
    /\ native = "idle" /\ callback = "none" /\ exit = "none" /\ verdict = "none"
    /\ written = "none" /\ outcome = "none" /\ reset = FALSE
    /\ retries = 0 /\ yields = 0

\* Effect.callback calls the operation, which may throw at once.
Call ==
    /\ fiber = "calling"
    /\ \/ native' = "called" /\ fiber' = "waiting" /\ UNCHANGED outcome
       \/ /\ NativeFaults /\ fiber' = "done" /\ outcome' = "storage" /\ UNCHANGED native
    /\ UNCHANGED <<setOpen, callback, exit, verdict, written, reset, retries, yields>>

\* The platform runs the callback, sooner or later: a closed FiberSet starts no fiber.
Invoke ==
    /\ native = "called"
    /\ native' = "inCallback"
    /\ callback' = IF setOpen THEN "running" ELSE "ended"
    /\ exit' = IF setOpen THEN "none" ELSE "interrupted"
    /\ UNCHANGED <<fiber, setOpen, verdict, written, outcome, reset, retries, yields>>

\* The callback writes.
Write ==
    /\ callback \in {"running", "guarded"} /\ native = "inCallback"
    /\ written' = "tentative"
    /\ UNCHANGED <<fiber, setOpen, native, callback, exit, verdict, outcome, reset, retries, yields>>

Guard ==
    /\ callback = "running" /\ callback' = "guarded"
    /\ UNCHANGED <<fiber, setOpen, native, exit, verdict, written, outcome, reset, retries, yields>>

Unguard ==
    /\ callback = "guarded" /\ callback' = "running"
    /\ UNCHANGED <<fiber, setOpen, native, exit, verdict, written, outcome, reset, retries, yields>>

Yield ==
    /\ callback = "running" /\ yields < MaxYields
    /\ callback' = "yielded" /\ yields' = yields + 1
    /\ UNCHANGED <<fiber, setOpen, native, exit, verdict, written, outcome, reset, retries>>

\* Mutant: the callback keeps the caller's scheduler, whose timers queue behind
\* the one that waits for the gate.
TimersRun == ~ ParentTimer

\* callbackScheduler yields through microtasks.
YieldsEnd == TRUE

Resume ==
    /\ callback = "yielded" /\ YieldsEnd
    /\ callback' = "running"
    /\ UNCHANGED <<fiber, setOpen, native, exit, verdict, written, outcome, reset, retries, yields>>

Finish(e) ==
    /\ callback = "running" /\ e \in {"value", "failure", "defect"}
    /\ callback' = "ended" /\ exit' = e
    /\ UNCHANGED <<fiber, setOpen, native, verdict, written, outcome, reset, retries, yields>>

\* Mutant: typed failures are thrown as well.
ThrowsAny(e) == e # "value"

\* Whether the promise the platform waits for rejects: a transaction throws every
\* failed exit to abort it, blockConcurrencyWhile keeps typed failures as values.
Throws(e) == IF Operation = "block" THEN e \in {"defect", "interrupted"} ELSE e # "value"

\* The callback's promise settles.
Return ==
    /\ native = "inCallback" /\ callback = "ended"
    /\ native' = IF Throws(exit) THEN "rejected" ELSE "resolved"
    /\ UNCHANGED <<fiber, setOpen, callback, exit, verdict, written, outcome, reset, retries, yields>>

Transactional == Operation = "transaction"

\* The platform commits, or runs the callback again after a conflict, or fails.
Commit ==
    /\ native = "resolved"
    /\ native' = "settled" /\ verdict' = "value"
    /\ written' = IF written = "none" THEN "none" ELSE "kept"
    /\ UNCHANGED <<fiber, setOpen, callback, exit, outcome, reset, retries, yields>>

Retry ==
    /\ Transactional /\ native = "resolved" /\ retries < MaxRetries
    /\ retries' = retries + 1 /\ native' = "called"
    /\ callback' = "none" /\ exit' = "none" /\ written' = "none"
    /\ UNCHANGED <<fiber, setOpen, verdict, outcome, reset, yields>>

\* blockConcurrencyWhile also gives up on a callback that takes too long.
NativeFails ==
    /\ NativeFaults
    /\ \/ native \in {"called", "resolved", "rejected"}
       \/ ~ Transactional /\ native = "inCallback"
    /\ native' = "settled" /\ verdict' = "native"
    /\ written' = IF Transactional /\ written # "none" THEN "undone" ELSE written
    /\ reset' = (reset \/ (~ Transactional /\ native = "inCallback"))
    /\ UNCHANGED <<fiber, setOpen, callback, exit, outcome, retries, yields>>

\* A rejection rolls a transaction back; it resets an object that blocks on it.
Abort ==
    /\ native = "rejected"
    /\ native' = "settled" /\ verdict' = "thrown"
    /\ written' = IF Transactional /\ written # "none" THEN "undone" ELSE written
    /\ reset' = ~ Transactional
    /\ UNCHANGED <<fiber, setOpen, callback, exit, outcome, retries, yields>>

\* Mutant: any rejection after a failed exit counts as the callback's.
OwnAfterFailure == exit \notin {"none", "value"}

\* aborted !== undefined && cause === aborted
IsOwn == verdict = "thrown"

\* Mutant: the callback's own exit is handed over as it is.
RawExit ==
    IF verdict = "value" THEN (IF exit = "value" THEN "value" ELSE "own")
    ELSE IF Transactional /\ IsOwn THEN exit ELSE "storage"

\* The result of the native promise. The failure of a transaction's callback comes
\* back as it was; the value of blockConcurrencyWhile holds its exit, and other
\* rejections of either are defects.
Outcome ==
    IF verdict = "value" THEN (IF exit = "value" THEN "value" ELSE "own")
    ELSE IF Transactional /\ IsOwn THEN "own" ELSE "storage"

\* The promise has settled: the scope closes with its result.
Settle ==
    /\ fiber = "waiting" /\ native = "settled"
    /\ fiber' = "closing" /\ outcome' = Outcome /\ setOpen' = FALSE
    /\ UNCHANGED <<native, callback, exit, verdict, written, reset, retries, yields>>

\* The waiting fiber is interrupted: its scope closes, the FiberSet first.
Interrupt ==
    /\ fiber = "waiting"
    /\ fiber' = "closing" /\ setOpen' = FALSE
    /\ UNCHANGED <<native, callback, exit, verdict, written, outcome, reset, retries, yields>>

\* The callback's fiber stops at its next interruptible step.
InterruptCallback ==
    /\ fiber = "closing" /\ callback \in {"running", "yielded"}
    /\ callback' = "ended" /\ exit' = "interrupted"
    /\ UNCHANGED <<fiber, setOpen, native, verdict, written, outcome, reset, retries, yields>>

Joined == callback \in {"none", "ended"}

CallbackJoined ==
    /\ fiber = "closing" /\ Joined
    /\ fiber' = "settling"
    /\ UNCHANGED <<setOpen, native, callback, exit, verdict, written, outcome, reset, retries, yields>>

\* Mutant: nobody waits for the native promise.
NotAwaited == TRUE

\* The finalizer added first runs last: promise.then.
NativeAwaited == native = "settled"

NativeSettled ==
    /\ fiber = "settling" /\ NativeAwaited
    /\ fiber' = "done"
    /\ outcome' = IF outcome = "none" THEN "interrupted" ELSE outcome
    /\ UNCHANGED <<setOpen, native, callback, exit, verdict, written, reset, retries, yields>>

Terminated == fiber = "done" /\ native \in {"idle", "settled"} /\ UNCHANGED vars

CallbackSteps == Resume \/ Unguard \/ InterruptCallback \/ \E e \in Exits : Finish(e)
NativeSteps == Invoke \/ Return \/ Commit \/ Abort
FiberSteps == Call \/ Settle \/ CallbackJoined \/ NativeSettled

Next ==
    \/ FiberSteps \/ NativeSteps \/ CallbackSteps
    \/ Write \/ Guard \/ Yield \/ Retry \/ NativeFails \/ Interrupt \/ Terminated

Spec == Init /\ [][Next]_vars

\* Callbacks and their uninterruptible parts end, the platform settles what it
\* can, and the runtime runs whatever is ready.
Fairness ==
    /\ WF_vars(FiberSteps) /\ WF_vars(NativeSteps)
    /\ WF_vars(Resume) /\ WF_vars(InterruptCallback)
    /\ SF_vars(\E e \in Exits : Finish(e)) /\ WF_vars(Unguard)

FairSpec == Spec /\ Fairness

----------------------------------------------------------------------------
TypeOK ==
    /\ fiber \in {"calling", "waiting", "closing", "settling", "done"}
    /\ native \in {"idle", "called", "inCallback", "resolved", "rejected", "settled"}
    /\ callback \in {"none", "running", "yielded", "guarded", "ended"}
    /\ exit \in Exits /\ verdict \in {"none", "value", "thrown", "native"}
    /\ written \in {"none", "tentative", "kept", "undone"}
    /\ outcome \in {"none", "value", "own", "storage", "interrupted"}
    /\ setOpen \in BOOLEAN /\ reset \in BOOLEAN
    /\ retries \in 0..MaxRetries /\ yields \in 0..MaxYields

\* When the fiber goes on, interrupted or not, the callback has ended and the gate
\* is released: nothing of the operation outlives it.
NothingOutlives ==
    fiber = "done" => /\ callback \in {"none", "ended"}
                      /\ native \in {"idle", "settled"}

\* The fiber's exit says what storage did: a value was committed, the callback's
\* own failure was rolled back, and a platform failure is never taken for it.
OutcomeMatchesStorage ==
    Transactional =>
      /\ outcome = "value" => (verdict = "value" /\ written \in {"none", "kept"})
      /\ outcome = "own" => (verdict = "thrown" /\ written \in {"none", "undone"})
      /\ outcome = "storage" => (verdict # "thrown" /\ written \in {"none", "undone"})

\* The object is reset when the callback of blockConcurrencyWhile dies, is
\* interrupted or takes too long, and never for a typed failure.
ResetIsJustified ==
    (Operation = "block" /\ reset) =>
        \/ exit \in {"defect", "interrupted"}
        \/ verdict = "native"

\* The fiber always goes on, although the callback yields while an older timer of
\* the object waits for the gate it holds.
FiberGoesOn == <>(fiber = "done")

\* A native operation is whole: nothing of it outlives its fiber, whose exit says what
\* became of its writes, and it resets the object only when its callback died, was
\* interrupted or took too long.
OperationIsWhole ==
    /\ TypeOK
    /\ OutcomeMatchesStorage
    /\ NothingOutlives
    /\ ResetIsJustified
=============================================================================
