---------------------------- MODULE WorkflowSteps ----------------------------
(***************************************************************************)
(* Steps of a workflow: do of fromWorkflowStep in Workflow.ts.  Cloudflare keeps   *)
(* the results of steps and owns their retries; it calls back for every attempt   *)
(* and cannot be told to stop.  The effect of a step may be interrupted at any    *)
(* moment, and the instance may be evicted, to run again from its beginning.     *)
(***************************************************************************)
EXTENDS Naturals

CONSTANTS
    Steps,        \* steps, which the workflow may run side by side
    MaxAttempts,  \* of the retry configuration
    MaxCrashes    \* bound: evictions

WorkflowAssumption == MaxAttempts \in Nat \ {0} /\ MaxCrashes \in Nat

VARIABLES
    result,    \* step -> what Cloudflare stored
    attempts,  \* step -> attempts it counted
    native,    \* step -> its call of step.do: an attempt or a retry delay
    call,      \* step -> the effect of do
    fibers,    \* step -> its FiberSet
    body,      \* step -> the fiber of the attempt
    fatal,     \* steps whose attempt failed with WorkflowStepNonRetryableError
    crashes

vars == <<result, attempts, native, call, fibers, body, fatal, crashes>>

All(v) == [s \in Steps |-> v]

Init ==
    /\ result = All("open") /\ attempts = All(0) /\ native = All("none") /\ call = All("none")
    /\ fibers = All("none") /\ body = All("none") /\ fatal = {} /\ crashes = 0

\* A stored result is returned without calling back.
Do(s) ==
    /\ call[s] = "none"
    /\ call' = [call EXCEPT ![s] = "open"]
    /\ fibers' = [fibers EXCEPT ![s] = "open"]
    /\ native' = [native EXCEPT ![s] = IF result[s] = "open" THEN "delay" ELSE "settled"]
    /\ UNCHANGED <<result, attempts, body, fatal, crashes>>

\* Mutant: attempts run with the runtime of the workflow.
AlwaysRuns(s) == TRUE

\* runPromise of the FiberSet: a closed one runs nothing and rejects.
Runs(s) == fibers[s] = "open"

\* Cloudflare calls back: the first time, and after a retry delay.
Attempt(s) ==
    /\ native[s] = "delay" /\ attempts[s] < MaxAttempts
    /\ native' = [native EXCEPT ![s] = "attempt"]
    /\ attempts' = [attempts EXCEPT ![s] = @ + 1]
    /\ body' = [body EXCEPT ![s] = IF Runs(s) THEN "running" ELSE "failed"]
    /\ UNCHANGED <<result, call, fibers, fatal, crashes>>

\* The effect ends; its scope and that of its RPC targets close before the promise
\* settles.
BodyEnds(s) ==
    /\ body[s] = "running"
    /\ \E end \in {"ok", "failed", "fatal"} :
         body' = [body EXCEPT ![s] = end]
    /\ UNCHANGED <<result, attempts, native, call, fibers, fatal, crashes>>

BodyStops(s) ==
    /\ body[s] = "interrupting"
    /\ body' = [body EXCEPT ![s] = "failed"]
    /\ UNCHANGED <<result, attempts, native, call, fibers, fatal, crashes>>

\* Mutant: the error reaches Cloudflare as any other.
LikeAnyError(s) == FALSE

\* exposeCloudflareNonRetryableError
Exposed(s) == body[s] = "fatal"

\* The promise of the attempt settles, and Cloudflare stores, retries or gives up.
Settle(s) ==
    /\ native[s] = "attempt" /\ body[s] \in {"ok", "failed", "fatal"}
    /\ LET end == IF body[s] = "ok" THEN "done"
                  ELSE IF Exposed(s) \/ attempts[s] = MaxAttempts THEN "failed" ELSE "open"
       IN /\ result' = [result EXCEPT ![s] = end]
          /\ native' = [native EXCEPT ![s] = IF end = "open" THEN "delay" ELSE "settled"]
    /\ fatal' = IF body[s] = "fatal" THEN fatal \union {s} ELSE fatal
    /\ body' = [body EXCEPT ![s] = "none"]
    /\ UNCHANGED <<attempts, call, fibers, crashes>>

\* Mutant: the FiberSet belongs to the scope of the workflow.
LeavesOpen(s) == fibers

\* Effect.scoped: the FiberSet closes with the effect of the step.
ClosesSet(s) == [fibers EXCEPT ![s] = "closed"]

\* The scope of do closes with its result: WorkflowStepError when it rejected.
Return(s) ==
    /\ call[s] = "open" /\ native[s] = "settled"
    /\ call' = [call EXCEPT ![s] = IF result[s] = "done" THEN "returned" ELSE "error"]
    /\ fibers' = ClosesSet(s)
    /\ UNCHANGED <<result, attempts, native, body, fatal, crashes>>

\* Interruption closes the scope, and with it the FiberSet and its fibers.
Interrupt(s) ==
    /\ call[s] = "open"
    /\ call' = [call EXCEPT ![s] = "joining"]
    /\ fibers' = ClosesSet(s)
    /\ body' = [body EXCEPT ![s] = IF @ = "running" THEN "interrupting" ELSE @]
    /\ UNCHANGED <<result, attempts, native, fatal, crashes>>

\* Mutant: interruption does not wait for the attempt to stop.
NeverJoins(s) == TRUE

\* Mutant: interruption waits for Cloudflare to be through with the step.
JoinsNative(s) == body[s] \notin {"running", "interrupting"} /\ native[s] = "settled"

\* Join the current callback, without waiting for native retry delays.
Joins(s) == body[s] \notin {"running", "interrupting"}

Joined(s) ==
    /\ call[s] = "joining" /\ Joins(s)
    /\ call' = [call EXCEPT ![s] = "interrupted"]
    /\ UNCHANGED <<result, attempts, native, fibers, body, fatal, crashes>>

\* Eviction: run() is called again, with what was stored.
Crash ==
    /\ crashes < MaxCrashes
    /\ crashes' = crashes + 1
    /\ native' = All("none") /\ call' = All("none") /\ fibers' = All("none") /\ body' = All("none")
    /\ result' = [s \in Steps |-> IF result[s] = "open" /\ attempts[s] = MaxAttempts
                                  THEN "failed" ELSE result[s]]
    /\ UNCHANGED <<attempts, fatal>>

Next ==
    \/ \E s \in Steps :
         \/ Do(s) \/ Attempt(s) \/ BodyEnds(s) \/ BodyStops(s) \/ Settle(s) \/ Return(s)
         \/ Interrupt(s) \/ Joined(s)
    \/ Crash

Spec == Init /\ [][Next]_vars

\* Fibers go on and finalizers end; a retry delay may be as long as it likes.
Fairness ==
    \A s \in Steps : WF_vars(BodyStops(s)) /\ WF_vars(Joined(s)) /\ WF_vars(Return(s))

FairSpec == Spec /\ Fairness

----------------------------------------------------------------------------
TypeOK ==
    /\ result \in [Steps -> {"open", "done", "failed"}] /\ attempts \in [Steps -> 0 .. MaxAttempts]
    /\ native \in [Steps -> {"none", "attempt", "delay", "settled"}]
    /\ call \in [Steps -> {"none", "open", "joining", "returned", "error", "interrupted"}]
    /\ fibers \in [Steps -> {"none", "open", "closed"}]
    /\ body \in [Steps -> {"none", "running", "interrupting", "ok", "failed", "fatal"}]
    /\ \A s \in Steps : fibers[s] = "open" <=> call[s] = "open"
    /\ fatal \subseteq Steps /\ crashes \in 0 .. MaxCrashes

\* Once the effect of a step is over, however it ended, nothing of it runs.
NothingOutlivesStep ==
    \A s \in Steps :
        call[s] \in {"returned", "error", "interrupted"} => body[s] \notin {"running", "interrupting"}

\* A failure that must not be retried is the step's last attempt, in this run of
\* the workflow and in every later one.
FatalIsFinal ==
    \A s \in fatal : result[s] = "failed" /\ body[s] # "running"

\* No attempt starts for a step that was interrupted, although Cloudflare goes on
\* calling back; nor for one whose result is stored.
NoLateAttempt ==
    [][\A s \in Steps : body[s] # "running" /\ body'[s] = "running" =>
          call[s] = "open" /\ result[s] = "open"]_vars

\* An interrupted step is through when its attempt stopped, whatever Cloudflare does.
InterruptedStepsEnd ==
    \A s \in Steps : (call[s] = "joining") ~> (call[s] \in {"interrupted", "none"})
=============================================================================
