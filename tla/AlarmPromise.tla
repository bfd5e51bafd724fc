----------------------------- MODULE AlarmPromise -----------------------------
(***************************************************************************)
(* What the alarm scheduler promises its callers, without time, budgets or  *)
(* lanes.  Work is pending from its enrollment on.  An attempt at it is     *)
(* current until somebody writes the work again, and stale from then on.    *)
(* Pending work ends in one of two ways only: somebody's write removes it,  *)
(* or an attempt completes that is still current, one that began after the  *)
(* work was last enrolled.  A lost attempt leaves the work pending.         *)
(***************************************************************************)
CONSTANT Alarms

VARIABLES work, attempt

pvars == <<work, attempt>>

Init ==
    /\ work = [a \in Alarms |-> "idle"]
    /\ attempt = [a \in Alarms |-> "none"]

\* One transaction enrolls, replaces and cancels any set of alarms at once.
Write ==
    \E written \in SUBSET Alarms :
        /\ \E result \in [written -> {"idle", "pending"}] :
              work' = [a \in Alarms |-> IF a \in written THEN result[a] ELSE work[a]]
        /\ attempt' = [a \in Alarms |->
              IF a \in written /\ attempt[a] # "none" THEN "stale" ELSE attempt[a]]

Attempt(a) ==
    /\ work[a] = "pending"
    /\ attempt[a] = "none"
    /\ attempt' = [attempt EXCEPT ![a] = "current"]
    /\ UNCHANGED work

\* Success ends one-shot work; a repeat, and work that failed, stay pending.
Complete(a) ==
    /\ attempt[a] = "current"
    /\ attempt' = [attempt EXCEPT ![a] = "none"]
    /\ \E result \in {"idle", "pending"} : work' = [work EXCEPT ![a] = result]

\* The end of a stale attempt, or of one whose last write failed, changes nothing.
Discard(a) ==
    /\ attempt[a] # "none"
    /\ attempt' = [attempt EXCEPT ![a] = "none"]
    /\ UNCHANGED work

Lose ==
    /\ attempt' = [a \in Alarms |-> "none"]
    /\ UNCHANGED work

Next == Write \/ Lose \/ \E a \in Alarms : Attempt(a) \/ Complete(a) \/ Discard(a)

Spec == Init /\ [][Next]_pvars
=============================================================================
