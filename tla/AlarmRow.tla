------------------------------- MODULE AlarmRow -------------------------------
(***************************************************************************)
(* One row of effect_cf_scheduled_alarms (DurableObjectAlarm.ts) and the    *)
(* functions that compute its successor: enrollment, failure and            *)
(* completion.  The module has no state: AlarmScheduler decides when a row  *)
(* is written, this module decides what is written.                         *)
(*                                                                          *)
(* Times are natural numbers; SQL NULL in a time column is NoTime.  A       *)
(* payload is opaque data and is left out, so "keep the earlier schedule"   *)
(* keeps runAt and every (repeat_every_ms) only.                            *)
(***************************************************************************)
EXTENDS Integers

CONSTANTS
    Revisions,       \* revision tokens (UUIDs in the code)
    MinRetryDelay,   \* minimumRetryDelay
    InitialDelay,    \* retryFailedAfter / retry.initialDelay of the handlers
    ParkedDelay,     \* parkedRetryDelay
    MinRepeat,       \* minimumRepeatInterval
    MaxBudget,       \* the largest unchangedAttemptBudget a deployment uses
    NoRow            \* an absent row, and an absent source row

NoTime == -1
NoProgress == -1

MaxOf(a, b) == IF a >= b THEN a ELSE b
MinOf(a, b) == IF a <= b THEN a ELSE b

Row == [runAt    : Nat,
        wakeAt   : Nat,
        every    : Nat \cup {NoTime},
        attempts : 0..MaxBudget,
        parked   : BOOLEAN,
        retryAt  : Nat \cup {NoTime},
        progress : Nat \cup {NoProgress},
        revision : Revisions]

\* What a caller passes to scheduleAlarm or scheduleAlarmEarlier.
Input == [runAt    : Nat,
          every    : Nat \cup {NoTime},
          earlier  : BOOLEAN,
          progress : Nat \cup {NoProgress}]

\* The configuration schema's floors.  PowerFact is arithmetic the provers
\* lack; TLC evaluates it for the budget at hand.
ASSUME DelayAssumption ==
    /\ MinRetryDelay \in Nat \ {0}
    /\ InitialDelay \in Nat
    /\ InitialDelay >= MinRetryDelay
    /\ ParkedDelay \in Nat
    /\ ParkedDelay >= MinRetryDelay
    /\ MinRepeat \in Nat \ {0}
    /\ MaxBudget \in Nat \ {0}

ASSUME PowerFact == \A n \in 0..MaxBudget : 2^n \in Nat \ {0}

ASSUME RowAssumption == NoRow \notin Row

-----------------------------------------------------------------------------
\* Exponential backoff, capped by the parked delay; parked work waits in full.
RetryDelay(attempts, parked, initial) ==
    IF parked THEN ParkedDelay
              ELSE MinOf(ParkedDelay, initial * 2^(attempts - 1))

\* Mutant: the retry deadline does not hold the row back.
WakeAtRunAt(runAt, retryAt) == runAt

\* wake_at = MAX(run_at, COALESCE(retry_at, run_at)).
WakeAt(runAt, retryAt) == MaxOf(runAt, retryAt)

Parked(row) == row # NoRow /\ row.parked

Attempts(row) == IF row = NoRow THEN 0 ELSE row.attempts

-----------------------------------------------------------------------------
(* scheduleAlarm of the automatic lifecycle.  source is the row of the pass *)
(* the call runs in, NoRow outside a pass; same says that the call          *)
(* schedules the source's own alarm.                                        *)

KnownProgress(existing, source) ==
    IF existing # NoRow THEN existing.progress
    ELSE IF source # NoRow THEN source.progress
    ELSE NoProgress

\* A replayed source notice leaves the row alone.
Replayed(input, existing, source) ==
    /\ source = NoRow
    /\ input.progress # NoProgress
    /\ input.progress <= KnownProgress(existing, source)

\* Mutant: repeating a known cursor counts as progress.
ReplenishedBySameCursor(input, existing, source, same) ==
    \/ source = NoRow
    \/ input.progress >= KnownProgress(existing, source)
    \/ same /\ KnownProgress(existing, source) > source.progress

\* Enrollment from outside a pass, a new cursor in the input, or a cursor the
\* lane advanced since the pass selected its row start a fresh budget.
Replenished(input, existing, source, same) ==
    \/ source = NoRow
    \/ input.progress > KnownProgress(existing, source)
    \/ same /\ KnownProgress(existing, source) > source.progress

ScheduledAttempts(input, existing, source, same, budget) ==
    IF Replenished(input, existing, source, same) THEN 0
    ELSE IF Parked(source) \/ Parked(existing)
         THEN MaxOf(source.attempts, Attempts(existing))
         ELSE MinOf(budget, MaxOf(source.attempts + 1, Attempts(existing)))

Scheduled(input, existing, source, same, budget, now, revision) ==
    LET attempts == ScheduledAttempts(input, existing, source, same, budget)
        parked   == /\ attempts > 0
                    /\ attempts >= budget \/ Parked(source) \/ Parked(existing)
        retryAt  == IF attempts = 0 THEN NoTime
                    ELSE now + RetryDelay(attempts, parked, MinRetryDelay)
        keep     == input.earlier /\ existing # NoRow /\ existing.runAt <= input.runAt
        runAt    == IF keep THEN existing.runAt ELSE input.runAt
    IN  [runAt    |-> runAt,
         wakeAt   |-> WakeAt(runAt, retryAt),
         every    |-> IF keep THEN existing.every ELSE input.every,
         attempts |-> attempts,
         parked   |-> parked,
         retryAt  |-> retryAt,
         progress |-> MaxOf(KnownProgress(existing, source), input.progress),
         revision |-> revision]

\* Mutants: report every parked enrollment; forget a new alarm that is born parked.
ParksAgain(existing, source, row) == row.parked

ParksExistingOnly(existing, source, row) ==
    row.parked /\ existing # NoRow /\ ~ Parked(existing)

\* The row is reported when this call parked it: neither the row it replaces
\* nor, for a new alarm, the pass's own row was parked before.
Parks(existing, source, row) ==
    /\ row.parked
    /\ ~ IF existing # NoRow THEN existing.parked ELSE Parked(source)

-----------------------------------------------------------------------------
(* The two ends of a pass over a row.  row is the row the pass selected,    *)
(* current the one the table holds; the caller has compared revisions.      *)

\* Mutants: a parked row keeps counting; the last attempt does not park.
FailedUncapped(current, row, budget, now, revision) ==
    [current EXCEPT !.attempts = row.attempts + 1, !.parked = TRUE,
                    !.retryAt = now + ParkedDelay, !.revision = revision]

FailedNeverParks(current, row, budget, now, revision) ==
    LET attempts == MinOf(budget, row.attempts + 1)
        retryAt  == now + RetryDelay(attempts, row.parked, InitialDelay)
    IN  [current EXCEPT !.wakeAt = WakeAt(current.runAt, retryAt),
                        !.attempts = attempts, !.retryAt = retryAt,
                        !.revision = revision]

\* rescheduleFailedAlarm: charge one attempt, back off, park at the budget.
Failed(current, row, budget, now, revision) ==
    LET attempts == IF row.parked THEN row.attempts
                    ELSE MinOf(budget, row.attempts + 1)
        parked   == row.parked \/ attempts >= budget
        retryAt  == now + RetryDelay(attempts, parked, InitialDelay)
    IN  [current EXCEPT !.wakeAt = WakeAt(current.runAt, retryAt),
                        !.attempts = attempts,
                        !.parked = parked,
                        !.retryAt = retryAt,
                        !.progress = row.progress,
                        !.revision = revision]

\* Mutant: the next occurrence keeps the retry deadline of the last one.
AcknowledgedKeepingRetry(current, row, now, revision) ==
    IF row.every = NoTime THEN NoRow
    ELSE [current EXCEPT !.runAt = now + row.every, !.wakeAt = now + row.every,
                         !.attempts = 0, !.parked = FALSE, !.revision = revision]

\* acknowledgeAlarm: a one-shot is deleted, a repeat advances from now.
Acknowledged(current, row, now, revision) ==
    IF row.every = NoTime THEN NoRow
    ELSE LET next == now + MaxOf(MinRepeat, row.every)
         IN  [current EXCEPT !.runAt = next,
                             !.wakeAt = next,
                             !.attempts = 0,
                             !.parked = FALSE,
                             !.retryAt = NoTime,
                             !.progress = row.progress,
                             !.revision = revision]
=============================================================================
