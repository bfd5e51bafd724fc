---------------------------- MODULE AlarmScheduler ----------------------------
(***************************************************************************)
(* The automatic lifecycle of DurableObjectAlarm: one durable table of      *)
(* alarm rows, written by incoming events (External) and by an alarm pass.  *)
(* A pass runs one lane per dispatcher, concurrently; a lane selects its    *)
(* due rows once, then takes them one at a time: re-read the row, run its   *)
(* handler, acknowledge or charge it.  Handlers and failure hooks write     *)
(* rows of any dispatcher in transactions of their own while their pass is  *)
(* active, from the lane's fiber and from fibers they fork.  Each fiber     *)
(* reports what its transaction parked after the commit; another fiber may  *)
(* write in between, and a forked one may be interrupted there.  The        *)
(* process can be evicted between any two steps; only rows survive.         *)
(*                                                                          *)
(* A storage transaction, the run of its closure included, is one step: the *)
(* Object's storage runs them one after the other and rolls a failed one    *)
(* back as a whole.  When the native alarm fires is AlarmWake's subject;    *)
(* here a pass may start at any time (Deliver).                             *)
(***************************************************************************)
EXTENDS AlarmRow, FiniteSets

CONSTANTS
    Alarms,        \* storage ids; numbers, so that "ORDER BY storage_id" has a meaning
    Dispatchers,   \* one per registered alarm service, and the recovery dispatcher
    Owner,         \* the dispatcher whose tags an alarm belongs to
    Fibers,        \* the fibers of a handler that run transactions
    Main,          \* the lane's own; the others are forked by the handler
    Limit,         \* the batch limit of a pass
    Budgets,       \* the unchangedAttemptBudgets deployments use
    Closures,      \* the transaction bodies: one or two mutations
    MaxTime,       \* bound: the clock stops here
    MaxExternal,   \* bound: transactions of incoming events
    MaxRestarts,   \* bound: evictions and deployments
    StorageFaults, \* whether a lane's own transaction may fail
    NoAlarm, NoMutation

Schedule == [op : {"schedule"}, id : Alarms, input : Input]
Cancel == [op : {"cancel"}, id : Alarms]
Mutation == Schedule \cup Cancel

ASSUME SchedulerAssumption ==
    /\ Alarms \subseteq Nat
    /\ NoAlarm \notin Alarms
    /\ Owner \in [Alarms -> Dispatchers]
    /\ Main \in Fibers
    /\ Limit \in Nat \ {0}
    /\ Budgets \subseteq 1..MaxBudget
    /\ MaxTime \in Nat /\ MaxExternal \in Nat /\ MaxRestarts \in Nat
    /\ StorageFaults \in BOOLEAN
    /\ \A c \in Closures : c[1] \in Mutation /\ (c[2] \in Mutation \/ c[2] = NoMutation)

\* A fresh token differs from the two a live alarm can have: its row's and the
\* one of its row in the pass.
ASSUME RevisionAssumption ==
    /\ Revisions # {}
    /\ \A q, r \in Revisions : \E s \in Revisions : s # q /\ s # r

VARIABLES
    now,        \* Clock.currentTimeMillis
    budget,     \* unchangedAttemptBudget of this incarnation
    rows,       \* the committed table
    phase,      \* where each lane is
    batch,      \* the selected rows not finished yet, as selected
    handled,    \* the row each lane works on
    reports,    \* parked alarms each fiber of a lane still has to report
    external,   \* transactions of incoming events so far
    restarts,   \* evictions and deployments so far
    announced,  \* history: the notices of the current parked episode
    attempted   \* history: start of the last attempt charged to the current budget

vars == <<now, budget, rows, phase, batch, handled, reports,
          external, restarts, announced, attempted>>

\* The notices of an alarm's parked episode: those sent, whether one was lost with
\* its fiber, and whether the episode began before a notice of an older one was sent.
Notices == [sent : 0..2, lost : BOOLEAN, overtaken : BOOLEAN]

NoNotices == [sent |-> 0, lost |-> FALSE, overtaken |-> FALSE]

Phases == {"off", "select", "ready", "handling", "succeeded", "failed"}

TypeOK ==
    /\ now \in Nat
    /\ budget \in Budgets
    /\ rows \in [Alarms -> Row \cup {NoRow}]
    /\ phase \in [Dispatchers -> Phases]
    /\ batch \in [Alarms -> Row \cup {NoRow}]
    /\ handled \in [Dispatchers -> Alarms \cup {NoAlarm}]
    /\ reports \in [Dispatchers -> [Fibers -> SUBSET Alarms]]
    /\ external \in Nat
    /\ restarts \in Nat
    /\ announced \in [Alarms -> Notices]
    /\ attempted \in [Alarms -> Nat \cup {NoTime}]

Init ==
    /\ now = 0
    /\ budget \in Budgets
    /\ rows = [a \in Alarms |-> NoRow]
    /\ phase = [d \in Dispatchers |-> "off"]
    /\ batch = [a \in Alarms |-> NoRow]
    /\ handled = [d \in Dispatchers |-> NoAlarm]
    /\ reports = [d \in Dispatchers |-> [f \in Fibers |-> {}]]
    /\ external = 0
    /\ restarts = 0
    /\ announced = [a \in Alarms |-> NoNotices]
    /\ attempted = [a \in Alarms |-> NoTime]

-----------------------------------------------------------------------------
(* Transactions.                                                            *)

HasRevision(row, revision) == row # NoRow /\ row.revision = revision

Unused(a) == {r \in Revisions : ~ HasRevision(rows[a], r) /\ ~ HasRevision(batch[a], r)}

\* Mutant: an enrollment does not renew the revision.
FixedRevision(a) == CHOOSE r \in Revisions : TRUE

NewRevision(a) == CHOOSE r \in Unused(a) : TRUE

\* Some fiber still has to report the alarm.
Owed(a) == \E d \in Dispatchers, f \in Fibers : a \in reports[d][f]

\* The notices of an alarm's parked episode once its row is rewritten.  A row that
\* becomes parked begins one; a new alarm of a parked pass continues its source's.
Episode(existing, source, row, notices, owed) ==
    IF ~ Parked(row) THEN NoNotices
    ELSE IF Parked(existing) THEN notices
    ELSE [sent      |-> IF existing = NoRow /\ Parked(source) THEN 1 ELSE 0,
          lost      |-> FALSE,
          overtaken |-> owed]

\* A transaction works on a view: the rows it has written so far and the alarms
\* it has parked, with the history of their notices.
View(table) == [rows |-> table, parks |-> {}, announced |-> announced]

Apply(view, mutation, source, self) ==
    LET a == mutation.id
        existing == view.rows[a]
        row == Scheduled(mutation.input, existing, source,
                         a = self, budget, now, NewRevision(a))
    IN  IF mutation.op = "cancel"
        THEN [rows      |-> [view.rows EXCEPT ![a] = NoRow],
              parks     |-> view.parks,
              announced |-> [view.announced EXCEPT ![a] = NoNotices]]
        ELSE IF Replayed(mutation.input, existing, source) THEN view
        ELSE [rows      |-> [view.rows EXCEPT ![a] = row],
              parks     |-> IF Parks(existing, source, row)
                            THEN view.parks \cup {a} ELSE view.parks,
              announced |-> [view.announced EXCEPT
                                ![a] = Episode(existing, source, row, @,
                                               Owed(a) \/ a \in view.parks)]]

Run(closure, source, self) ==
    LET first == Apply(View(rows), closure[1], source, self)
    IN  IF closure[2] = NoMutation THEN first ELSE Apply(first, closure[2], source, self)

\* The commit.  A written row without charged attempts has a fresh budget.
Commit(view) ==
    /\ rows' = view.rows
    /\ announced' = view.announced
    /\ attempted' = [a \in Alarms |->
          IF view.rows[a] # rows[a] /\ Attempts(view.rows[a]) = 0
          THEN NoTime ELSE attempted[a]]

\* A transaction of an incoming event.
External ==
    /\ external < MaxExternal
    /\ external' = external + 1
    /\ \E closure \in Closures : Commit(Run(closure, NoRow, NoAlarm))
    /\ UNCHANGED <<now, budget, phase, batch, handled, reports, restarts>>

-----------------------------------------------------------------------------
(* The pass.                                                                *)

\* The lane's own fiber reports what it parked before it goes on.
Reported(d) == reports[d][Main] = {}

\* A native delivery or a post-response dispatch; a pass in progress is joined.
Deliver ==
    /\ \A d \in Dispatchers : phase[d] = "off" /\ Reported(d)
    /\ phase' = [d \in Dispatchers |-> "select"]
    /\ UNCHANGED <<now, budget, rows, batch, handled, reports,
                   external, restarts, announced, attempted>>

\* ORDER BY wake_at, storage_id.
Before(table, a, b) ==
    \/ table[a].wakeAt < table[b].wakeAt
    \/ table[a].wakeAt = table[b].wakeAt /\ a < b

Due(d) == {a \in Alarms : Owner[a] = d /\ rows[a] # NoRow /\ rows[a].wakeAt <= now}

Selected(d) == {a \in Due(d) : Cardinality({b \in Due(d) : Before(rows, b, a)}) < Limit}

Batched(d) == {a \in Alarms : Owner[a] = d /\ batch[a] # NoRow}

Select(d) ==
    /\ phase[d] = "select"
    /\ batch' = [a \in Alarms |-> IF a \in Selected(d) THEN rows[a] ELSE batch[a]]
    /\ phase' = [phase EXCEPT ![d] = "ready"]
    /\ UNCHANGED <<now, budget, rows, handled, reports,
                   external, restarts, announced, attempted>>

Idle(d) == phase[d] = "ready" /\ Reported(d)

First(d, a) == a \in Batched(d) /\ \A b \in Batched(d) \ {a} : Before(batch, a, b)

\* Mutant: only a removed row is passed over, a rewritten one blocks its lane.
SkipMissing(d) ==
    /\ Idle(d)
    /\ \E a \in Alarms :
          /\ First(d, a)
          /\ rows[a] = NoRow
          /\ batch' = [batch EXCEPT ![a] = NoRow]
    /\ UNCHANGED <<now, budget, rows, phase, handled, reports,
                   external, restarts, announced, attempted>>

\* The re-read: a row rewritten or removed since its selection is passed over.
Skip(d) ==
    /\ Idle(d)
    /\ \E a \in Alarms :
          /\ First(d, a)
          /\ ~ HasRevision(rows[a], batch[a].revision)
          /\ batch' = [batch EXCEPT ![a] = NoRow]
    /\ UNCHANGED <<now, budget, rows, phase, handled, reports,
                   external, restarts, announced, attempted>>

\* CurrentAlarmPass holds the selected row from here to the row's end.
Start(d) ==
    /\ Idle(d)
    /\ \E a \in Alarms :
          /\ First(d, a)
          /\ HasRevision(rows[a], batch[a].revision)
          /\ handled' = [handled EXCEPT ![d] = a]
          /\ attempted' = [attempted EXCEPT ![a] = now]
    /\ phase' = [phase EXCEPT ![d] = "handling"]
    /\ UNCHANGED <<now, budget, rows, batch, reports, external, restarts, announced>>

\* The handler and, after a failure, the onFailure hook write in the pass, from
\* any of their fibers that is not in a transaction or its reports already.
InPass(d) == phase[d] \in {"handling", "failed"}

HandlerTransaction(d, f) ==
    /\ InPass(d)
    /\ reports[d][f] = {}
    /\ \E closure \in Closures :
          LET view == Run(closure, batch[handled[d]], handled[d])
          IN  /\ Commit(view)
              /\ reports' = [reports EXCEPT ![d][f] = view.parks]
    /\ UNCHANGED <<now, budget, phase, batch, handled, external, restarts>>

\* The handler's exit; pass.active becomes false and its fibers can no longer
\* write.  A forked fiber that has committed may still have to report.
HandlerExit(d) ==
    /\ phase[d] = "handling"
    /\ Reported(d)
    /\ \E exit \in {"succeeded", "failed"} : phase' = [phase EXCEPT ![d] = exit]
    /\ UNCHANGED <<now, budget, rows, batch, handled, reports,
                   external, restarts, announced, attempted>>

\* reportParked, one alarm at a time, after the commit: it reads the row again
\* and stays silent unless the row is still parked.
Report(d, f) ==
    /\ \E a \in reports[d][f] :
          /\ reports' = [reports EXCEPT ![d][f] = @ \ {a}]
          /\ announced' = IF Parked(rows[a])
                          THEN [announced EXCEPT ![a].sent = MinOf(2, @ + 1)] ELSE announced
    /\ UNCHANGED <<now, budget, rows, phase, batch, handled, external, restarts, attempted>>

\* The notices of the given alarms are lost with the fibers that owe them.
LoseNotices(alarms) ==
    announced' = [a \in Alarms |->
        IF a \in alarms /\ Parked(rows[a])
        THEN [announced[a] EXCEPT !.lost = TRUE] ELSE announced[a]]

\* A forked fiber is interrupted after its commit: by its handler (a timeout, a
\* race) or with the handler's scope.
Interrupt(d, f) ==
    /\ f # Main
    /\ reports[d][f] # {}
    /\ LoseNotices(reports[d][f])
    /\ reports' = [reports EXCEPT ![d][f] = {}]
    /\ UNCHANGED <<now, budget, rows, phase, batch, handled, external, restarts, attempted>>

-----------------------------------------------------------------------------
(* The end of a row, and of a lane.                                         *)

\* Mutant: the end of a row only asks whether the alarm still exists.
StillEnrolled(d) == rows[handled[d]] # NoRow

\* A revision guard fences every write that ends a row.
Current(d) == HasRevision(rows[handled[d]], batch[handled[d]].revision)

\* Go on to the next row.
Advance(d) ==
    /\ batch' = [batch EXCEPT ![handled[d]] = NoRow]
    /\ phase' = [phase EXCEPT ![d] = "ready"]
    /\ handled' = [handled EXCEPT ![d] = NoAlarm]

\* Give the rest of the batch up: an error of a row's end ends its lane.
Abandon(d) ==
    /\ batch' = [a \in Alarms |-> IF Owner[a] = d THEN NoRow ELSE batch[a]]
    /\ phase' = [phase EXCEPT ![d] = "off"]
    /\ handled' = [handled EXCEPT ![d] = NoAlarm]

Settled(d, row) ==
    LET a == handled[d]
    IN  [View([rows EXCEPT ![a] = row])
            EXCEPT !.announced[a] = Episode(rows[a], NoRow, row, @, Owed(a))]

\* acknowledgeAlarm in a transaction of its own.
Acknowledge(d) ==
    LET a == handled[d]
        row == Acknowledged(rows[a], batch[a], now, NewRevision(a))
    IN  /\ Commit(IF Current(d) THEN Settled(d, row) ELSE View(rows))
        /\ UNCHANGED <<now, budget, reports, external, restarts>>

Succeed(d) == phase[d] = "succeeded" /\ Acknowledge(d) /\ Advance(d)

\* The failure action "skip-and-advance-repeat".
SkipFailed(d) == phase[d] = "failed" /\ Reported(d) /\ Acknowledge(d) /\ Advance(d)

\* The failure action "retry"; it is also what follows when the hook itself
\* fails, and then the lane ends with the hook's error.
RetryFailed(d) ==
    LET a == handled[d]
        row == Failed(rows[a], batch[a], budget, now, NewRevision(a))
    IN  /\ phase[d] = "failed"
        /\ Reported(d)
        /\ Commit(IF Current(d) THEN Settled(d, row) ELSE View(rows))
        /\ reports' = [reports EXCEPT ![d][Main] =
              IF Current(d) /\ row.parked /\ ~ batch[a].parked THEN {a} ELSE {}]
        /\ Advance(d) \/ Abandon(d)
        /\ UNCHANGED <<now, budget, external, restarts>>

\* The transaction of a row's end fails and is rolled back.
StorageFault(d) ==
    /\ StorageFaults
    /\ phase[d] \in {"succeeded", "failed"}
    /\ Reported(d)
    /\ Abandon(d)
    /\ UNCHANGED <<now, budget, rows, reports, external, restarts, announced, attempted>>

Finish(d) ==
    /\ Idle(d)
    /\ Batched(d) = {}
    /\ phase' = [phase EXCEPT ![d] = "off"]
    /\ UNCHANGED <<now, budget, rows, batch, handled, reports,
                   external, restarts, announced, attempted>>

-----------------------------------------------------------------------------
\* Eviction, crash or deployment: the pass is lost, the table is not.  A notice
\* that was still to be sent is lost too.
Restart ==
    /\ restarts < MaxRestarts
    /\ restarts' = restarts + 1
    /\ budget' \in Budgets
    /\ phase' = [d \in Dispatchers |-> "off"]
    /\ batch' = [a \in Alarms |-> NoRow]
    /\ handled' = [d \in Dispatchers |-> NoAlarm]
    /\ reports' = [d \in Dispatchers |-> [f \in Fibers |-> {}]]
    /\ LoseNotices({a \in Alarms : Owed(a)})
    /\ UNCHANGED <<now, rows, external, attempted>>

Tick ==
    /\ now < MaxTime
    /\ now' = now + 1
    /\ UNCHANGED <<budget, rows, phase, batch, handled, reports,
                   external, restarts, announced, attempted>>

Lane(d) ==
    \/ Select(d) \/ Skip(d) \/ Start(d)
    \/ \E f \in Fibers : HandlerTransaction(d, f) \/ Report(d, f) \/ Interrupt(d, f)
    \/ HandlerExit(d)
    \/ Succeed(d) \/ SkipFailed(d) \/ RetryFailed(d) \/ StorageFault(d)
    \/ Finish(d)

Next == External \/ Deliver \/ (\E d \in Dispatchers : Lane(d)) \/ Restart \/ Tick

Spec == Init /\ [][Next]_vars

-----------------------------------------------------------------------------
(* Safety.                                                                  *)

Consistent(row) ==
    /\ (row.attempts = 0) = (row.retryAt = NoTime)
    /\ row.parked => row.attempts > 0
    /\ row.wakeAt = WakeAt(row.runAt, row.retryAt)

\* A row records a retry deadline exactly when attempts are charged to it, is
\* parked only then, and its effective wake deadline is the later of the two:
\* whatever mix of enrollments, failures and completions wrote it.
RowsConsistent == \A a \in Alarms : rows[a] # NoRow => Consistent(rows[a])

HasBudget(row) == row.parked \/ row.attempts < MaxBudget

\* Work that is not parked has attempts left under some budget in use: no
\* sequence of failures, self-rearms, enrollments by other handlers and
\* deployments drives a row past its budget without parking it.
BudgetEndsInParking == \A a \in Alarms : rows[a] # NoRow => HasBudget(rows[a])

\* A revision identifies the row a pass selected: if the table still holds the
\* revision, it holds the very row, so the guards of acknowledgeAlarm and
\* rescheduleFailedAlarm compare everything by comparing revisions.
RevisionIdentifiesRow ==
    \A a \in Alarms :
        batch[a] # NoRow /\ HasRevision(rows[a], batch[a].revision) => rows[a] = batch[a]

\* A parking is announced at most once ("Reporting is at-most-once per parked
\* episode, after the native commit", reportParked).
AnnouncedAtMostOnce == \A a \in Alarms : announced[a].sent <= 1

\* A parked episode is announced at most once unless it began while a notice of
\* an older episode of its alarm had still to be sent: however many lanes and
\* handler fibers park, resume and cancel the work.
AnnouncedOncePerEpisode ==
    \A a \in Alarms : announced[a].sent <= 1 \/ announced[a].overtaken

\* No parking goes unannounced while its fiber lives: until its notice is sent
\* some fiber still has to send it.  Only an eviction, or the interruption of a
\* forked fiber between its commit and its report, loses a notice.
NoSilentParking ==
    \A a \in Alarms :
        Parked(rows[a]) /\ announced[a].sent = 0 /\ ~ announced[a].lost => Owed(a)

-----------------------------------------------------------------------------
(* What a step may never do.                                                *)

\* The lane ends its row in this step (and is not killed by a restart).
Ends(d) == handled[d] # NoAlarm /\ handled'[d] = NoAlarm /\ restarts' = restarts

\* The end of a row, success or failure, touches no other row, and its own
\* only if that is the row its handler was given: what was enrolled or
\* cancelled while the handler ran survives.
NewerScheduleSurvives ==
    [][\A d \in Dispatchers : Ends(d) =>
          \A a \in Alarms : rows'[a] # rows[a] =>
              a = handled[d] /\ rows[a] = batch[a]]_vars

\* Charged attempts are forgiven only by an incoming enrollment, a source
\* cursor beyond the lane's or its pass's, or a completed occurrence: never by
\* a handler that re-enrolls itself or another alarm, nor by a failure.
BudgetNeverRefilled ==
    [][\A a \in Alarms :
          Attempts(rows[a]) > 0 /\ rows'[a] # NoRow /\ Attempts(rows'[a]) = 0 =>
              \/ external' # external
              \/ rows'[a].progress > rows[a].progress
              \/ \E d \in Dispatchers :
                    InPass(d) /\ rows'[a].progress > batch[handled[d]].progress
              \/ \E d \in Dispatchers :
                    /\ Ends(d)
                    /\ handled[d] = a
                    /\ rows[a] = batch[a]
                    /\ rows[a].every # NoTime]_vars

Starts(d, a) == handled[d] = NoAlarm /\ handled'[d] = a

\* Two attempts charged to one budget are a full backoff apart, and a full
\* parked delay once the work is parked, whoever rewrote the row in between.
BackoffRespected ==
    [][\A d \in Dispatchers, a \in Alarms :
          Starts(d, a) /\ attempted[a] # NoTime =>
              /\ rows[a].attempts > 0
              /\ now >= attempted[a]
                     + RetryDelay(rows[a].attempts, rows[a].parked, MinRetryDelay)]_vars

\* "Parked work ... gets at most one automatic attempt per hour until progress
\* resumes it" (docs/durable-object-wakeups.md:13).
ParkedAttemptSpacing ==
    [][\A d \in Dispatchers, a \in Alarms :
          Starts(d, a) /\ Parked(rows[a]) /\ attempted[a] # NoTime =>
              now >= attempted[a] + ParkedDelay]_vars

-----------------------------------------------------------------------------
(* The abstract view.                                                       *)

Work == [a \in Alarms |-> IF rows[a] = NoRow THEN "idle" ELSE "pending"]

Attempting == [a \in Alarms |->
    IF handled[Owner[a]] # a THEN "none"
    ELSE IF HasRevision(rows[a], batch[a].revision) THEN "current" ELSE "stale"]

Promise == INSTANCE AlarmPromise WITH work <- Work, attempt <- Attempting

\* The scheduler keeps the promise: enrolled work is removed only by a write of
\* its owner or by the completion of an attempt at exactly that enrollment.
KeepsPromise == Promise!Spec

-----------------------------------------------------------------------------
(* Liveness.  Handlers are assumed to return, and the runtime to go on with *)
(* a fiber that can go on; AlarmWake shows that due work has a delivery.    *)

DueWork == \E a \in Alarms : rows[a] # NoRow /\ rows[a].wakeAt <= now

RowEnd(d) == Succeed(d) \/ SkipFailed(d) \/ RetryFailed(d)

Fairness ==
    /\ WF_vars(DueWork /\ Deliver)
    /\ \A d \in Dispatchers :
          /\ WF_vars(Select(d) \/ Skip(d) \/ Start(d) \/ Finish(d))
          /\ \A f \in Fibers : WF_vars(Report(d, f))
          /\ SF_vars(HandlerExit(d))
          /\ SF_vars(RowEnd(d))

FairSpec == Spec /\ Fairness

\* Due work is attempted, unless it is cancelled or moved into the future first:
\* neither the batch limit, nor a row of its lane that is rewritten, fails or
\* abandons its batch, nor an eviction makes it wait for ever.
DueWorkIsAttempted ==
    \A a \in Alarms :
        rows[a] # NoRow /\ rows[a].wakeAt <= now ~>
            \/ rows[a] = NoRow
            \/ rows[a].wakeAt > now
            \/ handled[Owner[a]] = a
=============================================================================
