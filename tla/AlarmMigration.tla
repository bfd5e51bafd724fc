----------------------------- MODULE AlarmMigration -----------------------------
(***************************************************************************)
(* ensureTable of DurableObjectAlarm.ts: the statements that bring any       *)
(* published layout of the alarm tables to the current one.  The lifecycle  *)
(* index is created last and marks a finished migration.  A pass and the    *)
(* entrypoint's check run it bare, so an eviction may keep any prefix of    *)
(* the statements; a transaction runs it under its own rollback.            *)
(***************************************************************************)
EXTENDS Integers, FiniteSets

CONSTANTS
    Ids,        \* rows of the alarm table
    MaxStarts   \* bound: migrations started

MigrationAssumption == MaxStarts \in Nat

NoTime == -1

\* What a row has been through: revision, attempts, parked, retry_at and progress.
Fresh == [attempts |-> 0, retryAt |-> NoTime]
Histories == {Fresh, [attempts |-> 8, retryAt |-> 9]}
RunAt == 5
WakeOf(history) == IF history.retryAt > RunAt THEN history.retryAt ELSE RunAt

Legacy == {"storage_id", "alarm_id", "tag", "run_at", "repeat_every_ms", "payload"}
AttemptColumns == {"revision", "attempts", "parked", "retry_at", "progress"}
Columns == Legacy \cup AttemptColumns \cup {"lifecycle", "wake_at"}
Indexes == {"run_at", "wake_at", "lifecycle", "lifecycle_v2"}

VARIABLES
    db,       \* columns, history and wake_at of the rows, the attempts table, indexes
    was,      \* what each row had been through before any migration
    pc,       \* the next statement, "idle", "body" of the transaction, "ready"
    saved,    \* the tables a running transaction rolls back to
    managed,  \* a transaction runs the migration
    starts

migrationVars == <<db, was, pc, saved, managed, starts>>

Statements == {"look", "create", "lifecycle", "wake_at", "attempts", "copy",
               "drop", "wakes", "stale", "byWake", "mark"}

\* The layouts of the published versions: no table, one without attempts, one with
\* a table of attempts, with or without wake_at, and a row table before "_v2".
Absent == [columns |-> {}, row |-> [i \in Ids |-> Fresh], wake |-> [i \in Ids |-> 0],
           table |-> FALSE, attempts |-> <<>>, indexes |-> {}]
Unmanaged == [Absent EXCEPT !.columns = Legacy, !.indexes = {"run_at"}]
Queue(history) == [Absent EXCEPT !.columns = Legacy, !.indexes = {"run_at"}, !.table = TRUE,
                                 !.attempts = [i \in {j \in Ids : history[j] # Fresh} |-> history[i]]]
Indexed(history) ==
    [Queue(history) EXCEPT !.columns = @ \cup {"wake_at"}, !.indexes = {"wake_at"},
                           !.wake = [i \in Ids |-> WakeOf(history[i])]]
Unmarked(history) ==
    [Absent EXCEPT !.columns = Columns, !.row = history, !.indexes = {"wake_at", "lifecycle"},
                   !.wake = [i \in Ids |-> WakeOf(history[i])]]

Published(history) ==
    {Queue(history), Indexed(history), Unmarked(history)}
        \cup IF \A i \in Ids : history[i] = Fresh THEN {Absent, Unmanaged} ELSE {}

MigrationInit ==
    /\ was \in [Ids -> Histories] /\ db \in Published(was)
    /\ pc = "idle" /\ saved = db /\ managed = FALSE /\ starts = 0

Begin(tx) ==
    /\ pc \in {"idle", "ready"} /\ starts < MaxStarts /\ starts' = starts + 1
    /\ pc' = "look" /\ managed' = tx /\ saved' = db
    /\ UNCHANGED <<db, was>>

Finished == IF managed THEN "body" ELSE "ready"

Goes(from, to) == pc = from /\ pc' = to /\ UNCHANGED <<was, saved, managed, starts>>

\* Mutant: an old index is taken for the marker.
AnyLifecycleIndex == db.indexes \cap {"lifecycle", "lifecycle_v2"} # {}

Marked == "lifecycle_v2" \in db.indexes

Look == Goes("look", IF Marked THEN Finished ELSE "create") /\ UNCHANGED db

CreateTable ==
    /\ Goes("create", "lifecycle")
    /\ db' = IF db.columns = {} THEN [db EXCEPT !.columns = Columns] ELSE db

AddLifecycle ==
    /\ Goes("lifecycle", "wake_at") /\ db' = [db EXCEPT !.columns = @ \cup {"lifecycle"}]

AddWakeAt ==
    /\ Goes("wake_at", "attempts") /\ db' = [db EXCEPT !.columns = @ \cup {"wake_at"}]

\* One statement for each missing column, with its default.
AddAttemptColumn(c) ==
    /\ c \in AttemptColumns \ db.columns
    /\ Goes("attempts", "attempts") /\ db' = [db EXCEPT !.columns = @ \cup {c}]

ColumnsAdded ==
    /\ AttemptColumns \subseteq db.columns
    /\ Goes("attempts", IF db.table THEN "copy" ELSE "wakes") /\ UNCHANGED db

NothingCopied == db.row

Copied == [i \in Ids |-> IF i \in DOMAIN db.attempts THEN db.attempts[i] ELSE db.row[i]]

CopyAttempts == Goes("copy", "drop") /\ db' = [db EXCEPT !.row = Copied]

DropAttempts == Goes("drop", "wakes") /\ db' = [db EXCEPT !.table = FALSE, !.attempts = <<>>]

\* Mutant: a retained retry does not hold the row back.
WakesAtRunAt == [i \in Ids |-> RunAt]

Wakes == [i \in Ids |-> WakeOf(db.row[i])]

UpdateWakes == Goes("wakes", "stale") /\ db' = [db EXCEPT !.wake = Wakes]

Stale == db.indexes \cap {"lifecycle", "run_at"}

DropIndex(i) ==
    /\ Goes("stale", "stale") /\ i \in Stale /\ db' = [db EXCEPT !.indexes = @ \ {i}]

IndexesDropped == Goes("stale", "byWake") /\ Stale = {} /\ UNCHANGED db

CreateWakeIndex ==
    /\ Goes("byWake", "mark") /\ db' = [db EXCEPT !.indexes = @ \cup {"wake_at"}]

CreateMarker ==
    /\ Goes("mark", Finished) /\ db' = [db EXCEPT !.indexes = @ \cup {"lifecycle_v2"}]

\* Mutant: a failed transaction keeps the statements of its migration.
StatementsKept == db

RolledBack == saved

\* The rest of the transaction commits or fails.
EndBody(committed) ==
    /\ pc = "body"
    /\ IF committed THEN pc' = "ready" /\ UNCHANGED db
                    ELSE pc' = "idle" /\ db' = RolledBack
    /\ UNCHANGED <<was, saved, managed, starts>>

\* The object is evicted: a transaction rolls back, bare statements stay.
Evict ==
    /\ pc \in Statements \cup {"body"}
    /\ pc' = "idle" /\ db' = IF managed THEN RolledBack ELSE db
    /\ UNCHANGED <<was, saved, managed, starts>>

Migrate ==
    \/ Look \/ CreateTable \/ AddLifecycle \/ AddWakeAt
    \/ (\E c \in AttemptColumns : AddAttemptColumn(c)) \/ ColumnsAdded
    \/ CopyAttempts \/ DropAttempts \/ UpdateWakes
    \/ (\E i \in Indexes : DropIndex(i)) \/ IndexesDropped \/ CreateWakeIndex \/ CreateMarker

Done == pc \in {"idle", "ready"} /\ starts = MaxStarts /\ UNCHANGED migrationVars

MigrationNext ==
    \/ \E tx \in BOOLEAN : Begin(tx)
    \/ Migrate \/ Evict \/ Done
    \/ \E ok \in BOOLEAN : EndBody(ok)

MigrationSpec == MigrationInit /\ [][MigrationNext]_migrationVars

----------------------------------------------------------------------------
MigrationTypeOK ==
    /\ db.columns \subseteq Columns /\ db.indexes \subseteq Indexes
    /\ db.row \in [Ids -> Histories] /\ was \in [Ids -> Histories]
    /\ pc \in Statements \cup {"idle", "body", "ready"}
    /\ managed \in BOOLEAN /\ starts \in 0..MaxStarts

\* "The replacement lifecycle index marks the committed single-row migration": where
\* the marker stands, every column exists, no attempts are left behind in their
\* table, and no row is due before its retry.
MarkerIsLast ==
    "lifecycle_v2" \in db.indexes =>
              /\ db.columns = Columns /\ ~ db.table
              /\ \A i \in Ids : db.wake[i] = WakeOf(was[i])

\* Whatever prefix of the statements an eviction keeps, and however often they start
\* over, what a row has been through is in its table or still to be copied.
NothingForgotten ==
    \A i \in Ids :
      IF i \in DOMAIN db.attempts THEN db.attempts[i] = was[i]
      ELSE db.row[i] = was[i]

\* No code runs on a layout it does not know: the scheduler reads and writes rows
\* only after a migration that reached its end.
ReadyMeansMigrated == pc \in {"body", "ready"} => "lifecycle_v2" \in db.indexes

\* A transaction that fails, or is evicted, leaves the layout it found.
FailureRestores == [][managed /\ pc' = "idle" => db' = saved]_migrationVars
=============================================================================
