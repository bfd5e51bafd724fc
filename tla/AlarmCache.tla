------------------------------- MODULE AlarmCache -------------------------------
(***************************************************************************)
(* The metadata cache of DurableObjectAlarm.ts over the transaction scopes of  *)
(* internal/StorageTransaction.ts.  A transaction reads and writes a private   *)
(* view; a committed root's view becomes the committed cache, a committed      *)
(* child's its parent's, and whatever cannot be observed turns the cache off.  *)
(* The database is one connection with nested savepoints.  A callback may go     *)
(* on after tx.rollback, and the platform may run it again: its view then tells  *)
(* of writes that are gone, and the caches that may do so are marked.            *)
(***************************************************************************)
EXTENDS Integers, Sequences, FiniteSets

CONSTANTS
    RowIds,
    Oversized,          \* alarms whose row is too long to keep
    MaxCached,          \* MAX_CACHED_ALARMS
    Times,              \* native alarm times; 0 is none, Unread not known
    Surprises,          \* what happens besides nested transactions and deleteAll
    MaxDepth,           \* bound: scopes open at once
    MaxWrites,          \* bound: rows written
    MaxDeletes,         \* bound: deleteAll calls
    MaxRepeats,         \* bound: callbacks the platform runs again
    NoView, NoReader, Unread

CacheAssumption ==
    /\ Oversized \subseteq RowIds /\ MaxCached \in Nat \ {0}
    /\ Surprises \subseteq {"hidden", "overlap", "blind"}
    /\ MaxDepth \in Nat \ {0} /\ MaxWrites \in Nat /\ MaxDeletes \in Nat /\ MaxRepeats \in Nat

RowRevisions == 0..MaxWrites   \* 0: no row, or none in the cache
Contents == [table : BOOLEAN, rows : [RowIds -> RowRevisions], native : Times \cup {0}]
\* doubted is history: a view whose writes were taken back, or a copy of one.
Cache == [schema : BOOLEAN, complete : BOOLEAN, rows : [RowIds -> RowRevisions],
          native : Times \cup {0, Unread}, doubted : BOOLEAN]
Scope == [tracked : BOOLEAN, root : BOOLEAN, saved : Contents, cacheable : BOOLEAN,
          rolledBack : BOOLEAN, view : Cache \cup {NoView}, fresh : BOOLEAN]
Readers == [alarm : RowIds, revision : RowRevisions] \cup {NoReader}

MarksAssumption == NoView \notin Cache /\ NoReader \notin [alarm : RowIds, revision : RowRevisions]

VARIABLES
    db,        \* what the connection shows: the alarm table and the native alarm
    mem,       \* the cache states, the open scopes, and whether a reader's cache is current
    reader,    \* a read outside transactions that yielded between its query and the cache
    deleting,  \* whether the promise of a deleteAll is pending
    writes, deletes, repeats,
    surprised  \* history: something besides nested transactions happened

cacheVars == <<db, mem, reader, deleting, writes, deletes, repeats, surprised>>

NoRows == [a \in RowIds |-> 0]
EmptyDb == [table |-> FALSE, rows |-> NoRows, native |-> 0]
EmptyCache(schema) == [schema |-> schema, complete |-> FALSE, rows |-> NoRows,
                       native |-> Unread, doubted |-> FALSE]

\* A view that outlived what it tells of.
Doubted(view) == IF view = NoView THEN NoView ELSE [view EXCEPT !.doubted = TRUE]

Top == Len(mem.scopes)
Cached(cache) == {a \in RowIds : cache.rows[a] # 0}

\* rememberRow: a row that is too long, or one too many, costs completeness.
Remembered(cache, a, revision) ==
    IF a \in Oversized
    THEN [cache EXCEPT !.rows[a] = 0, !.complete = FALSE]
    ELSE IF a \in Cached(cache) \/ Cardinality(Cached(cache)) < MaxCached
    THEN [cache EXCEPT !.rows[a] = revision]
    ELSE LET oldest == CHOOSE b \in Cached(cache) : TRUE
         IN  [cache EXCEPT !.rows[a] = revision, !.rows[oldest] = 0, !.complete = FALSE]

----------------------------------------------------------------------------
(* currentCache and transactionCache. *)

\* A version that moved on empties the cache and forgets every view.
Refreshed(m) ==
    IF ~ m.stale THEN m
    ELSE [m EXCEPT !.stale = FALSE, !.held = FALSE, !.committed = EmptyCache(FALSE),
                   !.scopes = [i \in DOMAIN @ |-> [@[i] EXCEPT !.view = NoView]]]

Disabled(m) == [m EXCEPT !.enabled = FALSE]

\* invalidateStorageCache without disabling.
Invalidated(m) ==
    [m EXCEPT !.stale = TRUE, !.scopes = [i \in DOMAIN @ |-> [@[i] EXCEPT !.fresh = FALSE]]]

\* The tracked scopes between a scope and its root.
Chain(m, i) ==
    LET root == CHOOSE r \in 1..i : /\ m.scopes[r].root
                                    /\ \A j \in r+1..i : ~ m.scopes[j].root
    IN  {j \in root..i : m.scopes[j].tracked}

Overlaps(m) == m.roots > 0

\* transactionCache: a scope without a view copies its parent's, the root the
\* committed cache, which it leaves empty.
Observed(m, i) ==
    LET chain == Chain(m, i)
        new == {j \in chain : m.scopes[j].view = NoView}
        atRoot == \E j \in new : m.scopes[j].root
        source == IF atRoot THEN m.committed
                  ELSE m.scopes[CHOOSE j \in chain \ new : \A k \in chain \ new : k <= j].view
        viewed == [m EXCEPT !.scopes = [j \in DOMAIN @ |->
                     IF j \in new THEN [@[j] EXCEPT !.view = source, !.fresh = TRUE] ELSE @[j]]]
    IN  IF \E j \in chain : ~ m.scopes[j].cacheable THEN Disabled(m)
        ELSE IF new = {} THEN m
        ELSE IF ~ atRoot THEN viewed
        ELSE IF Overlaps(m) THEN Disabled(m)
        ELSE [viewed EXCEPT !.roots = @ + 1, !.held = FALSE,
                            !.committed = [EmptyCache(source.schema) EXCEPT
                                             !.doubted = source.doubted]]

\* currentCache in the innermost scope, or outside (i = 0). A scope below an SQL
\* transaction that nobody wrapped is not the one the connection is in.
Accessed(i) ==
    LET m == Refreshed(mem)
    IN  IF ~ m.enabled \/ i = 0 THEN m
        ELSE IF ~ m.scopes[i].tracked THEN Disabled(m)
        ELSE Observed(m, i)

CacheIn(m, i) == IF i = 0 THEN m.committed ELSE m.scopes[i].view

\* The state after an access in scope i that leaves the cache as Change(cache).
Through(i, Change(_)) ==
    LET m == Accessed(i)
    IN  IF ~ m.enabled THEN m
        ELSE IF i = 0 THEN [m EXCEPT !.committed = Change(@)]
        ELSE [m EXCEPT !.scopes[i].view = Change(@)]

\* Whether the cache answers for the row of an alarm.
Answers(m, i, a) ==
    m.enabled /\ (CacheIn(m, i).complete \/ CacheIn(m, i).rows[a] # 0)

\* ensureSchema believes the cache, and creates the table otherwise; a statement on a
\* table that is not there fails.
TableEnsured(m, i) == m.enabled /\ CacheIn(m, i).schema => db.table

----------------------------------------------------------------------------
CacheInit ==
    /\ db = EmptyDb
    /\ mem = [enabled |-> TRUE, stale |-> FALSE, committed |-> EmptyCache(FALSE), roots |-> 0,
              scopes |-> <<>>, held |-> FALSE]
    /\ reader = NoReader /\ deleting = FALSE
    /\ writes = 0 /\ deletes = 0 /\ repeats = 0 /\ surprised = FALSE

Opened(tracked, root, cacheable) ==
    [mem EXCEPT !.enabled = @ /\ (tracked => cacheable),
                !.scopes = Append(@, [tracked |-> tracked, root |-> root, saved |-> db,
                                      cacheable |-> cacheable, rolledBack |-> FALSE,
                                      view |-> NoView, fresh |-> FALSE])]

\* withStorageTransaction, in the innermost scope. Neither an untracked outer
\* transaction nor a hidden middle scope can publish a view.
Open ==
    /\ Top < MaxDepth
    /\ mem' = Opened(TRUE, \A i \in 1..Top : ~ mem.scopes[i].tracked,
                     Top = 0 \/ (mem.scopes[Top].tracked /\ mem.scopes[Top].cacheable))
    /\ UNCHANGED <<db, reader, deleting, writes, deletes, repeats, surprised>>

\* Another transaction of the scheduler opens as a root while one is open.
OpenOverlapping ==
    /\ "overlap" \in Surprises /\ Top \in 1..(MaxDepth - 1) /\ mem.roots > 0
    /\ mem' = Opened(TRUE, TRUE, TRUE) /\ surprised' = TRUE
    /\ UNCHANGED <<db, reader, deleting, writes, deletes, repeats>>

\* An SQL transaction of a client that nobody wrapped.
OpenHidden ==
    /\ "hidden" \in Surprises /\ Top < MaxDepth
    /\ mem' = Opened(FALSE, FALSE, FALSE) /\ surprised' = TRUE
    /\ UNCHANGED <<db, reader, deleting, writes, deletes, repeats>>

\* An access without an SqlClient, so without the key of its transaction.
Blind ==
    /\ "blind" \in Surprises /\ Top > 0 /\ mem.enabled
    /\ mem' = Disabled(Refreshed(mem)) /\ surprised' = TRUE
    /\ UNCHANGED <<db, reader, deleting, writes, deletes, repeats>>

InTransaction == \E i \in 1..Top : mem.scopes[i].tracked

\* A row is written: scheduleAlarm, writeAttempts, a claim.
Write(a) ==
    /\ InTransaction /\ writes < MaxWrites /\ writes' = writes + 1
    /\ LET ensured == TableEnsured(Accessed(Top), Top)
       IN  /\ db' = IF ensured THEN [db EXCEPT !.rows[a] = writes', !.table = TRUE] ELSE db
           /\ mem' = Through(Top, LAMBDA c :
                IF ensured THEN Remembered([c EXCEPT !.schema = TRUE], a, writes') ELSE c)
    /\ UNCHANGED <<reader, deleting, deletes, repeats, surprised>>

\* A row is deleted: cancelAlarm, acknowledgeAlarm. A complete cache without the
\* row saves the statement.
Delete(a) ==
    /\ InTransaction
    /\ LET m == Accessed(Top)
           ensured == TableEnsured(m, Top)
           absent == Answers(m, Top, a) /\ CacheIn(m, Top).rows[a] = 0
       IN  /\ db' = IF ~ ensured THEN db
                    ELSE [db EXCEPT !.rows[a] = IF absent THEN @ ELSE 0, !.table = TRUE]
           /\ mem' = Through(Top, LAMBDA c :
                IF ensured THEN [c EXCEPT !.schema = TRUE, !.rows[a] = 0] ELSE c)
    /\ UNCHANGED <<reader, deleting, writes, deletes, repeats, surprised>>

\* readRow and select in a transaction.
Read(a) ==
    /\ InTransaction
    /\ LET m == Accessed(Top)
           ensured == TableEnsured(m, Top)
           known == Answers(m, Top, a) \/ db.rows[a] = 0
       IN  /\ db' = IF ensured THEN [db EXCEPT !.table = TRUE] ELSE db
           /\ mem' = Through(Top, LAMBDA c :
                LET d == [c EXCEPT !.schema = TRUE]
                IN  IF ~ ensured THEN c ELSE IF known THEN d ELSE Remembered(d, a, db.rows[a]))
    /\ UNCHANGED <<reader, deleting, writes, deletes, repeats, surprised>>

\* reconcileAlarm finds the next wake; a table without rows is completely known.
\* It reads the native alarm and writes another time, or none.
Reconcile(at) ==
    /\ InTransaction
    /\ LET m == Accessed(Top)
           empty == db.rows = NoRows /\ ~ (m.enabled /\ CacheIn(m, Top).complete)
       IN  mem' = Through(Top, LAMBDA c :
                    [c EXCEPT !.native = at, !.complete = @ \/ empty,
                              !.rows = IF empty THEN NoRows ELSE @])
    /\ db' = [db EXCEPT !.native = at]
    /\ UNCHANGED <<reader, deleting, writes, deletes, repeats, surprised>>

\* readRow outside transactions: the query, and the fiber yields.
Query(a) ==
    /\ Top = 0 /\ reader = NoReader
    /\ LET m == Accessed(0)
       IN  /\ ~ Answers(m, 0, a) /\ TableEnsured(m, 0)
           /\ db' = [db EXCEPT !.table = TRUE]
           /\ mem' = [Through(0, LAMBDA c : [c EXCEPT !.schema = TRUE]) EXCEPT !.held = TRUE]
           /\ reader' = [alarm |-> a, revision |-> db.rows[a]]
    /\ UNCHANGED <<deleting, writes, deletes, repeats, surprised>>

\* The fiber keeps the cache it had.
SameCache(m) == m.held

KeepRow ==
    /\ reader # NoReader
    /\ mem' = [mem EXCEPT !.held = FALSE,
                          !.committed = IF SameCache(mem) /\ reader.revision # 0
                                        THEN Remembered(@, reader.alarm, reader.revision)
                                        ELSE @]
    /\ reader' = NoReader
    /\ UNCHANGED <<db, deleting, writes, deletes, repeats, surprised>>

\* The managed native entry: nativeDelivery moves on and the alarm is consumed.
Deliver ==
    /\ Top = 0 /\ db.native # 0
    /\ db' = [db EXCEPT !.native = 0]
    /\ mem' = [mem EXCEPT !.committed.native = Unread]
    /\ UNCHANGED <<reader, deleting, writes, deletes, repeats, surprised>>

\* Storage returns to the savepoint of the innermost scope, its view does not.
TakeBack(rolledBack) ==
    LET scope == mem.scopes[Top]
        taken == [scope EXCEPT !.rolledBack = rolledBack, !.view = Doubted(scope.view)]
    IN  db' = scope.saved /\ mem' = [mem EXCEPT !.scopes = [mem.scopes EXCEPT ![Top] = taken]]

\* tx.rollback.
Rollback ==
    /\ Top > 0 /\ mem.scopes[Top].tracked /\ ~ mem.scopes[Top].rolledBack
    /\ TakeBack(TRUE)
    /\ UNCHANGED <<reader, deleting, writes, deletes, repeats, surprised>>

\* The platform runs the callback of the outermost transaction again: its scope was made
\* around the callback, so that it finds the view of the first time.
Repeat ==
    /\ Top = 1 /\ mem.scopes[1].tracked /\ ~ mem.scopes[1].rolledBack
    /\ repeats < MaxRepeats /\ repeats' = repeats + 1
    /\ TakeBack(FALSE)
    /\ UNCHANGED <<reader, deleting, writes, deletes, surprised>>

\* Mutant: a rolled back view is published.
PublishesAlways(scope, succeeded) == TRUE

Publishes(scope, succeeded) ==
    succeeded /\ ~ scope.rolledBack /\ scope.cacheable /\ scope.fresh

\* Mutant: only a commit releases the root.
RootsAfterCommit(m, published) == IF published THEN m.roots - 1 ELSE m.roots

RootsAfter(m, published) == m.roots - 1

\* Mutant: a child that fails takes the parent's view for unobserved.
KeptUnlessChildFails(scope, parent) == parent.cacheable /\ scope.fresh /\ ~ scope.rolledBack

\* After a caught rollback the parent reloads; a child that was not observed
\* makes its parent so too.
ParentCacheable(scope, parent) == parent.cacheable /\ scope.cacheable

\* What the end of a scope that has a view does to its parent's and to the
\* committed cache: the callbacks in onExit. (A view that a new version forgot was
\* a root's or below one, and the cache is off by then.)
Settled(m, scope, succeeded) ==
    LET published == Publishes(scope, succeeded)
        last == Len(m.scopes)
    IN  IF ~ scope.tracked \/ scope.view = NoView THEN m
        ELSE IF ~ scope.root
        THEN [m EXCEPT !.scopes[last].view = IF @ = NoView THEN NoView
                                             ELSE IF published THEN scope.view
                                             ELSE EmptyCache(FALSE),
                       !.scopes[last].cacheable = ParentCacheable(scope, m.scopes[last])]
        ELSE LET roots == RootsAfter(m, published)
             IN  [m EXCEPT !.roots = roots, !.held = FALSE,
                           !.committed = IF roots # 0 THEN @
                                         ELSE IF published THEN scope.view
                                         ELSE EmptyCache(FALSE)]

\* The innermost scope ends; a failure rolls the connection back to its savepoint.
CloseScope(succeeded) ==
    /\ Top > 0
    /\ LET scope == mem.scopes[Top]
       IN  /\ db' = IF succeeded \/ scope.rolledBack THEN db ELSE scope.saved
           /\ mem' = Settled([mem EXCEPT !.scopes = SubSeq(@, 1, Top - 1)], scope, succeeded)
    /\ UNCHANGED <<reader, deleting, writes, deletes, repeats, surprised>>

\* storage.deleteAll, which storage refuses inside a transaction: it invalidates
\* the cache, deletes, and invalidates it again when the promise settles.
DeleteAll(keepsAlarm) ==
    /\ Top = 0 /\ ~ deleting /\ deletes < MaxDeletes
    /\ deletes' = deletes + 1 /\ deleting' = TRUE /\ surprised' = TRUE
    /\ db' = [EmptyDb EXCEPT !.native = IF keepsAlarm THEN db.native ELSE 0]
    /\ mem' = Invalidated(mem)
    /\ UNCHANGED <<reader, writes, repeats>>

DeleteAllEnds ==
    /\ deleting /\ deleting' = FALSE
    /\ mem' = Invalidated(mem)
    /\ UNCHANGED <<db, reader, writes, deletes, repeats, surprised>>

CacheNext ==
    \/ Open \/ OpenOverlapping \/ OpenHidden \/ Blind \/ Rollback \/ Repeat
    \/ \E a \in RowIds : Write(a) \/ Delete(a) \/ Read(a) \/ Query(a)
    \/ \E at \in Times \cup {0} : Reconcile(at)
    \/ \E b \in BOOLEAN : CloseScope(b) \/ DeleteAll(b)
    \/ KeepRow \/ Deliver \/ DeleteAllEnds

CacheSpec == CacheInit /\ [][CacheNext]_cacheVars

----------------------------------------------------------------------------
CacheTypeOK ==
    /\ db \in Contents
    /\ mem.enabled \in BOOLEAN /\ mem.stale \in BOOLEAN /\ mem.held \in BOOLEAN
    /\ mem.committed \in Cache /\ mem.roots \in 0..MaxDepth
    /\ mem.scopes \in Seq(Scope) /\ Len(mem.scopes) <= MaxDepth
    /\ reader \in Readers
    /\ deleting \in BOOLEAN /\ writes \in 0..MaxWrites /\ deletes \in 0..MaxDeletes
    /\ repeats \in 0..MaxRepeats /\ surprised \in BOOLEAN

Agrees(cache, contents) ==
    ~ cache.doubted =>
      /\ cache.schema => contents.table
      /\ \A a \in RowIds :
           cache.rows[a] # contents.rows[a] => (cache.rows[a] = 0 /\ ~ cache.complete)
      /\ cache.native \in {Unread, contents.native}

Trusted == mem.enabled /\ ~ mem.stale

\* What the cache says is what the database would answer, in the innermost
\* transaction and, when none is open, outside.
CacheAgrees ==
    Trusted =>
      /\ Top = 0 => Agrees(mem.committed, db)
      /\ (Top > 0 /\ mem.scopes[Top].view # NoView) => Agrees(mem.scopes[Top].view, db)

\* A view may be wrong in a transaction that was rolled back and in those within it,
\* never outside them, unless the platform ran a callback again.
DoubtIsConfined ==
    (Trusted /\ repeats = 0) =>
      /\ ~ mem.committed.doubted
      /\ \A i \in 1..Top :
           mem.scopes[i].view # NoView /\ mem.scopes[i].view.doubted
             => \E j \in 1..i : mem.scopes[j].rolledBack

\* Between transactions no root counts as active: one that did would turn the
\* cache off at the next transaction.
NoRootLeaks == (mem.enabled /\ Top = 0) => mem.roots = 0

\* Nested transactions, commits, failures, rollbacks and repeated callbacks alone never
\* turn the cache off.
OrdinaryUseKeepsCache == ~ mem.enabled => surprised

\* Whatever transactions nest, fail, overlap, go on after a rollback or read while they
\* yield, the metadata cache says what storage would answer outside the transactions
\* that were rolled back, as long as the platform runs no callback again; no root stays
\* active when none is open, and ordinary use does not turn the cache off.
CacheIsTrue ==
    CacheTypeOK /\ CacheAgrees /\ DoubtIsConfined /\ NoRootLeaks /\ OrdinaryUseKeepsCache
=============================================================================
