--------------------------- MODULE AlarmRegistrations ---------------------------
(***************************************************************************)
(* runRegistrations and dispatchRawAlarm of DurableObjectAlarm.ts: one alarm   *)
(* event runs the dispatchers of all registrations side by side, each on the   *)
(* rows of its own tags.  What no dispatcher owns is left to the raw alarm     *)
(* hook, or to recovery, which parks it for a later deployment.  A pass takes  *)
(* no more rows than its limit, and a hook or an option that fails ends its    *)
(* lane.  Registrations that mergeAll combined are checked first; an Object    *)
(* without any keeps its native alarm to itself unless a deployment left       *)
(* scheduler tables behind.                                                    *)
(***************************************************************************)
EXTENDS Integers, FiniteSets

CONSTANTS
    Rows,          \* due rows
    Manual,        \* those of the manual lifecycle
    Dispatchers,
    TagOf,         \* Rows -> their tag
    Mixed,         \* dispatchers with an automatic definition
    Invalid,       \* dispatchers whose options do not decode
    LimitOf,       \* the limit of automatic rows of every pass's own options
    DefaultLimit,  \* the 100 of manual rows, and of recovery
    Objects,       \* what an Object registers and has, see below
    Empty,         \* the empty name
    EventPermits,  \* the 4 permits of one event
    PassFaults,    \* whether a storage operation of a pass may fail
    Nobody,
    TailPass       \* the pass after the automatic dispatchers: raw hook or recovery

AllPasses == Dispatchers \cup {TailPass}

RegistrationAssumption ==
    /\ Manual \subseteq Rows /\ Mixed \subseteq Dispatchers /\ Invalid \subseteq Dispatchers
    /\ PassFaults \in BOOLEAN /\ EventPermits \in Nat \ {0}
    /\ LimitOf \in [AllPasses -> Nat \ {0}] /\ DefaultLimit \in Nat \ {0}
    /\ IsFiniteSet(Rows) /\ TailPass \notin Dispatchers /\ Nobody \notin Dispatchers \cup {TailPass}
    /\ \A o \in Objects : o.parts # <<>> => o.sql = "tables"

RowStates == {"absent", "due", "selected", "claimed", "running", "handled", "rescheduled"}

\* An Object is [parts, hook, sql]: what its registrations are merged of (nothing if it
\* has none), whether it has an alarm method, and what asking SQLite for the scheduler's
\* tables finds.  A part is [service, dispatcher, tags, whole]: whole if Tag.handlers
\* made it.  An Object with registrations has the tables.
VARIABLES
    object,
    admission,  \* "raised", "scheduled", "native" (the hook alone) or "failed"
    row,        \* the state of every row
    by,         \* the pass that selected it
    stage,      \* of every pass: "waiting", "hook", "passing", "done"
    misconfigured, \* dispatchers whose options have proved invalid
    recovering, \* passes that run without definitions: recovery
    failures,   \* passes whose exit is a failure
    processed,  \* raw.processed
    free        \* permits not taken

registrationVars ==
    <<object, admission, row, by, stage, misconfigured, recovering, failures, processed, free>>

Of(p) == {r \in Rows : by[r] = p}
Live(p) == {r \in Of(p) : row[r] \notin {"handled", "rescheduled"}}

RegistrationsInit ==
    /\ object \in Objects /\ admission = "raised"
    /\ row = [r \in Rows |-> IF object.sql \in {"tables", "broken"} THEN "due" ELSE "absent"]
    /\ by = [r \in Rows |-> Nobody]
    /\ stage = [p \in AllPasses |-> "waiting"]
    /\ misconfigured = Invalid /\ recovering = {} /\ failures = {} /\ processed = FALSE
    /\ free = EventPermits

Parts == {object.parts[i] : i \in DOMAIN object.parts}

\* validateRegistration of what mergeAll put together: names are not empty, no service
\* and no tag comes twice, and every part was made by Tag.handlers.
ValidParts ==
    /\ \A p \in Parts : p.whole /\ Empty \notin p.tags \cup {p.service}
    /\ \A i, j \in DOMAIN object.parts : i # j =>
          /\ object.parts[i].service # object.parts[j].service
          /\ object.parts[i].tags \cap object.parts[j].tags = {}

Tags(p) == UNION {part.tags : part \in {q \in Parts : q.dispatcher = p}}

\* CurrentDispatch: tags and exclude. The tail takes the rows of nobody's tags.
Wants(p, r) == IF p = TailPass THEN \A d \in Dispatchers : TagOf[r] \notin Tags(d) ELSE TagOf[r] \in Tags(p)

\* hasSchedulerTables: without SQL there are none; other errors are the event's.
SchedulerTables == CASE object.sql = "tables" -> "scheduled" [] object.sql = "broken" -> "failed" [] OTHER -> "native"

\* Registrations are checked before anything runs; without any, the tables decide
\* whether retained alarms have to be recovered.
Admit ==
    /\ admission = "raised"
    /\ admission' = IF object.parts = <<>> THEN SchedulerTables ELSE IF ValidParts THEN "scheduled" ELSE "failed"
    /\ failures' = IF admission' = "failed" THEN {TailPass} ELSE {}
    /\ stage' = [p \in AllPasses |-> IF admission' = "failed" \/ (p \in Dispatchers /\ Tags(p) = {})
                                  THEN "done" ELSE "waiting"]
    /\ UNCHANGED <<object, row, by, misconfigured, recovering, processed, free>>

\* As many due rows as a limit lets through.  They are taken by wake time, which is not
\* kept here: any may come first.
Selections(due, limit) ==
    {S \in SUBSET due : Cardinality(S) <= limit /\ (Cardinality(S) < limit => S = due)}

DueFor(p) == {r \in Rows : row[r] = "due" /\ Wants(p, r)}

\* processDueAlarms selects due rows of its scope, the manual ones beside the limit of
\* the automatic, and claims the manual ones.
SelectRows(p, limit) ==
    \E S \in Selections(DueFor(p) \ Manual, limit), M \in Selections(DueFor(p) \cap Manual, DefaultLimit) :
        /\ row' = [r \in Rows |-> IF r \in S THEN "selected" ELSE IF r \in M THEN "claimed" ELSE row[r]]
        /\ by' = [r \in Rows |-> IF r \in S \cup M THEN p ELSE by[r]]
        /\ stage' = [stage EXCEPT ![p] = "passing"]

\* The hook's own pass returns to the hook, which may go on whatever became of it.
HooksOwn(p) == p = TailPass /\ TailPass \notin recovering'
After(p) == IF HooksOwn(p) THEN "hook" ELSE "done"
FailureOf(p) == IF HooksOwn(p) THEN {} ELSE {p}

\* A pass begins, unless its selection or its claim fails.
StartPass(p, limit, failed) ==
    \/ SelectRows(p, limit) /\ failures' = failures \cup failed
    \/ /\ PassFaults /\ stage' = [stage EXCEPT ![p] = After(p)]
       /\ failures' = failures \cup failed \cup FailureOf(p)
       /\ UNCHANGED <<row, by>>

\* Recovery is a pass without definitions, hooks and options.
Recover(p, failed) == recovering' = recovering \cup {p} /\ StartPass(p, DefaultLimit, failed)

\* Options that do not decode fail the dispatcher before it selects anything, and its
\* own tags are recovered.
BeginDispatcher(d) ==
    /\ admission = "scheduled" /\ stage[d] = "waiting"
    /\ IF d \in Invalid THEN Recover(d, {d})
       ELSE UNCHANGED recovering /\ StartPass(d, LimitOf[d], {})
    /\ UNCHANGED <<object, admission, misconfigured, processed, free>>

\* An Object without registrations always has a raw alarm, which may do nothing.
HasRawAlarm == object.parts = <<>> \/ object.hook

\* Mutant: nobody waits.
WaitsForNone == {}

\* Raw hooks wait for automatic dispatchers only; without a hook nobody waits.
WaitsFor == IF HasRawAlarm THEN Mixed ELSE {}

BeginTail ==
    /\ admission # "raised" /\ stage[TailPass] = "waiting" /\ \A d \in WaitsFor : stage[d] = "done"
    /\ IF HasRawAlarm
       THEN stage' = [stage EXCEPT ![TailPass] = "hook"] /\ UNCHANGED <<row, by, recovering, failures>>
       ELSE Recover(TailPass, {})
    /\ UNCHANGED <<object, admission, misconfigured, processed, free>>

\* The raw hook calls processDueAlarms, with options that decode, once or again.
HookProcesses ==
    /\ object.hook /\ stage[TailPass] = "hook" /\ processed' = TRUE
    /\ UNCHANGED <<object, admission, misconfigured, recovering, free>>
    /\ StartPass(TailPass, LimitOf[TailPass], {})

\* onExit of the hook, whether it fails or not; nothing follows a native one.
RecoveryFollows == admission = "scheduled" /\ ~ processed

\* The raw hook ends.
HookEnds(ok) ==
    /\ stage[TailPass] = "hook" /\ (ok \/ object.hook)
    /\ LET failed == IF ok THEN {} ELSE {TailPass} IN
       IF RecoveryFollows THEN Recover(TailPass, failed)
       ELSE /\ stage' = [stage EXCEPT ![TailPass] = "done"] /\ failures' = failures \cup failed
            /\ UNCHANGED <<row, by, recovering>>
    /\ UNCHANGED <<object, admission, misconfigured, processed, free>>

\* permits.withPermits(1), which only the manual lane uses.
Taken(r) == IF r \in Manual THEN free - 1 ELSE free

Released(r) == IF r \in Manual THEN free + 1 ELSE free

\* The automatic lane runs one row at a time, the manual lane as permits allow.
StartRow(p, r) ==
    /\ stage[p] = "passing" /\ r \in Of(p)
    /\ \/ /\ row[r] = "selected"
          /\ \A s \in Of(p) \ Manual : row[s] # "running"
       \/ row[r] = "claimed" /\ free > 0
    /\ row' = [row EXCEPT ![r] = "running"] /\ free' = Taken(r)
    /\ UNCHANGED <<object, admission, by, stage, misconfigured, recovering, failures, processed>>

\* The handler, or the lack of one, ends: an automatic failure is rescheduled and
\* the lane goes on, a manual failure fails the pass when its other rows are done.
EndRow(p, r, ok) ==
    /\ row[r] = "running" /\ r \in Of(p)
    /\ p \in recovering => ~ ok
    /\ row' = [row EXCEPT ![r] = IF ok THEN "handled" ELSE "rescheduled"]
    /\ free' = Released(r)
    /\ UNCHANGED recovering
    /\ failures' = failures \cup (IF ~ ok /\ r \in Manual THEN FailureOf(p) ELSE {})
    /\ UNCHANGED <<object, admission, by, stage, misconfigured, processed>>

\* What stops an automatic lane and leaves its other rows due: onFailure fails, or asks
\* for a delay that is none, both after the row is rescheduled; or a transaction fails.
LaneFaults(p) ==
    (IF p \in recovering THEN {} ELSE {"hook", "options"}) \cup (IF PassFaults THEN {"storage"} ELSE {})

LaneFails(p, r, why) ==
    /\ row[r] = "running" /\ r \in Of(p) \ Manual /\ why \in LaneFaults(p)
    /\ row' = [s \in Rows |-> IF s = r THEN (IF why = "storage" THEN "due" ELSE "rescheduled")
                              ELSE IF by[s] = p /\ row[s] = "selected" THEN "due"
                              ELSE row[s]]
    /\ by' = [s \in Rows |-> IF row'[s] = "due" THEN Nobody ELSE by[s]]
    /\ misconfigured' = misconfigured \cup (IF why = "options" THEN {p} \cap Dispatchers ELSE {})
    /\ UNCHANGED recovering
    /\ failures' = failures \cup FailureOf(p)
    /\ UNCHANGED <<object, admission, stage, processed, free>>

\* Mutant: invalid options only fail the dispatcher.
NeverRecovered(p) == FALSE

\* A dispatcher whose options proved invalid while it ran is recovered after its pass.
Recovered(p) == p \in misconfigured \ recovering

\* Both lanes are over and the claims that nobody took retired, if storage lets them;
\* an error of storage comes instead of that of the options.
EndPass(p, retired) ==
    /\ stage[p] = "passing" /\ Live(p) = {} /\ (retired \/ PassFaults)
    /\ IF retired /\ Recovered(p) THEN Recover(p, {})
       ELSE /\ UNCHANGED <<row, by, recovering>>
            /\ stage' = [stage EXCEPT ![p] = After(p)]
            /\ failures' = failures \cup (IF retired THEN {} ELSE FailureOf(p))
    /\ UNCHANGED <<object, admission, misconfigured, processed, free>>

Done == \A p \in AllPasses : stage[p] = "done"
Finished == Done /\ UNCHANGED registrationVars

RegistrationsNext ==
    \/ \E d \in Dispatchers : BeginDispatcher(d)
    \/ Admit \/ BeginTail \/ HookProcesses \/ Finished
    \/ \E ok \in BOOLEAN : HookEnds(ok)
    \/ \E p \in AllPasses, r \in Rows :
         \/ StartRow(p, r) \/ \E ok \in BOOLEAN : EndRow(p, r, ok)
         \/ \E why \in {"hook", "options", "storage"} : LaneFails(p, r, why)
    \/ \E p \in AllPasses, retired \in BOOLEAN : EndPass(p, retired)

RegistrationsSpec == RegistrationsInit /\ [][RegistrationsNext]_registrationVars

----------------------------------------------------------------------------
RegistrationsTypeOK ==
    /\ object \in Objects /\ admission \in {"raised", "scheduled", "native", "failed"}
    /\ row \in [Rows -> RowStates] /\ by \in [Rows -> AllPasses \cup {Nobody}]
    /\ stage \in [AllPasses -> {"waiting", "hook", "passing", "done"}]
    /\ misconfigured \subseteq Dispatchers /\ recovering \subseteq AllPasses /\ failures \subseteq AllPasses
    /\ processed \in BOOLEAN /\ free \in 0..EventPermits

\* A batch of its lane is as large as the pass could take.
Full(p, r) ==
    IF r \in Manual THEN Cardinality(Of(p) \cap Manual) >= DefaultLimit
    ELSE Cardinality(Of(p) \ Manual) >= (IF p \in recovering THEN DefaultLimit ELSE LimitOf[p])

\* The pass has failed, recovery only with its storage; or the raw hook processed as it
\* liked: the failures of its passes are the hook's.
Excused(p) ==
    \/ p \in failures /\ (p \in recovering => PassFaults)
    \/ p = TailPass /\ processed

\* Nothing due is passed over in silence: a row that an event leaves due is beyond the
\* limit of its pass, or its pass has an excuse.  Recovery leaves nothing but what exceeds
\* its limit, not even of a dispatcher whose options proved invalid while it ran.
LeftoversAreExplained ==
    (Done /\ admission = "scheduled") => \A r \in Rows, p \in AllPasses :
        row[r] = "due" /\ Wants(p, r) => Full(p, r) \/ Excused(p)

\* A dispatcher whose options proved invalid is recovered after it, in the same event,
\* unless storage fails.
InvalidIsRecovered == (Done /\ admission = "scheduled" /\ ~ PassFaults) =>
    \A d \in misconfigured : Tags(d) # {} => d \in recovering \cap failures

\* An event that runs has exactly one pass for every row it finds, whatever was
\* merged, so that no alarm is handled twice and none is forgotten; one whose
\* registrations are refused touches none; and a native alarm of an Object without
\* scheduler tables stays its own: recovery would create them.
EveryRowHasOnePass ==
    /\ admission = "scheduled" => \A r \in Rows : Cardinality({p \in AllPasses : Wants(p, r)}) = 1
    /\ admission = "failed" => Done /\ failures # {} /\ \A r \in Rows : row[r] \in {"absent", "due"}
    /\ recovering # {} => admission = "scheduled" /\ object.sql = "tables"

\* Recovery keeps to its rows: what it reschedules belongs to nobody's tag, or to a
\* dispatcher whose options proved invalid.
RecoveryKeepsToItsRows ==
    \A r \in Rows : by[r] \in recovering =>
        \A d \in Dispatchers \ misconfigured : TagOf[r] \notin Tags(d)

\* The permits of one event are shared by all its dispatchers: those not free are
\* held by running manual handlers, and no handler runs without one.
PermitsAreShared == Cardinality({r \in Manual : row[r] = "running"}) = EventPermits - free

\* The raw hook sees no work of its own event's automatic dispatchers in progress.  A
\* row stored as automatic whose definition is manual by now runs beside the hook.
HookFollowsAutomatic ==
    (HasRawAlarm /\ stage[TailPass] # "waiting") =>
      \A r \in Rows : (\E d \in Mixed : TagOf[r] \in Tags(d)) => row[r] # "running"

\* One alarm event over all registrations: the raw hook finds no automatic work of the
\* event in progress, permits are shared, recovery comes where options proved invalid and
\* keeps to its rows, what an event leaves due has its reason, and whatever was merged,
\* every row has one pass or nothing runs.
RegistrationsCover ==
    /\ RegistrationsTypeOK
    /\ PermitsAreShared
    /\ HookFollowsAutomatic
    /\ RecoveryKeepsToItsRows
    /\ LeftoversAreExplained
    /\ InvalidIsRecovered
    /\ EveryRowHasOnePass
=============================================================================
