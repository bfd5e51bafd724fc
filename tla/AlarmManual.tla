------------------------------ MODULE AlarmManual ------------------------------
(***************************************************************************)
(* The manual lifecycle of DurableObjectAlarm.ts.  A manual row carries the  *)
(* deadline of work the application keeps elsewhere.  A pass claims due rows  *)
(* by moving them, runs their handlers with a few permits, and retires the    *)
(* claims nobody has touched.  Times are remaining delays.                    *)
(***************************************************************************)
EXTENDS Integers, FiniteSets

CONSTANTS
    Alarms,
    Known,             \* alarms whose tag has a manual handler in this deployment
    Passes,            \* runs of processDueAlarms that may overlap
    Permits,           \* handlers of one pass that may run at once
    Revisions,         \* UUIDs
    InFlightRecovery, ParkedRetryDelay,
    Deadlines,         \* delays that enrollments ask for
    MaxEnrollments,    \* bound
    MaxEvictions,      \* bound
    StorageFaults,
    NoRow, NoClaim

DelayAssumption ==
    /\ InFlightRecovery \in Nat \ {0} /\ ParkedRetryDelay \in Nat \ {0}
    /\ Deadlines \subseteq Nat /\ Known \subseteq Alarms
    /\ \E longest \in Deadlines \cup {InFlightRecovery, ParkedRetryDelay} :
         \A e \in Deadlines \cup {InFlightRecovery, ParkedRetryDelay} : e <= longest
    /\ MaxEnrollments \in Nat /\ MaxEvictions \in Nat

\* A UUID is new: there is one that neither a row nor its claims have.
RevisionAssumption ==
    \A r \in Revisions, held \in [Passes -> Revisions] :
      \E new \in Revisions : new # r /\ \A p \in Passes : new # held[p]

Longest == CHOOSE d \in Deadlines \cup {InFlightRecovery, ParkedRetryDelay} :
             \A e \in Deadlines \cup {InFlightRecovery, ParkedRetryDelay} : e <= d
Delays == 0..Longest

Row == [left : Delays, revision : Revisions, claimed : BOOLEAN]
Claim == [revision : Revisions, left : Delays, stage : {"queued", "running", "done"}]

ManualAssumption ==
    /\ DelayAssumption /\ RevisionAssumption
    /\ Revisions # {} /\ NoRow \notin Row /\ NoClaim \notin Claim

VARIABLES
    rows,          \* the manual rows of effect_cf_scheduled_alarms
    phase,         \* of each pass: "idle", "selected", "claimed"
    age,           \* how long ago a pass read the clock
    claims,        \* per pass: what it selected, then what it claimed
    wanted, fresh, \* history: the deadline enrolled last, and whether no pass claimed it since
    superseded,    \* history: claims whose row was enrolled again or cancelled
    owed,          \* history: enrolled work no handler has started on
    enrollments, evictions

manualVars == <<rows, phase, age, claims, wanted, fresh, superseded, owed, enrollments, evictions>>
passes == <<phase, age, claims>>
history == <<wanted, fresh, superseded, owed>>

Shorter(d, e) == IF d <= e THEN d ELSE e
Less(d, e) == IF d <= e THEN 0 ELSE d - e

\* A revision that neither the row nor any pass has: uuidV4.
NewRevision(a) ==
    CHOOSE r \in Revisions : /\ rows[a] # NoRow => rows[a].revision # r
                             /\ \A p \in Passes : claims[p][a] # NoClaim =>
                                                    claims[p][a].revision # r

\* Mutant: a checkpoint that changes nothing does not fence a claim.
EnrolledWithoutFence(a, d, earlier) ==
    LET row == rows[a]
        left == IF row # NoRow /\ earlier THEN Shorter(row.left, d) ELSE d
    IN  IF row # NoRow /\ earlier /\ row.left = left
        THEN row
        ELSE [left |-> left, revision |-> NewRevision(a), claimed |-> FALSE]

\* scheduleAlarm for the manual lifecycle: scheduleAlarmEarlier keeps the earlier
\* deadline, and leaves a row it does not change alone, unless that is claimed.
Enrolled(a, d, earlier) ==
    LET row == rows[a]
        left == IF row # NoRow /\ earlier THEN Shorter(row.left, d) ELSE d
    IN  IF row # NoRow /\ earlier /\ row.left = left /\ ~ row.claimed
        THEN row
        ELSE [left |-> left, revision |-> NewRevision(a), claimed |-> FALSE]

----------------------------------------------------------------------------
ManualInit ==
    /\ rows = [a \in Alarms |-> NoRow]
    /\ phase = [p \in Passes |-> "idle"]
    /\ age = [p \in Passes |-> 0]
    /\ claims = [p \in Passes |-> [a \in Alarms |-> NoClaim]]
    /\ wanted = [a \in Alarms |-> 0] /\ fresh = [a \in Alarms |-> FALSE]
    /\ superseded = {} /\ owed = {}
    /\ enrollments = 0 /\ evictions = 0

\* An event, or any handler, enrolls an alarm.
Enroll(a, d, earlier) ==
    /\ enrollments < MaxEnrollments /\ enrollments' = enrollments + 1
    /\ rows' = [rows EXCEPT ![a] = Enrolled(a, d, earlier)]
    /\ wanted' = [wanted EXCEPT ![a] = IF rows[a] # NoRow /\ earlier
                                       THEN Shorter(rows[a].left, d) ELSE d]
    /\ fresh' = [fresh EXCEPT ![a] = TRUE]
    /\ superseded' = IF rows'[a] = rows[a] THEN superseded
                      ELSE superseded \cup {<<p, a>> : p \in Passes}
    /\ owed' = owed \cup {a}
    /\ UNCHANGED <<passes, evictions>>

Cancel(a) ==
    /\ rows[a] # NoRow
    /\ rows' = [rows EXCEPT ![a] = NoRow]
    /\ fresh' = [fresh EXCEPT ![a] = FALSE]
    /\ superseded' = superseded \cup {<<p, a>> : p \in Passes}
    /\ owed' = owed \ {a}
    /\ UNCHANGED <<passes, wanted, enrollments, evictions>>

\* Mutant: a pass passes over rows that another one claimed.
DueUnclaimed == {a \in Alarms : rows[a] # NoRow /\ rows[a].left = 0 /\ ~ rows[a].claimed}

Due == {a \in Alarms : rows[a] # NoRow /\ rows[a].left = 0}

\* select("manual").
Select(p) ==
    /\ phase[p] = "idle" /\ Due # {}
    /\ phase' = [phase EXCEPT ![p] = "selected"]
    /\ age' = [age EXCEPT ![p] = 0]
    /\ claims' = [claims EXCEPT ![p] = [a \in Alarms |->
                    IF a \in Due
                    THEN [revision |-> rows[a].revision, left |-> 0, stage |-> "queued"]
                    ELSE NoClaim]]
    /\ superseded' = {x \in superseded : x[1] # p}
    /\ UNCHANGED <<rows, wanted, fresh, owed, enrollments, evictions>>

\* Mutant: a claim leaves the row due.
UnmovedBy(p, a) == 0

\* Mutant: the time a pass waited is added to the deadline of its claim.
MovedFurther(p, a) == (IF a \in Known THEN InFlightRecovery ELSE ParkedRetryDelay) + age[p]

\* How far a claim moves its row: work stays eligible after an eviction, and
\* unknown registrations stay parked.
MovedBy(p, a) == Less(IF a \in Known THEN InFlightRecovery ELSE ParkedRetryDelay, age[p])

\* Mutant: a claim does not compare revisions.
AnyRow(p, a) == claims[p][a] # NoClaim /\ rows[a] # NoRow

\* The rows of a pass that are still as it knows them: WHERE revision = ?.
Holds(p, a) == /\ claims[p][a] # NoClaim /\ rows[a] # NoRow
               /\ rows[a].revision = claims[p][a].revision

\* The transaction that claims the selected rows.
ClaimRows(p) ==
    /\ phase[p] = "selected"
    /\ phase' = [phase EXCEPT ![p] = "claimed"]
    /\ rows' = [a \in Alarms |-> IF Holds(p, a)
                                 THEN [left |-> MovedBy(p, a), revision |-> NewRevision(a),
                                       claimed |-> TRUE]
                                 ELSE rows[a]]
    /\ claims' = [claims EXCEPT ![p] = [a \in Alarms |->
                    IF Holds(p, a)
                    THEN [revision |-> NewRevision(a), left |-> Less(InFlightRecovery, age[p]),
                          stage |-> "queued"]
                    ELSE NoClaim]]
    /\ fresh' = [a \in Alarms |-> fresh[a] /\ ~ Holds(p, a)]
    /\ superseded' = {x \in superseded : x[1] # p}
    /\ UNCHANGED <<age, wanted, owed, enrollments, evictions>>

\* A transaction of the pass fails, and the pass with it.
Fault(p) ==
    /\ StorageFaults /\ phase[p] \in {"selected", "claimed"}
    /\ \A a \in Alarms : claims[p][a] # NoClaim => claims[p][a].stage # "running"
    /\ phase' = [phase EXCEPT ![p] = "idle"]
    /\ claims' = [claims EXCEPT ![p] = [a \in Alarms |-> NoClaim]]
    /\ UNCHANGED <<rows, age, history, enrollments, evictions>>

Running(p) == {a \in Alarms : claims[p][a] # NoClaim /\ claims[p][a].stage = "running"}

\* handleRow reads the row again before it runs the handler.
Current(p, a) == Holds(p, a)

\* handleRow, with a permit. A claim that was lost, or that no handler is
\* registered for, is done.
Start(p, a) ==
    /\ phase[p] = "claimed" /\ claims[p][a] # NoClaim /\ claims[p][a].stage = "queued"
    /\ Cardinality(Running(p)) < Permits
    /\ LET starts == Current(p, a) /\ a \in Known
       IN  /\ claims' = [claims EXCEPT ![p][a].stage = IF starts THEN "running" ELSE "done"]
           /\ owed' = IF starts THEN owed \ {a} ELSE owed
    /\ UNCHANGED <<rows, phase, age, wanted, fresh, superseded, enrollments, evictions>>

\* The handler returns or fails; success is not an acknowledgement.
End(p, a) ==
    /\ a \in Running(p)
    /\ claims' = [claims EXCEPT ![p][a].stage = "done"]
    /\ UNCHANGED <<rows, phase, age, history, enrollments, evictions>>

Unchanged(p, a) == Holds(p, a)

\* The transaction that retires unchanged claims with a fresh fence.
Retire(p) ==
    /\ phase[p] = "claimed"
    /\ \A a \in Alarms : claims[p][a] # NoClaim => claims[p][a].stage = "done"
    /\ phase' = [phase EXCEPT ![p] = "idle"]
    /\ rows' = [a \in Alarms |-> IF Unchanged(p, a)
                                 THEN [left |-> ParkedRetryDelay, revision |-> NewRevision(a),
                                       claimed |-> FALSE]
                                 ELSE rows[a]]
    /\ claims' = [claims EXCEPT ![p] = [a \in Alarms |-> NoClaim]]
    /\ UNCHANGED <<age, history, enrollments, evictions>>

\* Only the table survives.
Evict ==
    /\ evictions < MaxEvictions /\ evictions' = evictions + 1
    /\ phase' = [p \in Passes |-> "idle"]
    /\ claims' = [p \in Passes |-> [a \in Alarms |-> NoClaim]]
    /\ UNCHANGED <<rows, age, history, enrollments>>

Tick ==
    /\ rows' = [a \in Alarms |-> IF rows[a] = NoRow THEN NoRow
                                 ELSE [rows[a] EXCEPT !.left = Less(@, 1)]]
    /\ wanted' = [a \in Alarms |-> Less(wanted[a], 1)]
    /\ age' = [p \in Passes |-> IF phase[p] = "selected" THEN Shorter(age[p] + 1, Longest)
                                ELSE 0]
    /\ claims' = [p \in Passes |-> [a \in Alarms |->
                    IF claims[p][a] = NoClaim THEN NoClaim
                    ELSE [claims[p][a] EXCEPT !.left = Less(@, 1)]]]
    /\ UNCHANGED <<phase, fresh, superseded, owed, enrollments, evictions>>

ManualNext ==
    \/ \E a \in Alarms, d \in Deadlines, earlier \in BOOLEAN : Enroll(a, d, earlier)
    \/ \E a \in Alarms : Cancel(a)
    \/ \E p \in Passes : Select(p) \/ ClaimRows(p) \/ Fault(p) \/ Retire(p)
    \/ \E p \in Passes, a \in Alarms : Start(p, a) \/ End(p, a)
    \/ Evict
    \/ Tick

ManualSpec == ManualInit /\ [][ManualNext]_manualVars

\* Due rows bring a pass sooner or later (AlarmWake), the runtime goes on with a
\* pass that can go on, handlers return, and time passes.
Fairness ==
    /\ WF_manualVars(Tick)
    /\ \A p \in Passes :
         /\ WF_manualVars(Select(p)) /\ WF_manualVars(ClaimRows(p)) /\ WF_manualVars(Retire(p))
         /\ \A a \in Alarms : WF_manualVars(Start(p, a)) /\ WF_manualVars(End(p, a))

FairSpec == ManualSpec /\ Fairness

----------------------------------------------------------------------------
ManualTypeOK ==
    /\ rows \in [Alarms -> Row \cup {NoRow}]
    /\ phase \in [Passes -> {"idle", "selected", "claimed"}]
    /\ age \in [Passes -> Delays]
    /\ claims \in [Passes -> [Alarms -> Claim \cup {NoClaim}]]
    /\ wanted \in [Alarms -> Delays] /\ fresh \in [Alarms -> BOOLEAN]
    /\ superseded \subseteq Passes \X Alarms /\ owed \subseteq Alarms
    /\ enrollments \in 0..MaxEnrollments /\ evictions \in 0..MaxEvictions

\* A newer checkpoint always wins: until a pass claims it, a row is due exactly
\* when the last enrollment asked for it, whatever older passes retire meanwhile.
CheckpointWins ==
    \A a \in Alarms : (rows[a] # NoRow /\ fresh[a]) => rows[a].left = wanted[a]

\* A claim keeps other passes away from its work: two handlers of one alarm run
\* at once only when the claim of one has run out, or its row was enrolled again.
ClaimsExclude ==
    \A p, q \in Passes : \A a \in Running(p) \cap Running(q) :
      p # q => \E x \in {p, q} : claims[x][a].left = 0 \/ <<x, a>> \in superseded

\* A pass claims and retires only what nobody has touched since: a step of a pass
\* changes a row only if no enrollment or cancellation came after the pass read it.
PassesRespectNewerRows ==
    [][\A p \in Passes, a \in Alarms :
         (claims[p][a] # NoClaim /\ phase'[p] # phase[p] /\ rows'[a] # rows[a])
           => <<p, a>> \notin superseded]_manualVars

\* A claim keeps other passes away from its alarm until it runs out, a row that was
\* enrolled again is due when that enrollment asked for it, and a pass claims and retires
\* only what nobody has touched since it read it.
ClaimsAreKept ==
    /\ [](ManualTypeOK /\ CheckpointWins /\ ClaimsExclude)
    /\ PassesRespectNewerRows

\* Enrolled work of a registered tag reaches a handler: neither an eviction after
\* the claim nor a failed transaction loses it.
OwedIsHandled == \A a \in Known : (a \in owed) ~> (a \notin owed)
=============================================================================
