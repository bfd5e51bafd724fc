------------------------ MODULE AlarmRegistrationsProofs ------------------------
(***************************************************************************)
(* One alarm event over all registrations, for any dispatchers, tags, rows,      *)
(* permits, hooks and failures: whatever mergeAll combined, every row is of one  *)
(* pass or nothing runs.  The invariant follows a row from the pass that wants   *)
(* it to the pass that has it, and says what a pass that is over may leave due.  *)
(***************************************************************************)
EXTENDS AlarmRegistrations, FiniteSetTheorems, TLAPS

Over == {"handled", "rescheduled"}
Begun(p) == stage[p] \in {"passing", "done"}

\* Before the registrations are checked nothing has happened; if they are refused
\* nothing will, and the tail reports it.
Raised ==
    admission = "raised" =>
      /\ \A p \in AllPasses : stage[p] = "waiting"
      /\ \A r \in Rows : row[r] = IF object.sql \in {"tables", "broken"} THEN "due" ELSE "absent"
      /\ misconfigured = Invalid /\ recovering = {} /\ failures = {} /\ ~ processed

Refused ==
    admission = "failed" =>
      /\ \A p \in AllPasses : stage[p] = "done"
      /\ \A r \in Rows : row[r] \in {"absent", "due"}
      /\ recovering = {} /\ failures # {}

\* Without registrations and tables the event is the hook's: there are no rows.
Native ==
    admission = "native" =>
      /\ object.parts = <<>> /\ recovering = {}
      /\ \A d \in Dispatchers : stage[d] = "done"
      /\ \A r \in Rows : row[r] = "absent"

\* Passes run over registrations that are valid, or over what a deployment left.
Scheduled == admission = "scheduled" => ValidParts /\ object.sql = "tables"

\* A row that is not due has a pass, which wants it and which works until it is settled.
\* The lane of a row is that of its lifecycle.
Owned ==
    \A r \in Rows :
      /\ by[r] = Nobody <=> row[r] \in {"absent", "due"}
      /\ by[r] \in AllPasses => Wants(by[r], r) /\ (row[r] \notin Over => stage[by[r]] = "passing")
      /\ row[r] = "claimed" => r \in Manual
      /\ row[r] = "selected" => r \notin Manual

\* A pass that has begun leaves a row due if its batch is full or it has an excuse.
LeftDue ==
    admission = "scheduled" =>
      \A r \in Rows, p \in AllPasses :
        row[r] = "due" /\ Wants(p, r) /\ Begun(p) => Full(p, r) \/ Excused(p)

\* Recovery is the tail's, or of a dispatcher whose options proved invalid; the tail's
\* other passes are the hook's.
Recovering ==
    /\ Invalid \subseteq misconfigured /\ recovering \subseteq misconfigured \cup {TailPass}
    /\ recovering # {} => admission = "scheduled"
    /\ stage[TailPass] = "passing" /\ TailPass \notin recovering => processed
    /\ TailPass \in recovering => Begun(TailPass)
    /\ \A d \in Dispatchers : stage[d] # "hook"

\* A dispatcher whose options proved invalid is failing, and recovered before it is over.
Misconfigured ==
    admission = "scheduled" =>
      \A d \in misconfigured :
        /\ stage[d] = "waiting" => d \in Invalid
        /\ stage[d] = "passing" => d \in failures
        /\ stage[d] = "done" /\ Tags(d) # {} => d \in failures /\ (d \in recovering \/ PassFaults)

\* The hook has begun when the automatic dispatchers are over.
Waited == HasRawAlarm /\ stage[TailPass] # "waiting" => \A d \in Mixed : stage[d] = "done"

IInv ==
    /\ RegistrationsTypeOK /\ Raised /\ Refused /\ Native /\ Scheduled /\ Owned /\ LeftDue /\ Recovering
    /\ Misconfigured /\ Waited /\ PermitsAreShared

-----------------------------------------------------------------------------
\* Valid registrations share no tag, so that no two passes want the same row ...
LEMMA OneWants ==
  ASSUME ValidParts, NEW r \in Rows, NEW p \in AllPasses, NEW q \in AllPasses, Wants(p, r), Wants(q, r)
  PROVE  p = q
<1>1. CASE p = TailPass \/ q = TailPass
  BY <1>1 DEF Wants, AllPasses
<1>2. CASE p # TailPass /\ q # TailPass
  <2>1. PICK m \in Parts : m.dispatcher = p /\ TagOf[r] \in m.tags
    BY <1>2 DEF Wants, Tags
  <2>2. PICK n \in Parts : n.dispatcher = q /\ TagOf[r] \in n.tags
    BY <1>2 DEF Wants, Tags
  <2>3. PICK i \in DOMAIN object.parts : m = object.parts[i]
    BY <2>1 DEF Parts
  <2>4. PICK j \in DOMAIN object.parts : n = object.parts[j]
    BY <2>2 DEF Parts
  <2>5. i = j
    BY <2>1, <2>2, <2>3, <2>4 DEF ValidParts
  <2>6. QED
    BY <2>1, <2>2, <2>3, <2>4, <2>5
<1>3. QED
  BY <1>1, <1>2

\* ... and one wants it: the tail has what no dispatcher owns.
LEMMA SomeWants ==
  ASSUME RegistrationAssumption, NEW r \in Rows
  PROVE  \E p \in AllPasses : Wants(p, r)
<1>1. CASE \E d \in Dispatchers : TagOf[r] \in Tags(d)
  BY <1>1 DEF Wants, AllPasses, RegistrationAssumption
<1>2. CASE \A d \in Dispatchers : TagOf[r] \notin Tags(d)
  BY <1>2 DEF Wants, AllPasses
<1>3. QED
  BY <1>1, <1>2

LEMMA OnePass ==
  ASSUME RegistrationAssumption, ValidParts, NEW r \in Rows
  PROVE  Cardinality({p \in AllPasses : Wants(p, r)}) = 1
<1>1. PICK p \in AllPasses : Wants(p, r)
  BY SomeWants
<1>2. {q \in AllPasses : Wants(q, r)} = {p}
  BY <1>1, OneWants
<1>3. QED
  BY <1>2, FS_Singleton

\* The registrations do not change during the event.
LEMMA Registered ==
  ASSUME object' = object
  PROVE  /\ ValidParts' = ValidParts /\ HasRawAlarm' = HasRawAlarm
         /\ \A p, r : Wants(p, r)' = Wants(p, r)
         /\ \A p : Tags(p)' = Tags(p)
BY DEF ValidParts, HasRawAlarm, Wants, Tags, Parts

\* Handlers that run leave at most as many permits as there are.
LEMMA PermitsBound ==
  ASSUME RegistrationAssumption, NEW S \in SUBSET Rows
  PROVE  /\ IsFiniteSet(S) /\ Cardinality(S) \in Nat
         /\ \A r \in Rows \ S : Cardinality(S \cup {r}) = Cardinality(S) + 1
         /\ \A r \in S : Cardinality(S \ {r}) = Cardinality(S) - 1 /\ Cardinality(S) > 0
<1>1. IsFiniteSet(S)
  BY FS_Subset DEF RegistrationAssumption
<1>2. Cardinality(S) \in Nat
  BY <1>1, FS_CardinalityType
<1>3. \A r \in Rows \ S : Cardinality(S \cup {r}) = Cardinality(S) + 1
  BY <1>1, FS_AddElement
<1>4. \A r \in S : Cardinality(S \ {r}) = Cardinality(S) - 1
  BY <1>1, FS_RemoveElement
<1>5. \A r \in S : IsFiniteSet(S \ {r}) /\ Cardinality(S \ {r}) \in Nat
  <2>1. TAKE r \in S
  <2>2. IsFiniteSet(S \ {r})
    BY <1>1, FS_Subset
  <2>3. QED
    BY <2>2, FS_CardinalityType
<1>6. QED
  BY <1>1, <1>2, <1>3, <1>4, <1>5

\* A batch that leaves a row behind is as large as its limit.
LEMMA FullBatch ==
  ASSUME RegistrationAssumption, NEW due \in SUBSET Rows, NEW limit \in Nat, NEW S \in Selections(due, limit),
         NEW r \in due \ S, NEW T \in SUBSET Rows, S \subseteq T
  PROVE  Cardinality(T) >= limit
<1>1. IsFiniteSet(T) /\ S \subseteq Rows
  BY FS_Subset DEF RegistrationAssumption, Selections
<1>2. IsFiniteSet(S) /\ Cardinality(S) <= Cardinality(T)
  BY <1>1, FS_Subset
<1>3. Cardinality(S) \in Nat /\ Cardinality(T) \in Nat
  BY <1>1, <1>2, FS_CardinalityType
<1>4. ~ (Cardinality(S) < limit)
  BY DEF Selections
<1>5. QED
  BY <1>2, <1>3, <1>4

LEMMA InitOK == ASSUME RegistrationAssumption, RegistrationsInit PROVE IInv
<1>1. {r \in Manual : row[r] = "running"} = {}
  BY DEF RegistrationsInit, RegistrationAssumption
<1>2. free = EventPermits /\ EventPermits \in Nat
  BY DEF RegistrationsInit, RegistrationAssumption
<1>3. PermitsAreShared
  <2>1. Cardinality({r \in Manual : row[r] = "running"}) = 0
    BY <1>1, FS_EmptySet
  <2>2. QED
    BY <1>2, <2>1 DEF PermitsAreShared
<1>4. RegistrationsTypeOK
  <2>1. free \in 0..EventPermits
    BY <1>2
  <2>2. row \in [Rows -> RowStates] /\ by \in [Rows -> AllPasses \cup {Nobody}]
    BY DEF RegistrationsInit, RowStates
  <2>3. misconfigured \subseteq Dispatchers
    BY DEF RegistrationsInit, RegistrationAssumption
  <2>4. QED
    BY <2>1, <2>2, <2>3 DEF RegistrationsInit, RegistrationsTypeOK
<1>5. Raised /\ Refused /\ Native /\ Scheduled /\ LeftDue /\ Misconfigured
  BY DEF RegistrationsInit, Raised, Refused, Native, Scheduled, LeftDue, Misconfigured
<1>6. Owned
  BY DEF RegistrationsInit, Owned, RegistrationAssumption, AllPasses
<1>7. Waited /\ Recovering
  BY DEF RegistrationsInit, Waited, Recovering, AllPasses
<1>8. QED
  BY <1>3, <1>4, <1>5, <1>6, <1>7 DEF IInv

-----------------------------------------------------------------------------
LEMMA AdmitOK == ASSUME RegistrationAssumption, IInv, Admit PROVE IInv'
<1>1. /\ admission' \in {"scheduled", "native", "failed"}
      /\ \A r \in Rows : row[r] \in {"absent", "due"} /\ by[r] = Nobody
      /\ recovering = {} /\ misconfigured = Invalid /\ ~ processed
  BY DEF Admit, IInv, Raised, Owned, SchedulerTables
<1>2. RegistrationsTypeOK'
  BY <1>1 DEF IInv, RegistrationsTypeOK, Admit, AllPasses
<1>3. PermitsAreShared'
  BY DEF IInv, PermitsAreShared, Admit
<1>4. Raised'
  BY <1>1 DEF Raised
<1>5. Refused'
  BY <1>1 DEF Refused, Admit
<1>6. Native' /\ Scheduled'
  <2>1. object \in Objects /\ (object.parts # <<>> => object.sql = "tables")
    BY DEF IInv, RegistrationsTypeOK, RegistrationAssumption
  <2>2. ValidParts' = ValidParts
    BY Registered DEF Admit
  <2>3. object.parts = <<>> => ValidParts
    BY DEF ValidParts, Parts
  <2>4. Native'
    <3>1. object.parts = <<>> => \A d \in Dispatchers : Tags(d) = {}
      BY DEF Tags, Parts
    <3>2. QED
      BY <1>1, <3>1 DEF Native, Admit, IInv, Raised, SchedulerTables, AllPasses
  <2>5. Scheduled'
    BY <2>1, <2>2, <2>3 DEF Scheduled, Admit, SchedulerTables
  <2>6. QED
    BY <2>4, <2>5
<1>7. Owned'
  BY <1>1 DEF Owned, Admit, RegistrationAssumption, AllPasses
<1>8. LeftDue'
  <2>1. SUFFICES ASSUME admission' = "scheduled", NEW r \in Rows, NEW p \in AllPasses,
                        Wants(p, r)', Begun(p)'
                 PROVE  FALSE
    BY DEF LeftDue
  <2>2. p \in Dispatchers /\ Tags(p) = {}
    BY <2>1 DEF Admit, Begun
  <2>3. TagOf[r] \in Tags(p)
    BY <2>1, <2>2, Registered DEF Admit, Wants, RegistrationAssumption
  <2>4. QED
    BY <2>2, <2>3
<1>9. \A p \in AllPasses : stage'[p] \in {"waiting", "done"}
  BY DEF Admit
<1>10. Recovering'
  BY <1>1, <1>9 DEF Recovering, Admit, AllPasses
<1>11. Misconfigured'
  <2>1. SUFFICES ASSUME admission' = "scheduled", NEW d \in Invalid, stage'[d] = "done" PROVE Tags(d)' = {}
    BY <1>1, <1>9 DEF Misconfigured, Admit, RegistrationAssumption, AllPasses
  <2>2. d \in AllPasses /\ Tags(d) = {}
    BY <2>1 DEF Admit, RegistrationAssumption, AllPasses
  <2>3. QED
    BY <2>2, Registered DEF Admit
<1>12. Waited'
  <2>1. TailPass \in AllPasses /\ TailPass \notin Dispatchers /\ Mixed \subseteq AllPasses
    BY DEF AllPasses, RegistrationAssumption
  <2>2. QED
    BY <2>1 DEF Waited, Admit
<1>13. QED
  BY <1>2, <1>3, <1>4, <1>5, <1>6, <1>7, <1>8, <1>10, <1>11, <1>12 DEF IInv

\* A pass that has not begun or has settled its rows takes due rows that it wants, or
\* fails with its storage.
LEMMA PassOK ==
  ASSUME RegistrationAssumption, IInv, NEW p \in AllPasses, NEW limit, NEW failed \in SUBSET {p},
         StartPass(p, limit, failed),
         admission \in {"scheduled", "native"}, Live(p) = {}, stage[p] # "done",
         p = TailPass /\ HasRawAlarm => stage[p] # "waiting",
         recovering' \in {recovering, recovering \cup {p}},
         limit = IF p \in recovering' THEN DefaultLimit ELSE LimitOf[p],
         p \in recovering' => p \in misconfigured \cup {TailPass},
         recovering' # {} => admission = "scheduled",
         p \in misconfigured => p \in failures \cup failed,
         processed' \in BOOLEAN, processed => processed',
         p = TailPass /\ TailPass \notin recovering' => processed',
         UNCHANGED <<object, admission, misconfigured, free>>
  PROVE  IInv'
<1> USE DEF IInv
<1>1. \E S \in SUBSET (DueFor(p) \ Manual), M \in SUBSET (DueFor(p) \cap Manual) :
        /\ \A r \in Rows : /\ row'[r] = IF r \in S THEN "selected" ELSE IF r \in M THEN "claimed" ELSE row[r]
                           /\ by'[r] = IF r \in S \cup M THEN p ELSE by[r]
        /\ row' \in [Rows -> RowStates] /\ by' \in [Rows -> AllPasses \cup {Nobody}]
        /\ \/ /\ stage'[p] = "passing"
              /\ S \in Selections(DueFor(p) \ Manual, limit)
              /\ M \in Selections(DueFor(p) \cap Manual, DefaultLimit)
           \/ /\ PassFaults /\ S = {} /\ M = {}
              /\ \/ p = TailPass /\ TailPass \notin recovering' /\ stage'[p] = "hook"
                 \/ p \in failures' /\ stage'[p] = "done"
  <2>1. CASE SelectRows(p, limit)
    <3>1. PICK S \in Selections(DueFor(p) \ Manual, limit), M \in Selections(DueFor(p) \cap Manual, DefaultLimit) :
            /\ row' = [r \in Rows |-> IF r \in S THEN "selected" ELSE IF r \in M THEN "claimed" ELSE row[r]]
            /\ by' = [r \in Rows |-> IF r \in S \cup M THEN p ELSE by[r]]
            /\ stage' = [stage EXCEPT ![p] = "passing"]
      BY <2>1 DEF SelectRows
    <3>2. S \in SUBSET (DueFor(p) \ Manual) /\ M \in SUBSET (DueFor(p) \cap Manual)
      BY DEF Selections
    <3>3. stage'[p] = "passing"
      BY <3>1 DEF RegistrationsTypeOK
    <3>4. row' \in [Rows -> RowStates] /\ by' \in [Rows -> AllPasses \cup {Nobody}]
      BY <3>1 DEF RegistrationsTypeOK, RowStates
    <3>5. QED
      BY <3>1, <3>2, <3>3, <3>4
  <2>2. CASE ~ SelectRows(p, limit)
    <3>1. /\ PassFaults /\ stage' = [stage EXCEPT ![p] = After(p)]
          /\ failures' = failures \cup failed \cup FailureOf(p) /\ UNCHANGED <<row, by>>
      BY <2>2 DEF StartPass
    <3>2. stage'[p] = After(p)
      BY <3>1 DEF RegistrationsTypeOK
    <3>3. \/ p = TailPass /\ TailPass \notin recovering' /\ stage'[p] = "hook"
          \/ p \in failures' /\ stage'[p] = "done"
      BY <3>1, <3>2 DEF After, FailureOf, HooksOwn
    <3>4. row' \in [Rows -> RowStates] /\ by' \in [Rows -> AllPasses \cup {Nobody}]
      BY <3>1 DEF RegistrationsTypeOK
    <3>5. QED
      BY <3>1, <3>3, <3>4
  <2>3. QED
    BY <2>1, <2>2
<1>2. PICK S \in SUBSET (DueFor(p) \ Manual), M \in SUBSET (DueFor(p) \cap Manual) :
        /\ \A r \in Rows : /\ row'[r] = IF r \in S THEN "selected" ELSE IF r \in M THEN "claimed" ELSE row[r]
                           /\ by'[r] = IF r \in S \cup M THEN p ELSE by[r]
        /\ row' \in [Rows -> RowStates] /\ by' \in [Rows -> AllPasses \cup {Nobody}]
        /\ \/ /\ stage'[p] = "passing"
              /\ S \in Selections(DueFor(p) \ Manual, limit)
              /\ M \in Selections(DueFor(p) \cap Manual, DefaultLimit)
           \/ /\ PassFaults /\ S = {} /\ M = {}
              /\ \/ p = TailPass /\ TailPass \notin recovering' /\ stage'[p] = "hook"
                 \/ p \in failures' /\ stage'[p] = "done"
  BY <1>1
<1>3. \A r \in S \cup M : r \in Rows /\ row[r] = "due" /\ by[r] = Nobody /\ Wants(p, r)
  BY DEF DueFor, Owned
<1>4. /\ \A q \in AllPasses \ {p} : stage'[q] = stage[q]
      /\ stage' \in [AllPasses -> {"waiting", "hook", "passing", "done"}]
  BY DEF StartPass, SelectRows, After, RegistrationsTypeOK
<1>5. failures \subseteq failures' /\ failures' \subseteq AllPasses /\ failed \subseteq failures'
  BY DEF StartPass, FailureOf, RegistrationsTypeOK
<1>6. p # Nobody /\ Nobody \notin AllPasses /\ TailPass \in AllPasses
  BY DEF RegistrationAssumption, AllPasses
<1>7. RegistrationsTypeOK'
  BY <1>2, <1>4, <1>5 DEF RegistrationsTypeOK
<1>8. PermitsAreShared'
  <2>1. {r \in Manual : row'[r] = "running"} = {r \in Manual : row[r] = "running"}
    BY <1>2, <1>3 DEF RegistrationAssumption
  <2>2. QED
    BY <2>1 DEF PermitsAreShared
<1>9. Raised' /\ Refused'
  BY DEF Raised, Refused
<1>10. Native'
  <2>1. ASSUME admission = "native"
        PROVE  /\ \A r \in Rows : row'[r] = "absent"
               /\ \A d \in Dispatchers : stage'[d] = "done"
    BY <2>1, <1>2, <1>3, <1>4 DEF Native, AllPasses
  <2>2. QED
    BY <2>1 DEF Native
<1>11. Scheduled'
  BY Registered DEF Scheduled
<1>12. Owned'
  <2>1. SUFFICES ASSUME NEW r \in Rows
                 PROVE  /\ by'[r] = Nobody <=> row'[r] \in {"absent", "due"}
                        /\ by'[r] \in AllPasses => Wants(by[r], r)' /\ (row'[r] \notin Over => stage'[by'[r]] = "passing")
                        /\ row'[r] = "claimed" => r \in Manual
                        /\ row'[r] = "selected" => r \notin Manual
    BY DEF Owned
  <2>2. CASE r \in S \cup M
    <3>1. Wants(p, r)' /\ stage'[p] = "passing"
      BY <1>2, <1>3, <2>2, Registered
    <3>2. QED
      BY <1>2, <1>6, <2>2, <3>1
  <2>3. CASE r \notin S \cup M
    <3>1. row'[r] = row[r] /\ by'[r] = by[r]
      BY <1>2, <2>3
    <3>2. by[r] = p => row[r] \in Over
      <4>1. SUFFICES ASSUME by[r] = p, row[r] \notin Over PROVE FALSE
        OBVIOUS
      <4>2. r \in Live(p)
        BY <4>1 DEF Live, Of, Over
      <4>3. QED
        BY <4>2
    <3>3. by[r] \in AllPasses => Wants(by[r], r)' = Wants(by[r], r)
      BY <3>1, Registered
    <3>4. by[r] \in AllPasses /\ by[r] # p => stage'[by[r]] = stage[by[r]]
      BY <1>4
    <3>5. /\ by[r] = Nobody <=> row[r] \in {"absent", "due"}
          /\ by[r] \in AllPasses => Wants(by[r], r) /\ (row[r] \notin Over => stage[by[r]] = "passing")
          /\ row[r] = "claimed" => r \in Manual
          /\ row[r] = "selected" => r \notin Manual
      BY DEF Owned
    <3>6. QED
      BY <3>1, <3>2, <3>3, <3>4, <3>5
  <2>4. QED
    BY <2>2, <2>3
<1>13. LeftDue'
  <2>1. SUFFICES ASSUME admission' = "scheduled", NEW r \in Rows, NEW q \in AllPasses,
                        row'[r] = "due", Wants(q, r)', Begun(q)'
                 PROVE  Full(q, r)' \/ Excused(q)'
    BY DEF LeftDue
  <2>2. r \notin S \cup M /\ row[r] = "due" /\ Wants(q, r)
    BY <1>2, <2>1, Registered
  <2>3. CASE q # p
    <3>1. Of(q)' = Of(q)
      BY <1>2, <1>3, <1>6, <2>3 DEF Of
    <3>2. q \in recovering' <=> q \in recovering
      BY <2>3
    <3>3. Full(q, r)' = Full(q, r) /\ (Excused(q) => Excused(q)')
      BY <1>5, <3>1, <3>2 DEF Full, Excused
    <3>4. Begun(q)
      BY <1>4, <2>1, <2>3 DEF Begun
    <3>5. QED
      BY <2>1, <2>2, <3>3, <3>4 DEF LeftDue
  <2>4. CASE q = p /\ stage'[p] = "passing"
    <3>1. S \in Selections(DueFor(p) \ Manual, limit) /\ M \in Selections(DueFor(p) \cap Manual, DefaultLimit)
      BY <1>2, <2>4
    <3>2. S \subseteq Of(p)' \ Manual /\ M \subseteq Of(p)' \cap Manual /\ Of(p)' \subseteq Rows
      BY <1>2, <1>3 DEF Of
    <3>3. r \in DueFor(p) /\ DueFor(p) \subseteq Rows /\ limit \in Nat /\ DefaultLimit \in Nat
      BY <2>2, <2>4 DEF DueFor, RegistrationAssumption
    <3>4. CASE r \in Manual
      <4>1. Cardinality(Of(p)' \cap Manual) >= DefaultLimit
        BY <2>2, <3>1, <3>2, <3>3, <3>4, FullBatch
      <4>2. QED
        BY <2>4, <3>4, <4>1 DEF Full
    <3>5. CASE r \notin Manual
      <4>1. Cardinality(Of(p)' \ Manual) >= limit
        BY <2>2, <3>1, <3>2, <3>3, <3>5, FullBatch
      <4>2. QED
        BY <2>4, <3>5, <4>1 DEF Full
    <3>6. QED
      BY <3>4, <3>5
  <2>5. CASE q = p /\ stage'[p] # "passing"
    BY <1>2, <2>1, <2>5 DEF Begun, Excused
  <2>6. QED
    BY <2>3, <2>4, <2>5
<1>14. Recovering'
  <2>1. TailPass \notin Dispatchers
    BY DEF RegistrationAssumption
  <2>2. stage'[TailPass] = "passing" /\ TailPass \notin recovering' => processed'
    BY <1>4, <1>6 DEF Recovering
  <2>3. \A d \in Dispatchers : stage'[d] # "hook"
    BY <1>2, <1>4, <2>1 DEF Recovering, AllPasses
  <2>4. TailPass \in recovering' => Begun(TailPass)'
    BY <1>2, <1>4, <1>6 DEF Recovering, Begun
  <2>5. QED
    BY <2>2, <2>3, <2>4 DEF Recovering
<1>15. Misconfigured'
  <2>1. SUFFICES ASSUME admission' = "scheduled", NEW d \in misconfigured
                 PROVE  /\ stage'[d] = "waiting" => d \in Invalid
                        /\ stage'[d] = "passing" => d \in failures'
                        /\ stage'[d] = "done" /\ Tags(d)' # {} =>
                             d \in failures' /\ (d \in recovering' \/ PassFaults)
    BY DEF Misconfigured
  <2>2. d \in AllPasses /\ d # TailPass /\ Tags(d)' = Tags(d)
    BY Registered DEF RegistrationsTypeOK, AllPasses, RegistrationAssumption
  <2>3. CASE d = p
    BY <1>2, <1>5, <2>2, <2>3
  <2>4. CASE d # p
    BY <1>4, <1>5, <2>1, <2>2, <2>4 DEF Misconfigured
  <2>5. QED
    BY <2>3, <2>4
<1>16. Waited'
  <2>1. TailPass \notin Mixed /\ Mixed \subseteq AllPasses
    BY DEF AllPasses, RegistrationAssumption
  <2>2. SUFFICES ASSUME HasRawAlarm, stage'[TailPass] # "waiting", NEW d \in Mixed PROVE stage'[d] = "done"
    BY Registered DEF Waited
  <2>3. stage[TailPass] # "waiting"
    BY <1>4, <1>6, <2>2
  <2>4. d # p /\ stage[d] = "done"
    BY <2>2, <2>3 DEF Waited
  <2>5. QED
    BY <1>4, <2>1, <2>4
<1>17. QED
  BY <1>7, <1>8, <1>9, <1>10, <1>11, <1>12, <1>13, <1>14, <1>15, <1>16

\* A pass that is not passing has nothing to settle.
LEMMA NothingLive ==
  ASSUME RegistrationAssumption, IInv, NEW p \in AllPasses, stage[p] # "passing"
  PROVE  Live(p) = {}
BY DEF IInv, Owned, Live, Of, Over

LEMMA BeginDispatcherOK ==
  ASSUME RegistrationAssumption, IInv, NEW d \in Dispatchers, BeginDispatcher(d)
  PROVE  IInv'
<1>1. d \in AllPasses /\ d # TailPass
  BY DEF AllPasses, RegistrationAssumption
<1>2. /\ admission = "scheduled" /\ stage[d] = "waiting"
      /\ UNCHANGED <<object, admission, misconfigured, processed, free>>
      /\ processed' \in BOOLEAN
  BY DEF BeginDispatcher, IInv, RegistrationsTypeOK
<1>3. Live(d) = {}
  BY <1>1, <1>2, NothingLive
<1>5. CASE d \in Invalid
  <2>1. recovering' = recovering \cup {d} /\ StartPass(d, DefaultLimit, {d})
    BY <1>5 DEF BeginDispatcher, Recover
  <2>2. d \in misconfigured
    BY <1>5 DEF IInv, Recovering
  <2>3. QED
    BY <1>1, <1>2, <1>3, <2>1, <2>2, PassOK
<1>6. CASE d \notin Invalid
  <2>1. recovering' = recovering /\ StartPass(d, LimitOf[d], {})
    BY <1>6 DEF BeginDispatcher
  <2>2. d \notin misconfigured
    BY <1>2, <1>6 DEF IInv, Misconfigured
  <2>3. d \notin recovering
    BY <1>1, <2>2 DEF IInv, Recovering
  <2>4. QED
    BY <1>1, <1>2, <1>3, <2>1, <2>2, <2>3, PassOK DEF IInv, Recovering
<1>7. QED
  BY <1>5, <1>6

\* The raw hook begins.
LEMMA HookStageOK ==
  ASSUME RegistrationAssumption, IInv, admission \in {"scheduled", "native"}, stage[TailPass] = "waiting",
         \A d \in Mixed : stage[d] = "done",
         stage' = [stage EXCEPT ![TailPass] = "hook"],
         UNCHANGED <<object, admission, misconfigured, processed, free, row, by, recovering, failures>>
  PROVE  IInv'
<1>1. /\ TailPass \in AllPasses /\ TailPass \notin Mixed /\ Mixed \subseteq AllPasses /\ TailPass \notin Dispatchers
      /\ \A q \in AllPasses : stage'[q] = IF q = TailPass THEN "hook" ELSE stage[q]
  BY DEF AllPasses, RegistrationAssumption, IInv, RegistrationsTypeOK
<1>2. RegistrationsTypeOK'
  BY <1>1 DEF IInv, RegistrationsTypeOK
<1>3. Raised' /\ Refused' /\ Native' /\ PermitsAreShared'
  BY <1>1 DEF AllPasses, IInv, Raised, Refused, Native, PermitsAreShared
<1>4. Scheduled'
  BY Registered DEF IInv, Scheduled
<1>5. Owned'
  BY <1>1, Registered DEF IInv, Owned
<1>6. LeftDue'
  <2>1. SUFFICES ASSUME admission' = "scheduled", NEW r \in Rows, NEW q \in AllPasses,
                        row'[r] = "due", Wants(q, r)', Begun(q)'
                 PROVE  Full(q, r)' \/ Excused(q)'
    BY DEF LeftDue
  <2>2. Wants(q, r) /\ Begun(q) /\ row[r] = "due" /\ admission = "scheduled"
    BY <1>1, <2>1, Registered DEF Begun
  <2>3. Full(q, r)' = Full(q, r) /\ Excused(q)' = Excused(q)
    BY DEF Full, Excused, Of
  <2>4. QED
    BY <2>2, <2>3 DEF IInv, LeftDue
<1>7. Recovering'
  BY <1>1 DEF IInv, Recovering, AllPasses, Begun
<1>8. Misconfigured'
  <2>1. \A d \in misconfigured : d \in AllPasses /\ d # TailPass /\ Tags(d)' = Tags(d)
    BY <1>1, Registered DEF IInv, RegistrationsTypeOK, AllPasses
  <2>2. QED
    BY <1>1, <2>1 DEF IInv, Misconfigured
<1>9. Waited'
  BY <1>1 DEF Waited
<1>10. QED
  BY <1>2, <1>3, <1>4, <1>5, <1>6, <1>7, <1>8, <1>9 DEF IInv

LEMMA BeginTailOK == ASSUME RegistrationAssumption, IInv, BeginTail PROVE IInv'
<1>1. /\ TailPass \in AllPasses /\ TailPass \notin Mixed /\ Mixed \subseteq AllPasses /\ TailPass \notin Dispatchers
      /\ stage[TailPass] = "waiting" /\ \A d \in WaitsFor : stage[d] = "done"
      /\ UNCHANGED <<object, admission, misconfigured, processed, free>>
  BY DEF BeginTail, AllPasses, RegistrationAssumption
<1>2. admission \in {"scheduled", "native"}
  BY <1>1 DEF BeginTail, IInv, RegistrationsTypeOK, Refused
<1>3. CASE HasRawAlarm
  <2>1. /\ stage' = [stage EXCEPT ![TailPass] = "hook"] /\ UNCHANGED <<row, by, recovering, failures>>
        /\ \A d \in Mixed : stage[d] = "done"
    BY <1>1, <1>3 DEF BeginTail, WaitsFor
  <2>2. \A q \in AllPasses : stage'[q] = IF q = TailPass THEN "hook" ELSE stage[q]
    BY <2>1 DEF IInv, RegistrationsTypeOK
  <2>3. QED
    BY <1>1, <1>2, <2>1, <2>2, HookStageOK
<1>4. CASE ~ HasRawAlarm
  <2>1. StartPass(TailPass, DefaultLimit, {}) /\ recovering' = recovering \cup {TailPass}
    BY <1>4 DEF BeginTail, Recover
  <2>2. admission = "scheduled"
    BY <1>2, <1>4 DEF IInv, Native, HasRawAlarm
  <2>3. processed' \in BOOLEAN /\ TailPass \notin misconfigured /\ Live(TailPass) = {}
    BY <1>1, NothingLive DEF IInv, RegistrationsTypeOK
  <2>4. /\ {} \in SUBSET {TailPass} /\ TailPass \in recovering'
        /\ DefaultLimit = IF TailPass \in recovering' THEN DefaultLimit ELSE LimitOf[TailPass]
    BY <2>1
  <2>5. QED
    BY <1>1, <1>4, <2>1, <2>2, <2>3, <2>4, PassOK
<1>5. QED
  BY <1>3, <1>4

LEMMA HookProcessesOK == ASSUME RegistrationAssumption, IInv, HookProcesses PROVE IInv'
<1>1. /\ TailPass \in AllPasses /\ TailPass \notin Dispatchers
      /\ StartPass(TailPass, LimitOf[TailPass], {}) /\ stage[TailPass] = "hook" /\ processed' = TRUE
      /\ UNCHANGED <<object, admission, misconfigured, recovering, free>>
  BY DEF HookProcesses, AllPasses, RegistrationAssumption
<1>2. admission \in {"scheduled", "native"}
  BY <1>1 DEF IInv, RegistrationsTypeOK, Raised, Refused
<1>3. (recovering' # {} => admission = "scheduled") /\ TailPass \notin recovering /\ TailPass \notin misconfigured
  BY <1>1 DEF IInv, RegistrationsTypeOK, Recovering, Begun
<1>4. Live(TailPass) = {}
  BY <1>1, NothingLive
<1>5. QED
  BY <1>1, <1>2, <1>3, <1>4, PassOK

LEMMA HookEndsOK ==
  ASSUME RegistrationAssumption, IInv, NEW ok \in BOOLEAN, HookEnds(ok)
  PROVE  IInv'
<1> DEFINE failed == IF ok THEN {} ELSE {TailPass}
<1>1. /\ TailPass \in AllPasses /\ TailPass \notin Dispatchers /\ stage[TailPass] = "hook"
      /\ UNCHANGED <<object, admission, misconfigured, processed, free>> /\ failed \in SUBSET {TailPass}
  BY DEF HookEnds, AllPasses, RegistrationAssumption
<1>2. admission \in {"scheduled", "native"}
  BY <1>1 DEF IInv, RegistrationsTypeOK, Raised, Refused
<1>3. TailPass \notin misconfigured /\ processed' \in BOOLEAN /\ Live(TailPass) = {}
  BY <1>1, NothingLive DEF IInv, RegistrationsTypeOK
<1>4. CASE RecoveryFollows
  <2>1. StartPass(TailPass, DefaultLimit, failed) /\ recovering' = recovering \cup {TailPass}
    BY <1>4 DEF HookEnds, Recover
  <2>2. QED
    BY <1>1, <1>2, <1>3, <1>4, <2>1, PassOK DEF RecoveryFollows
<1>5. CASE ~ RecoveryFollows
  <2>1. /\ stage' = [stage EXCEPT ![TailPass] = "done"] /\ UNCHANGED <<row, by, recovering>>
        /\ failures' = failures \cup failed
    BY <1>5 DEF HookEnds
  <2>2. \A q \in AllPasses : stage'[q] = IF q = TailPass THEN "done" ELSE stage[q]
    BY <2>1 DEF IInv, RegistrationsTypeOK
  <2>3. admission = "scheduled" => processed
    BY <1>5 DEF RecoveryFollows
  <2>4. RegistrationsTypeOK'
    BY <1>1, <1>3, <2>1 DEF IInv, RegistrationsTypeOK
  <2>5. Raised' /\ Refused' /\ Native' /\ PermitsAreShared'
    BY <1>1, <1>2, <2>1, <2>2 DEF IInv, Raised, Refused, Native, PermitsAreShared, AllPasses
  <2>6. Scheduled'
    BY <1>1, Registered DEF IInv, Scheduled
  <2>7. Owned'
    BY <1>1, <2>1, <2>2, Registered DEF IInv, Owned, Over
  <2>8. LeftDue'
    <3>1. SUFFICES ASSUME admission' = "scheduled", NEW r \in Rows, NEW q \in AllPasses,
                          row'[r] = "due", Wants(q, r)', Begun(q)'
                   PROVE  Full(q, r)' \/ Excused(q)'
      BY DEF LeftDue
    <3>2. CASE q = TailPass
      BY <1>1, <2>3, <3>1, <3>2 DEF Excused
    <3>3. CASE q # TailPass
      <4>1. Wants(q, r) /\ Begun(q) /\ row[r] = "due" /\ admission = "scheduled"
        BY <1>1, <2>1, <2>2, <3>1, <3>3, Registered DEF Begun
      <4>2. Of(q)' = Of(q)
        BY <2>1 DEF Of
      <4>3. Full(q, r)' = Full(q, r) /\ (Excused(q) => Excused(q)')
        BY <1>1, <2>1, <4>2 DEF Full, Excused
      <4>4. QED
        BY <4>1, <4>3 DEF IInv, LeftDue
    <3>4. QED
      BY <3>2, <3>3
  <2>9. Recovering'
    BY <1>1, <2>1, <2>2 DEF IInv, Recovering, AllPasses, Begun
  <2>10. Misconfigured'
    <3>1. \A d \in misconfigured : d \in AllPasses /\ d # TailPass /\ Tags(d)' = Tags(d)
      BY <1>1, Registered DEF IInv, RegistrationsTypeOK, AllPasses
    <3>2. QED
      BY <1>1, <2>1, <2>2, <3>1 DEF IInv, Misconfigured
  <2>11. Waited'
    <3>1. TailPass \notin Mixed /\ Mixed \subseteq AllPasses
      BY DEF AllPasses, RegistrationAssumption
    <3>2. QED
      BY <1>1, <2>2, <3>1, Registered DEF IInv, Waited
  <2>12. QED
    BY <2>4, <2>5, <2>6, <2>7, <2>8, <2>9, <2>10, <2>11 DEF IInv
<1>6. QED
  BY <1>4, <1>5

-----------------------------------------------------------------------------
\* A step of the rows of a pass that has begun: no row leaves its pass but to be due
\* again, for which the pass has an excuse.
LEMMA RowsOK ==
  ASSUME RegistrationAssumption, IInv, NEW p \in AllPasses, stage[p] = "passing",
         UNCHANGED <<object, admission, recovering, processed>>,
         row' \in [Rows -> RowStates], by' \in [Rows -> AllPasses \cup {Nobody}],
         stage' \in [AllPasses -> {"waiting", "hook", "passing", "done"}],
         \A q \in AllPasses \ {p} : stage'[q] = stage[q],
         stage'[p] \in {"passing", "done"} \/ (p = TailPass /\ TailPass \notin recovering /\ stage'[p] = "hook"),
         failures \subseteq failures', failures' \subseteq AllPasses,
         misconfigured' \in {misconfigured, misconfigured \cup ({p} \cap Dispatchers)},
         misconfigured' # misconfigured => p \in failures',
         stage'[p] = "done" /\ p \in misconfigured' => p \in recovering \/ PassFaults,
         \A r \in Rows \ Of(p) : row'[r] = row[r] /\ by'[r] = by[r],
         \A r \in Of(p) :
           \/ /\ by'[r] = p /\ row'[r] \notin {"absent", "due"}
              /\ row'[r] \in {"claimed", "selected"} => row'[r] = row[r]
              /\ row'[r] \in Over \/ stage'[p] = "passing"
           \/ by'[r] = Nobody /\ row'[r] = "due" /\ Excused(p)',
         free' \in 0..EventPermits,
         Cardinality({r \in Manual : row'[r] = "running"}) = EventPermits - free'
  PROVE  IInv'
<1>1. admission \in {"scheduled", "native", "failed"} /\ admission # "failed"
  BY DEF IInv, RegistrationsTypeOK, Raised, Refused
<1>2. \A r \in Of(p) : r \in Rows /\ by[r] = p /\ Wants(p, r) /\ Wants(p, r)' /\ p # Nobody
  BY Registered DEF IInv, Owned, Of, RegistrationAssumption, AllPasses
<1>3. \A r \in Of(p) : row[r] \notin {"absent", "due"}
  BY <1>2 DEF IInv, Owned
<1>4. RegistrationsTypeOK'
  BY DEF IInv, RegistrationsTypeOK
<1>5. PermitsAreShared'
  BY DEF PermitsAreShared
<1>6. Raised' /\ Refused'
  BY <1>1 DEF Raised, Refused
<1>7. Native'
  BY <1>3 DEF IInv, Native, AllPasses
<1>8. Scheduled'
  BY Registered DEF IInv, Scheduled
<1>9. TailPass \in AllPasses /\ TailPass \notin Dispatchers /\ Mixed \subseteq AllPasses /\ Nobody \notin AllPasses
  BY DEF AllPasses, RegistrationAssumption
<1>10. Owned'
  <2>1. SUFFICES ASSUME NEW r \in Rows
                 PROVE  /\ by'[r] = Nobody <=> row'[r] \in {"absent", "due"}
                        /\ by'[r] \in AllPasses =>
                             Wants(by[r], r)' /\ (row'[r] \notin Over => stage'[by'[r]] = "passing")
                        /\ row'[r] = "claimed" => r \in Manual
                        /\ row'[r] = "selected" => r \notin Manual
    BY DEF Owned
  <2>2. CASE r \in Of(p)
    <3>1. row[r] = "claimed" => r \in Manual
      BY DEF IInv, Owned
    <3>2. row[r] = "selected" => r \notin Manual
      BY DEF IInv, Owned
    <3>3. QED
      BY <1>2, <1>9, <2>2, <3>1, <3>2
  <2>3. CASE r \notin Of(p)
    <3>1. row'[r] = row[r] /\ by'[r] = by[r] /\ by[r] # p
      BY <2>3 DEF Of
    <3>2. by[r] \in AllPasses => stage'[by[r]] = stage[by[r]] /\ Wants(by[r], r)' = Wants(by[r], r)
      BY <3>1, Registered
    <3>3. QED
      BY <3>1, <3>2 DEF IInv, Owned
  <2>4. QED
    BY <2>2, <2>3
<1>11. LeftDue'
  <2>1. SUFFICES ASSUME admission' = "scheduled", NEW r \in Rows, NEW q \in AllPasses,
                        row'[r] = "due", Wants(q, r)', Begun(q)', ~ Excused(q)'
                 PROVE  Full(q, r)'
    BY DEF LeftDue
  <2>2. ValidParts /\ Wants(q, r) /\ Begun(q)
    BY <2>1, Registered DEF IInv, Scheduled, Begun
  <2>3. r \notin Of(p)
    <3>1. SUFFICES ASSUME r \in Of(p) PROVE FALSE
      OBVIOUS
    <3>2. q = p
      BY <1>2, <2>2, <3>1, OneWants
    <3>3. QED
      BY <2>1, <3>1, <3>2
  <2>4. ~ Excused(q)
    BY <2>1 DEF Excused
  <2>5. Full(q, r)
    BY <2>1, <2>2, <2>3, <2>4 DEF IInv, LeftDue
  <2>6. Of(q)' = Of(q)
    <3>1. CASE q = p
      BY <2>1, <3>1 DEF Of
    <3>2. CASE q # p
      BY <1>2, <1>9, <3>2 DEF Of
    <3>3. QED
      BY <3>1, <3>2
  <2>7. QED
    BY <2>5, <2>6 DEF Full
<1>12. Recovering'
  <2>1. stage'[TailPass] = "passing" /\ TailPass \notin recovering => processed
    BY <1>9 DEF IInv, Recovering
  <2>2. \A d \in Dispatchers : stage'[d] # "hook"
    BY <1>9 DEF IInv, Recovering, AllPasses
  <2>3. TailPass \in recovering => Begun(TailPass)'
    BY <1>9 DEF IInv, Recovering, Begun
  <2>4. QED
    BY <2>1, <2>2, <2>3 DEF IInv, Recovering
<1>13. Misconfigured'
  <2>1. SUFFICES ASSUME admission' = "scheduled", NEW d \in misconfigured'
                 PROVE  /\ stage'[d] = "waiting" => d \in Invalid
                        /\ stage'[d] = "passing" => d \in failures'
                        /\ stage'[d] = "done" /\ Tags(d)' # {} =>
                             d \in failures' /\ (d \in recovering' \/ PassFaults)
    BY DEF Misconfigured
  <2>2. Tags(d)' = Tags(d) /\ d \in AllPasses /\ d # TailPass
    BY <1>4, <1>9, Registered DEF RegistrationsTypeOK, AllPasses
  <2>3. CASE d = p
    <3>1. d \in failures'
      BY <2>1, <2>3 DEF IInv, Misconfigured
    <3>2. QED
      BY <2>1, <2>2, <2>3, <3>1
  <2>4. CASE d # p
    BY <2>1, <2>2, <2>4 DEF IInv, Misconfigured
  <2>5. QED
    BY <2>3, <2>4
<1>14. Waited'
  <2>1. SUFFICES ASSUME HasRawAlarm, stage'[TailPass] # "waiting", NEW d \in Mixed PROVE stage'[d] = "done"
    BY Registered DEF Waited
  <2>2. stage[TailPass] # "waiting"
    BY <1>9, <2>1
  <2>3. stage[d] = "done"
    BY <2>1, <2>2 DEF IInv, Waited
  <2>4. QED
    BY <1>9, <2>3
<1>15. QED
  BY <1>4, <1>5, <1>6, <1>7, <1>8, <1>10, <1>11, <1>12, <1>13, <1>14 DEF IInv

LEMMA StartOK ==
  ASSUME RegistrationAssumption, IInv, NEW p \in AllPasses, NEW r \in Rows, StartRow(p, r)
  PROVE  IInv'
<1> DEFINE S == {s \in Manual : row[s] = "running"}
<1>1. /\ stage[p] = "passing" /\ r \in Of(p)
      /\ row[r] = "selected" \/ (row[r] = "claimed" /\ free > 0)
      /\ row' = [row EXCEPT ![r] = "running"] /\ free' = Taken(r)
      /\ UNCHANGED <<object, admission, by, stage, misconfigured, recovering, failures, processed>>
  BY DEF StartRow
<1>2. /\ \A s \in Rows : row'[s] = IF s = r THEN "running" ELSE row[s]
      /\ row' \in [Rows -> RowStates]
  BY <1>1 DEF IInv, RegistrationsTypeOK, RowStates
<1>3. S \in SUBSET Rows /\ r \notin S /\ Cardinality(S) = EventPermits - free /\ free \in 0..EventPermits
      /\ EventPermits \in Nat
  BY <1>1 DEF IInv, RegistrationsTypeOK, PermitsAreShared, RegistrationAssumption
<1>4. Cardinality({s \in Manual : row'[s] = "running"}) = EventPermits - free' /\ free' \in 0..EventPermits
  <2>1. CASE r \in Manual
    <3>1. {s \in Manual : row'[s] = "running"} = S \cup {r}
      BY <1>2, <2>1 DEF RegistrationAssumption
    <3>2. row[r] = "claimed" /\ free' = free - 1 /\ free > 0
      BY <1>1, <2>1 DEF IInv, Owned, Taken
    <3>3. Cardinality(S \cup {r}) = Cardinality(S) + 1
      BY <1>3, PermitsBound
    <3>4. Cardinality({s \in Manual : row'[s] = "running"}) = Cardinality(S) + 1
      BY <3>1, <3>3
    <3> HIDE DEF S
    <3>5. QED
      BY <1>3, <3>2, <3>4
  <2>2. CASE r \notin Manual
    <3>1. {s \in Manual : row'[s] = "running"} = S
      BY <1>2, <2>2 DEF RegistrationAssumption
    <3>2. QED
      BY <1>1, <1>3, <2>2, <3>1 DEF Taken
  <2>3. QED
    BY <2>1, <2>2
<1>5. \A s \in Of(p) : /\ s \in Rows /\ by'[s] = p /\ row'[s] \notin {"absent", "due"}
                       /\ row'[s] \in {"claimed", "selected"} => row'[s] = row[s]
                       /\ stage'[p] = "passing"
  BY <1>1, <1>2 DEF Of, IInv, Owned, RegistrationAssumption, AllPasses
<1>6. \A s \in Rows \ Of(p) : row'[s] = row[s] /\ by'[s] = by[s]
  BY <1>1, <1>2
<1>7. by' \in [Rows -> AllPasses \cup {Nobody}] /\ failures' \subseteq AllPasses
      /\ stage' \in [AllPasses -> {"waiting", "hook", "passing", "done"}]
  BY <1>1 DEF IInv, RegistrationsTypeOK
<1>8. QED
  BY <1>1, <1>2, <1>4, <1>5, <1>6, <1>7, RowsOK

LEMMA EndOK ==
  ASSUME RegistrationAssumption, IInv, NEW p \in AllPasses, NEW r \in Rows, NEW ok \in BOOLEAN,
         EndRow(p, r, ok)
  PROVE  IInv'
<1> DEFINE S == {s \in Manual : row[s] = "running"}
<1>1. /\ row[r] = "running" /\ r \in Of(p) /\ free' = Released(r)
      /\ row' = [row EXCEPT ![r] = IF ok THEN "handled" ELSE "rescheduled"]
      /\ failures' = failures \cup (IF ~ ok /\ r \in Manual THEN FailureOf(p) ELSE {})
      /\ UNCHANGED <<object, admission, by, stage, misconfigured, recovering, processed>>
  BY DEF EndRow
<1>2. stage[p] = "passing"
  BY <1>1 DEF IInv, Owned, Of, Over
<1>3. /\ \A s \in Rows \ {r} : row'[s] = row[s]
      /\ row'[r] \in Over /\ row' \in [Rows -> RowStates]
  BY <1>1 DEF IInv, RegistrationsTypeOK, RowStates, Over
<1>4. S \in SUBSET Rows /\ Cardinality(S) = EventPermits - free /\ free \in 0..EventPermits
      /\ EventPermits \in Nat
  BY <1>1 DEF IInv, RegistrationsTypeOK, PermitsAreShared, RegistrationAssumption
<1>5. Cardinality({s \in Manual : row'[s] = "running"}) = EventPermits - free' /\ free' \in 0..EventPermits
  <2>1. CASE r \in Manual
    <3>1. {s \in Manual : row'[s] = "running"} = S \ {r} /\ r \in S
      BY <1>1, <1>3, <2>1 DEF RegistrationAssumption, Over
    <3>2. free' = free + 1
      BY <1>1, <2>1 DEF Released
    <3>3. Cardinality(S \ {r}) = Cardinality(S) - 1 /\ Cardinality(S) > 0
      BY <1>4, <3>1, PermitsBound
    <3>4. Cardinality({s \in Manual : row'[s] = "running"}) = Cardinality(S) - 1
      BY <3>1, <3>3
    <3> HIDE DEF S
    <3>5. QED
      BY <1>4, <3>2, <3>3, <3>4
  <2>2. CASE r \notin Manual
    <3>1. {s \in Manual : row'[s] = "running"} = S
      BY <1>3, <2>2 DEF RegistrationAssumption
    <3>2. QED
      BY <1>1, <1>4, <2>2, <3>1 DEF Released
  <2>3. QED
    BY <2>1, <2>2
<1>6. \A s \in Of(p) : /\ s \in Rows /\ by'[s] = p /\ row'[s] \notin {"absent", "due"}
                       /\ row'[s] \in {"claimed", "selected"} => row'[s] = row[s]
                       /\ stage'[p] = "passing"
  BY <1>1, <1>2, <1>3 DEF Of, IInv, Owned, RegistrationAssumption, AllPasses, Over
<1>7. \A s \in Rows \ Of(p) : row'[s] = row[s] /\ by'[s] = by[s]
  BY <1>1, <1>3
<1>8. by' \in [Rows -> AllPasses \cup {Nobody}] /\ failures' \subseteq AllPasses /\ failures \subseteq failures'
      /\ stage' \in [AllPasses -> {"waiting", "hook", "passing", "done"}]
  BY <1>1 DEF IInv, RegistrationsTypeOK, FailureOf
<1>9. stage'[p] = "passing" /\ \A q \in AllPasses \ {p} : stage'[q] = stage[q]
  BY <1>1, <1>2
<1>10. QED
  BY <1>1, <1>2, <1>3, <1>5, <1>6, <1>7, <1>8, <1>9, RowsOK

LEMMA LaneFailsOK ==
  ASSUME RegistrationAssumption, IInv, NEW p \in AllPasses, NEW r \in Rows, NEW why, LaneFails(p, r, why)
  PROVE  IInv'
<1>1. /\ why \in LaneFaults(p) /\ row[r] = "running" /\ r \in Of(p) \ Manual
      /\ row' = [s \in Rows |-> IF s = r THEN (IF why = "storage" THEN "due" ELSE "rescheduled")
                                ELSE IF by[s] = p /\ row[s] = "selected" THEN "due" ELSE row[s]]
      /\ by' = [s \in Rows |-> IF row'[s] = "due" THEN Nobody ELSE by[s]]
      /\ misconfigured' = misconfigured \cup (IF why = "options" THEN {p} \cap Dispatchers ELSE {})
      /\ failures' = failures \cup FailureOf(p)
      /\ UNCHANGED <<object, admission, stage, recovering, processed, free>>
  BY DEF LaneFails
<1>2. stage[p] = "passing" /\ p # Nobody /\ by[r] = p
  BY <1>1 DEF IInv, Owned, Of, Over, RegistrationAssumption, AllPasses
<1>3. row' \in [Rows -> RowStates] /\ by' \in [Rows -> AllPasses \cup {Nobody}]
  <2>1. row' \in [Rows -> RowStates]
    BY <1>1 DEF IInv, RegistrationsTypeOK, RowStates
  <2>2. QED
    BY <1>1, <2>1 DEF IInv, RegistrationsTypeOK
<1>4. \A s \in Rows \ Of(p) : row'[s] = row[s] /\ by'[s] = by[s]
  BY <1>1 DEF Of, IInv, Owned
<1>5. Excused(p)'
  <2>1. CASE p = TailPass /\ TailPass \notin recovering
    BY <1>1, <1>2, <2>1 DEF IInv, Recovering, Excused
  <2>2. CASE ~ (p = TailPass /\ TailPass \notin recovering)
    <3>1. p \in failures'
      BY <1>1, <2>2 DEF FailureOf, HooksOwn
    <3>2. p \in recovering => PassFaults
      BY <1>1 DEF LaneFaults
    <3>3. QED
      BY <1>1, <3>1, <3>2 DEF Excused
  <2>3. QED
    BY <2>1, <2>2
<1>6. \A s \in Of(p) :
        \/ /\ by'[s] = p /\ row'[s] \notin {"absent", "due"}
           /\ row'[s] \in {"claimed", "selected"} => row'[s] = row[s]
           /\ row'[s] \in Over \/ stage'[p] = "passing"
        \/ by'[s] = Nobody /\ row'[s] = "due" /\ Excused(p)'
  <2>1. TAKE s \in Of(p)
  <2>2. s \in Rows /\ by[s] = p /\ row[s] \notin {"absent", "due"}
    BY <1>2 DEF Of, IInv, Owned
  <2>3. QED
    BY <1>1, <1>2, <1>5, <2>2
<1>7. {s \in Manual : row'[s] = "running"} = {s \in Manual : row[s] = "running"}
  BY <1>1 DEF RegistrationAssumption
<1>8. failures' \subseteq AllPasses /\ failures \subseteq failures' /\ free' \in 0..EventPermits
      /\ stage' \in [AllPasses -> {"waiting", "hook", "passing", "done"}]
      /\ Cardinality({s \in Manual : row'[s] = "running"}) = EventPermits - free'
  BY <1>1, <1>7 DEF IInv, RegistrationsTypeOK, PermitsAreShared, FailureOf
<1>9. stage'[p] = "passing" /\ \A q \in AllPasses \ {p} : stage'[q] = stage[q]
  BY <1>1, <1>2
<1>10. /\ misconfigured' \in {misconfigured, misconfigured \cup ({p} \cap Dispatchers)}
       /\ misconfigured' # misconfigured => p \in failures'
  BY <1>1 DEF FailureOf, HooksOwn, RegistrationAssumption
<1>11. QED
  BY <1>1, <1>2, <1>3, <1>4, <1>6, <1>8, <1>9, <1>10, RowsOK

LEMMA EndPassOK ==
  ASSUME RegistrationAssumption, IInv, NEW p \in AllPasses, NEW retired \in BOOLEAN, EndPass(p, retired)
  PROVE  IInv'
<1>1. /\ stage[p] = "passing" /\ Live(p) = {} /\ \A s \in Of(p) : row[s] \in Over
      /\ UNCHANGED <<object, admission, misconfigured, processed, free>>
  BY DEF EndPass, Live, Over
<1>2. CASE retired /\ Recovered(p)
  <2>1. recovering' = recovering \cup {p} /\ StartPass(p, DefaultLimit, {})
    BY <1>2 DEF EndPass, Recover
  <2>2. p \in misconfigured /\ p \in Dispatchers /\ p # TailPass
    BY <1>2 DEF Recovered, IInv, RegistrationsTypeOK, RegistrationAssumption
  <2>3. admission = "scheduled"
    BY <1>1, <2>2 DEF IInv, RegistrationsTypeOK, Raised, Refused, Native
  <2>4. p \in failures /\ processed' \in BOOLEAN
    BY <1>1, <2>2, <2>3 DEF IInv, Misconfigured, RegistrationsTypeOK
  <2>5. QED
    BY <1>1, <2>1, <2>2, <2>3, <2>4, PassOK
<1>3. CASE ~ (retired /\ Recovered(p))
  <2>1. /\ UNCHANGED <<row, by, recovering>> /\ (retired \/ PassFaults)
        /\ stage' = [stage EXCEPT ![p] = After(p)]
        /\ failures' = failures \cup (IF retired THEN {} ELSE FailureOf(p))
    BY <1>3 DEF EndPass
  <2>2. /\ stage'[p] = After(p) /\ \A q \in AllPasses \ {p} : stage'[q] = stage[q]
        /\ stage'[p] = "done" \/ (p = TailPass /\ TailPass \notin recovering /\ stage'[p] = "hook")
        /\ stage' \in [AllPasses -> {"waiting", "hook", "passing", "done"}]
    BY <2>1 DEF IInv, RegistrationsTypeOK, After, HooksOwn
  <2>3. failures \subseteq failures' /\ failures' \subseteq AllPasses
    BY <2>1 DEF IInv, RegistrationsTypeOK, FailureOf
  <2>4. p \in misconfigured => p \in recovering \/ PassFaults
    BY <1>3, <2>1 DEF Recovered
  <2>5. \A s \in Of(p) : by'[s] = p /\ row'[s] \notin {"absent", "due"} /\ row'[s] \in Over /\ row'[s] = row[s]
    BY <1>1, <2>1 DEF Of, Over
  <2>6. /\ row' \in [Rows -> RowStates] /\ by' \in [Rows -> AllPasses \cup {Nobody}]
        /\ free' \in 0..EventPermits
        /\ Cardinality({s \in Manual : row'[s] = "running"}) = EventPermits - free'
    BY <1>1, <2>1 DEF IInv, RegistrationsTypeOK, PermitsAreShared
  <2>7. QED
    BY <1>1, <2>1, <2>2, <2>3, <2>4, <2>5, <2>6, RowsOK
<1>4. QED
  BY <1>2, <1>3

LEMMA StutterOK == ASSUME IInv, UNCHANGED registrationVars PROVE IInv'
<1>1. /\ ValidParts' = ValidParts /\ HasRawAlarm' = HasRawAlarm /\ \A p, r : Wants(p, r)' = Wants(p, r)
      /\ \A d : Tags(d)' = Tags(d)
  BY Registered DEF registrationVars
<1>2. \A p, r : Full(p, r)' = Full(p, r) /\ Excused(p)' = Excused(p)
  BY DEF registrationVars, Full, Excused, Of
<1>3. QED
  BY <1>1, <1>2 DEF registrationVars, IInv, RegistrationsTypeOK, Raised, Refused, Native, Scheduled, Owned,
     LeftDue, Recovering, Misconfigured, Waited, PermitsAreShared, Begun

LEMMA NextOK == ASSUME RegistrationAssumption, IInv, [RegistrationsNext]_registrationVars PROVE IInv'
BY AdmitOK, BeginDispatcherOK, BeginTailOK, HookProcessesOK, HookEndsOK, StartOK, EndOK,
   LaneFailsOK, EndPassOK, StutterOK
   DEF RegistrationsNext, Finished

LEMMA Invariance == ASSUME RegistrationAssumption PROVE RegistrationsSpec => []IInv
<1>1. RegistrationsInit => IInv
  BY InitOK
<1>2. IInv /\ [RegistrationsNext]_registrationVars => IInv'
  BY NextOK
<1>3. QED
  BY <1>1, <1>2, PTL DEF RegistrationsSpec

-----------------------------------------------------------------------------
\* Every variable of the event keeps its domain.
THEOREM RegistrationsTypeCorrect == ASSUME RegistrationAssumption PROVE RegistrationsSpec => []RegistrationsTypeOK
BY Invariance, PTL DEF IInv

\* The permits of an event are shared by all its dispatchers, hook and recovery: those
\* not free are held by running manual handlers.
THEOREM PermitsStayShared == ASSUME RegistrationAssumption PROVE RegistrationsSpec => []PermitsAreShared
BY Invariance, PTL DEF IInv

\* Whatever registrations mergeAll combined, an event that runs has exactly one pass for
\* every row, one that is refused touches none, and recovery runs where there are tables.
THEOREM RowsHaveOnePass == ASSUME RegistrationAssumption PROVE RegistrationsSpec => []EveryRowHasOnePass
<1>1. IInv => EveryRowHasOnePass
  BY OnePass DEF IInv, Scheduled, Refused, Recovering, EveryRowHasOnePass, Done
<1>2. QED
  BY <1>1, Invariance, PTL

\* What an event leaves due is beyond the limit of its pass, or of a pass that failed, or
\* the raw hook's; of recovery only storage leaves more.
THEOREM LeftoversHaveReasons == ASSUME RegistrationAssumption PROVE RegistrationsSpec => []LeftoversAreExplained
<1>1. IInv => LeftoversAreExplained
  BY DEF IInv, LeftDue, LeftoversAreExplained, Done, Begun
<1>2. QED
  BY <1>1, Invariance, PTL

\* A dispatcher whose options prove invalid, at first or in the middle of its pass, fails
\* and is recovered in the same event.
THEOREM InvalidOptionsAreRecovered ==
  ASSUME RegistrationAssumption PROVE RegistrationsSpec => []InvalidIsRecovered
<1>1. IInv => InvalidIsRecovered
  BY DEF IInv, RegistrationsTypeOK, Misconfigured, InvalidIsRecovered, Done, AllPasses
<1>2. QED
  BY <1>1, Invariance, PTL

\* Recovery reschedules rows of nobody's tag, or of a dispatcher whose options proved invalid.
THEOREM RecoveryStaysOut == ASSUME RegistrationAssumption PROVE RegistrationsSpec => []RecoveryKeepsToItsRows
<1>1. ASSUME IInv, NEW r \in Rows, by[r] \in recovering, NEW d \in Dispatchers \ misconfigured
      PROVE  TagOf[r] \notin Tags(d)
  <2>1. by[r] \in AllPasses /\ Wants(by[r], r) /\ by[r] \in misconfigured \cup {TailPass}
    BY <1>1 DEF IInv, RegistrationsTypeOK, Owned, Recovering
  <2>2. ValidParts
    BY <1>1 DEF IInv, Recovering, Scheduled
  <2>3. d \in AllPasses /\ d # TailPass
    BY DEF AllPasses, RegistrationAssumption
  <2>4. ASSUME TagOf[r] \in Tags(d) PROVE FALSE
    <3>1. Wants(d, r)
      BY <2>3, <2>4 DEF Wants
    <3>2. d = by[r]
      BY <2>1, <2>2, <2>3, <3>1, OneWants
    <3>3. QED
      BY <2>1, <2>3, <3>2
  <2>5. QED
    BY <2>4
<1>2. IInv => RecoveryKeepsToItsRows
  BY <1>1 DEF RecoveryKeepsToItsRows
<1>3. QED
  BY <1>2, Invariance, PTL

\* While the raw hook runs, no handler of an automatic dispatcher does.
THEOREM HooksComeLast == ASSUME RegistrationAssumption PROVE RegistrationsSpec => []HookFollowsAutomatic
<1>1. ASSUME IInv, HasRawAlarm, stage[TailPass] # "waiting", NEW r \in Rows, NEW d \in Mixed,
             TagOf[r] \in Tags(d), row[r] = "running"
      PROVE  FALSE
  <2>1. d \in AllPasses /\ d # TailPass /\ Wants(d, r)
    BY <1>1 DEF AllPasses, RegistrationAssumption, Wants
  <2>2. by[r] \in AllPasses /\ Wants(by[r], r) /\ stage[by[r]] = "passing"
    BY <1>1 DEF IInv, RegistrationsTypeOK, Owned, Over
  <2>3. admission = "scheduled"
    BY <1>1 DEF IInv, RegistrationsTypeOK, Raised, Refused, Native, AllPasses
  <2>4. d = by[r]
    BY <1>1, <2>1, <2>2, <2>3, OneWants DEF IInv, Scheduled
  <2>5. QED
    BY <1>1, <2>2, <2>4 DEF IInv, Waited
<1>2. IInv => HookFollowsAutomatic
  BY <1>1 DEF HookFollowsAutomatic
<1>3. QED
  BY <1>2, Invariance, PTL

\* One event over all registrations, all of what is promised of it: for any rows,
\* dispatchers, tags, merged registrations and number of permits.
THEOREM EventsCoverTheirRows == ASSUME RegistrationAssumption PROVE RegistrationsSpec => []RegistrationsCover
BY RegistrationsTypeCorrect, PermitsStayShared, HooksComeLast, RecoveryStaysOut,
   LeftoversHaveReasons, InvalidOptionsAreRecovered, RowsHaveOnePass, PTL DEF RegistrationsCover
=============================================================================
