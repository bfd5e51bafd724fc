------------------------- MODULE AlarmSchedulerProofs -------------------------
(***************************************************************************)
(* Proofs about AlarmScheduler for every value of its constants: types, the *)
(* row invariants, the revision fence, the refinement of AlarmPromise, and   *)
(* what the histories say of notices, budgets and backoff.                  *)
(***************************************************************************)
EXTENDS AlarmScheduler, TLAPS

Rows == Row \cup {NoRow}

Good(row) == Consistent(row) /\ HasBudget(row)

-----------------------------------------------------------------------------
(* What the row functions compute.                                          *)

LEMMA RetryDelayType ==
    ASSUME NEW attempts \in 1..MaxBudget, NEW parked \in BOOLEAN, NEW initial \in Nat
    PROVE  RetryDelay(attempts, parked, initial) \in Nat
<1>1. 2^(attempts - 1) \in Nat
  <2>1. attempts - 1 \in 0..MaxBudget
    BY DelayAssumption
  <2>2. QED
    BY <2>1, PowerFact
<1>2. initial * 2^(attempts - 1) \in Nat
  <2>1. \A m, n \in Nat : m * n \in Nat
    OBVIOUS
  <2>2. QED
    BY <1>1, <2>1
<1>3. QED
  BY <1>2, DelayAssumption DEF RetryDelay, MinOf

LEMMA ScheduledRow ==
    ASSUME NEW input \in Input, NEW existing \in Rows, NEW source \in Rows,
           NEW same \in BOOLEAN, NEW limit \in 1..MaxBudget, NEW time \in Nat,
           NEW revision \in Revisions
    PROVE  LET row == Scheduled(input, existing, source, same, limit, time, revision)
           IN  row \in Row /\ Good(row) /\ row.revision = revision
<1> DEFINE attempts == ScheduledAttempts(input, existing, source, same, limit)
           parked == attempts > 0 /\ (attempts >= limit \/ Parked(source) \/ Parked(existing))
           retryAt == IF attempts = 0 THEN NoTime
                      ELSE time + RetryDelay(attempts, parked, MinRetryDelay)
           keep == input.earlier /\ existing # NoRow /\ existing.runAt <= input.runAt
           runAt == IF keep THEN existing.runAt ELSE input.runAt
           every == IF keep THEN existing.every ELSE input.every
           progress == MaxOf(KnownProgress(existing, source), input.progress)
           row == Scheduled(input, existing, source, same, limit, time, revision)
<1>1. attempts \in 0..MaxBudget
  BY DelayAssumption DEF ScheduledAttempts, Replenished, Parked, Attempts, MaxOf, MinOf, Rows, Row
<1>2. parked \in BOOLEAN /\ runAt \in Nat /\ every \in Nat \cup {NoTime}
  BY DEF Rows, Row, Input
<1>3. progress \in Nat \cup {NoProgress}
  BY DEF Rows, Row, Input, KnownProgress, MaxOf, NoProgress
<1>4. (attempts = 0 /\ retryAt = NoTime) \/ (attempts > 0 /\ retryAt \in Nat)
  <2>1. CASE attempts = 0
    BY <2>1
  <2>2. CASE attempts # 0
    <3>1. attempts \in 1..MaxBudget
      BY <1>1, <2>2, DelayAssumption
    <3>2. RetryDelay(attempts, parked, MinRetryDelay) \in Nat
      <4> HIDE DEF attempts, parked
      <4>1. QED
        BY <3>1, <1>2, RetryDelayType, DelayAssumption
    <3>3. QED
      <4> HIDE DEF attempts, parked
      <4>1. QED
        BY <3>1, <3>2, <2>2, DelayAssumption
  <2>3. QED
    BY <2>1, <2>2
<1>5. row = [runAt |-> runAt, wakeAt |-> WakeAt(runAt, retryAt), every |-> every,
             attempts |-> attempts, parked |-> parked, retryAt |-> retryAt,
             progress |-> progress, revision |-> revision]
  BY DEF Scheduled
<1>6. ~ parked => attempts < limit \/ attempts = 0
  BY <1>1, DelayAssumption
<1>7. QED
  <2> HIDE DEF attempts, parked, retryAt, runAt, every, progress, row
  <2>1. row \in Row
    BY <1>1, <1>2, <1>3, <1>4, <1>5 DEF Row, WakeAt, MaxOf, NoTime
  <2>2. Consistent(row)
    <3>1. parked => attempts > 0
      BY DEF parked
    <3>2. QED
      BY <3>1, <1>1, <1>4, <1>5 DEF Consistent, NoTime
  <2>3. HasBudget(row)
    BY <1>1, <1>5, <1>6, DelayAssumption DEF HasBudget
  <2>4. QED
    BY <2>1, <2>2, <2>3, <1>5 DEF Good, row

LEMMA FailedRow ==
    ASSUME NEW current \in Row, Good(current), NEW limit \in 1..MaxBudget,
           NEW time \in Nat, NEW revision \in Revisions
    PROVE  LET row == Failed(current, current, limit, time, revision)
           IN  row \in Row /\ Good(row) /\ row.revision = revision
<1> DEFINE attempts == IF current.parked THEN current.attempts
                       ELSE MinOf(limit, current.attempts + 1)
           parked == current.parked \/ attempts >= limit
           retryAt == time + RetryDelay(attempts, parked, InitialDelay)
           row == Failed(current, current, limit, time, revision)
<1>1. attempts \in 1..MaxBudget
  BY DelayAssumption DEF Row, Good, Consistent, MinOf
<1>2. parked \in BOOLEAN /\ (~ parked => attempts < MaxBudget)
  BY <1>1, DelayAssumption DEF Row
<1>3. retryAt \in Nat
  <2> HIDE DEF attempts, parked
  <2>1. RetryDelay(attempts, parked, InitialDelay) \in Nat
    BY <1>1, <1>2, RetryDelayType, DelayAssumption
  <2>2. QED
    BY <2>1
<1>4. row = [current EXCEPT !.wakeAt = WakeAt(current.runAt, retryAt),
                            !.attempts = attempts, !.parked = parked,
                            !.retryAt = retryAt, !.progress = current.progress,
                            !.revision = revision]
  BY DEF Failed
<1>5. QED
  <2> HIDE DEF attempts, parked, retryAt, row
  <2>0. row = [runAt |-> current.runAt, wakeAt |-> WakeAt(current.runAt, retryAt),
               every |-> current.every, attempts |-> attempts, parked |-> parked,
               retryAt |-> retryAt, progress |-> current.progress, revision |-> revision]
    BY <1>4 DEF Row
  <2>1. row \in Row /\ row.revision = revision
    BY <1>1, <1>2, <1>3, <2>0 DEF Row, WakeAt, MaxOf
  <2>2. Consistent(row) /\ HasBudget(row)
    BY <1>1, <1>2, <1>3, <2>0 DEF Row, Consistent, HasBudget, NoTime
  <2>3. QED
    BY <2>1, <2>2 DEF Good, row

LEMMA AcknowledgedRow ==
    ASSUME NEW current \in Row, Good(current), NEW time \in Nat, NEW revision \in Revisions
    PROVE  LET row == Acknowledged(current, current, time, revision)
           IN  \/ row = NoRow
               \/ row \in Row /\ Good(row) /\ row.revision = revision
<1> DEFINE next == time + MaxOf(MinRepeat, current.every)
           row == [current EXCEPT !.runAt = next, !.wakeAt = next, !.attempts = 0,
                                  !.parked = FALSE, !.retryAt = NoTime,
                                  !.progress = current.progress, !.revision = revision]
<1>1. CASE current.every = NoTime
  BY <1>1 DEF Acknowledged
<1>2. CASE current.every # NoTime
  <2>1. next \in Nat
    BY <1>2, DelayAssumption DEF Row, MaxOf
  <2>2. /\ Acknowledged(current, current, time, revision) = row
        /\ row = [current EXCEPT !.runAt = next, !.wakeAt = next, !.attempts = 0,
                                 !.parked = FALSE, !.retryAt = NoTime,
                                 !.progress = current.progress, !.revision = revision]
    BY <1>2 DEF Acknowledged
  <2>3. row \in Row /\ Good(row) /\ row.revision = revision
    <3> HIDE DEF next, row
    <3>1. row = [runAt |-> next, wakeAt |-> next, every |-> current.every, attempts |-> 0,
                 parked |-> FALSE, retryAt |-> NoTime, progress |-> current.progress,
                 revision |-> revision]
      BY <2>2 DEF Row
    <3>2. row \in Row /\ row.revision = revision
      BY <2>1, <3>1, DelayAssumption DEF Row
    <3>3. Good(row)
      BY <2>1, <3>1, DelayAssumption DEF Good, Consistent, HasBudget, WakeAt, MaxOf, NoTime
    <3>4. QED
      BY <3>2, <3>3 DEF row
  <2>4. QED
    BY <2>2, <2>3
<1>3. QED
  BY <1>1, <1>2

-----------------------------------------------------------------------------
(* The inductive invariant.                                                 *)

GoodRows == \A a \in Alarms : rows[a] # NoRow => Good(rows[a])

\* A lane holds exactly the row it works on, and holds it out of its own batch.
LaneConsistent ==
    \A d \in Dispatchers :
        /\ (handled[d] # NoAlarm) = (phase[d] \in {"handling", "succeeded", "failed"})
        /\ handled[d] # NoAlarm => handled[d] \in Batched(d)

\* Types, the row invariants, the fence and the lanes' hold on their rows.  The
\* fence needs no history: a fresh revision differs from the one in the batch.
IInv == TypeOK /\ GoodRows /\ RevisionIdentifiesRow /\ LaneConsistent

LEMMA FreshRevision ==
    ASSUME TypeOK, NEW a \in Alarms
    PROVE  /\ NewRevision(a) \in Revisions
           /\ ~ HasRevision(rows[a], NewRevision(a))
           /\ ~ HasRevision(batch[a], NewRevision(a))
<1>1. \E q \in Revisions : HasRevision(rows[a], q) \/ \A r \in Revisions : ~ HasRevision(rows[a], r)
  BY RevisionAssumption
<1>2. \E q \in Revisions : \A r \in Revisions : HasRevision(rows[a], r) => r = q
  BY <1>1, RevisionAssumption DEF HasRevision
<1>3. \E q \in Revisions : \A r \in Revisions : HasRevision(batch[a], r) => r = q
  BY RevisionAssumption DEF HasRevision
<1>4. Unused(a) # {}
  <2>1. PICK q \in Revisions : \A r \in Revisions : HasRevision(rows[a], r) => r = q
    BY <1>2
  <2>2. PICK p \in Revisions : \A r \in Revisions : HasRevision(batch[a], r) => r = p
    BY <1>3
  <2>3. PICK s \in Revisions : s # q /\ s # p
    BY RevisionAssumption
  <2>4. s \in Unused(a)
    BY <2>1, <2>2, <2>3 DEF Unused
  <2>5. QED
    BY <2>4
<1>5. NewRevision(a) \in Unused(a)
  BY <1>4 DEF NewRevision
<1>6. QED
  BY <1>5 DEF Unused

-----------------------------------------------------------------------------
(* Transactions.                                                            *)

\* A view a transaction can reach: good rows, each one as committed, removed,
\* or rewritten with the alarm's fresh revision.
ViewOK(view) ==
    /\ view.rows \in [Alarms -> Rows]
    /\ view.parks \subseteq Alarms
    /\ view.announced \in [Alarms -> Notices]
    /\ \A a \in Alarms : view.rows[a] # NoRow => Good(view.rows[a])
    /\ \A a \in Alarms : \/ view.rows[a] = rows[a]
                          \/ view.rows[a] = NoRow
                          \/ view.rows[a].revision = NewRevision(a)

LEMMA EpisodeType ==
    ASSUME NEW existing, NEW source, NEW row, NEW notices \in Notices, NEW owed \in BOOLEAN
    PROVE  Episode(existing, source, row, notices, owed) \in Notices
BY DEF Episode, Notices, NoNotices

LEMMA NoNoticesType == NoNotices \in Notices
BY DEF NoNotices, Notices

LEMMA LostType ==
    ASSUME NEW alarms, LoseNotices(alarms), announced \in [Alarms -> Notices]
    PROVE  announced' \in [Alarms -> Notices]
<1>1. SUFFICES ASSUME NEW a \in Alarms
               PROVE  (IF a \in alarms /\ Parked(rows[a])
                       THEN [announced[a] EXCEPT !.lost = TRUE] ELSE announced[a]) \in Notices
  BY DEF LoseNotices
<1>2. [announced[a] EXCEPT !.lost = TRUE] \in Notices
  BY DEF Notices
<1>3. QED
  BY <1>2

LEMMA CommittedView ==
    ASSUME IInv PROVE ViewOK(View(rows))
BY DEF IInv, TypeOK, GoodRows, ViewOK, View, Rows

LEMMA ApplyView ==
    ASSUME IInv, NEW view, ViewOK(view), NEW mutation \in Mutation,
           NEW source \in Rows, NEW self
    PROVE  ViewOK(Apply(view, mutation, source, self))
<1> DEFINE a == mutation.id
           existing == view.rows[a]
           row == Scheduled(mutation.input, existing, source, a = self,
                            budget, now, NewRevision(a))
           result == Apply(view, mutation, source, self)
<1>1. a \in Alarms
  BY DEF Mutation, Schedule, Cancel
<1>2. CASE mutation.op = "cancel"
  <2>1. /\ result.rows = [view.rows EXCEPT ![a] = NoRow] /\ result.parks = view.parks
        /\ result.announced = [view.announced EXCEPT ![a] = NoNotices]
    BY <1>2 DEF Apply
  <2>2. QED
    <3> HIDE DEF result, a
    <3>1. QED
      BY <2>1, <1>1, NoNoticesType DEF ViewOK, Rows, result
<1>3. CASE mutation.op # "cancel" /\ Replayed(mutation.input, existing, source)
  BY <1>3 DEF Apply
<1>4. CASE mutation.op # "cancel" /\ ~ Replayed(mutation.input, existing, source)
  <2>1. mutation.input \in Input
    BY <1>4 DEF Mutation, Schedule, Cancel
  <2>2. existing \in Rows
    BY <1>1 DEF ViewOK
  <2>3. budget \in 1..MaxBudget /\ now \in Nat
    BY SchedulerAssumption DEF IInv, TypeOK
  <2>4. NewRevision(a) \in Revisions
    BY <1>1, FreshRevision DEF IInv
  <2>5. row \in Row /\ Good(row) /\ row.revision = NewRevision(a)
    <3> DEFINE same == a = self
    <3>1. same \in BOOLEAN
      OBVIOUS
    <3> HIDE DEF a, existing, same
    <3>2. LET new == Scheduled(mutation.input, existing, source, same,
                               budget, now, NewRevision(a))
          IN  new \in Row /\ Good(new) /\ new.revision = NewRevision(a)
      BY <2>1, <2>2, <2>3, <2>4, <3>1, ScheduledRow
    <3>3. QED
      BY <3>2 DEF same
  <2>6. /\ result.rows = [view.rows EXCEPT ![a] = row]
        /\ result.parks \in {view.parks, view.parks \cup {a}}
        /\ result.announced =
              [view.announced EXCEPT ![a] = Episode(existing, source, row, @,
                                                        Owed(a) \/ a \in view.parks)]
    BY <1>4 DEF Apply
  <2>7. QED
    <3> HIDE DEF result, a, row
    <3>1. /\ result.rows \in [Alarms -> Rows] /\ result.parks \subseteq Alarms
          /\ result.announced \in [Alarms -> Notices]
      <4>1. row \in Rows
        BY <2>5 DEF Rows
      <4>2. result.rows \in [Alarms -> Rows]
        BY <4>1, <2>6, <1>1 DEF ViewOK
      <4>3. result.parks \subseteq Alarms
        BY <2>6, <1>1 DEF ViewOK
      <4>4. result.announced \in [Alarms -> Notices]
        <5> DEFINE owed == Owed(a) \/ a \in view.parks
        <5>1. owed \in BOOLEAN
          OBVIOUS
        <5>2. result.announced =
                 [view.announced EXCEPT ![a] = Episode(existing, source, row, @, owed)]
          BY <2>6
        <5> HIDE DEF owed
        <5>3. QED
          BY <5>1, <5>2, <1>1, EpisodeType DEF ViewOK
      <4>5. QED
        BY <4>2, <4>3, <4>4
    <3>2. ASSUME NEW b \in Alarms
          PROVE  /\ result.rows[b] # NoRow => Good(result.rows[b])
                 /\ \/ result.rows[b] = rows[b]
                    \/ result.rows[b] = NoRow
                    \/ result.rows[b].revision = NewRevision(b)
      <4>1. CASE b = a
        <5>1. result.rows[b] = row
          BY <4>1, <2>6, <1>1 DEF ViewOK
        <5>2. QED
          BY <4>1, <5>1, <2>5
      <4>2. CASE b # a
        <5>1. result.rows[b] = view.rows[b]
          BY <4>2, <2>6, <1>1 DEF ViewOK
        <5>2. QED
          BY <5>1 DEF ViewOK
      <4>3. QED
        BY <4>1, <4>2
    <3>3. ViewOK(result)
      BY <3>1, <3>2 DEF ViewOK
    <3>4. QED
      BY <3>3 DEF result
<1>5. QED
  BY <1>2, <1>3, <1>4

LEMMA RunView ==
    ASSUME IInv, NEW closure \in Closures, NEW source \in Rows, NEW self
    PROVE  ViewOK(Run(closure, source, self))
<1> DEFINE first == Apply(View(rows), closure[1], source, self)
<1>1. ViewOK(first)
  BY CommittedView, ApplyView, SchedulerAssumption
<1>2. CASE closure[2] = NoMutation
  BY <1>1, <1>2 DEF Run
<1>3. CASE closure[2] # NoMutation
  <2>1. closure[2] \in Mutation
    BY <1>3, SchedulerAssumption
  <2>2. ViewOK(Apply(first, closure[2], source, self))
    <3> HIDE DEF first
    <3>1. QED
      BY <1>1, <2>1, ApplyView
  <2>3. QED
    BY <2>2, <1>3 DEF Run
<1>4. QED
  BY <1>2, <1>3

\* A commit keeps the rows good and the fence up, whatever it wrote: a rewritten
\* row carries a revision no batch knows.
LEMMA CommitStep ==
    ASSUME IInv, NEW view, ViewOK(view), Commit(view),
           batch' \in [Alarms -> Rows],
           \A a \in Alarms : batch'[a] \in {batch[a], NoRow}
    PROVE  /\ rows' \in [Alarms -> Rows]
           /\ announced' \in [Alarms -> Notices]
           /\ attempted' \in [Alarms -> Nat \cup {NoTime}]
           /\ GoodRows'
           /\ RevisionIdentifiesRow'
<1>1. rows' = view.rows
  BY DEF Commit
<1>2. rows' \in [Alarms -> Rows] /\ GoodRows'
  BY <1>1 DEF ViewOK, GoodRows
<1>3. announced' \in [Alarms -> Notices]
  BY DEF Commit, ViewOK
<1>4. attempted' \in [Alarms -> Nat \cup {NoTime}]
  BY DEF Commit, IInv, TypeOK
<1>5. RevisionIdentifiesRow'
  <2>1. SUFFICES ASSUME NEW a \in Alarms, batch'[a] # NoRow,
                        HasRevision(rows'[a], batch'[a].revision)
                 PROVE  rows'[a] = batch'[a]
    BY DEF RevisionIdentifiesRow, HasRevision
  <2>2. batch'[a] = batch[a] /\ batch[a] # NoRow
    BY <2>1
  <2>3. CASE view.rows[a] = rows[a]
    BY <2>1, <2>2, <2>3, <1>1 DEF IInv, RevisionIdentifiesRow
  <2>4. CASE view.rows[a] = NoRow
    BY <2>1, <2>4, <1>1 DEF HasRevision
  <2>5. CASE view.rows[a].revision = NewRevision(a)
    <3>1. batch[a].revision = NewRevision(a)
      BY <2>1, <2>2, <2>5, <1>1 DEF HasRevision
    <3>2. ~ HasRevision(batch[a], NewRevision(a))
      BY FreshRevision DEF IInv
    <3>3. QED
      BY <2>2, <3>1, <3>2 DEF HasRevision
  <2>6. QED
    BY <2>3, <2>4, <2>5 DEF ViewOK
<1>6. QED
  BY <1>2, <1>3, <1>4, <1>5

\* The row a lane works on is an alarm's, selected and owned by the lane.
LEMMA HandledRow ==
    ASSUME IInv, NEW d \in Dispatchers, phase[d] \in {"handling", "succeeded", "failed"}
    PROVE  /\ handled[d] \in Alarms
           /\ Owner[handled[d]] = d
           /\ batch[handled[d]] \in Row
<1>1. handled[d] # NoAlarm /\ handled[d] \in Batched(d)
  BY DEF IInv, LaneConsistent
<1>2. QED
  BY <1>1 DEF IInv, TypeOK, Batched

\* Both ends of a row write a view a transaction can reach.
LEMMA SettledView ==
    ASSUME IInv, NEW d \in Dispatchers, phase[d] \in {"succeeded", "failed"}, NEW row,
           \/ row = NoRow
           \/ row \in Row /\ Good(row) /\ row.revision = NewRevision(handled[d])
    PROVE  ViewOK(Settled(d, row))
<1>1. handled[d] \in Alarms
  BY HandledRow
<1>2. row \in Rows
  BY DEF Rows
<1>3. /\ Settled(d, row).rows = [rows EXCEPT ![handled[d]] = row]
      /\ Settled(d, row).parks = {}
      /\ Settled(d, row).announced =
            [announced EXCEPT ![handled[d]] = Episode(rows[handled[d]], NoRow, row, @,
                                           Owed(handled[d]))]
  BY DEF Settled, View
<1>4. rows \in [Alarms -> Rows] /\ GoodRows
  BY DEF IInv, TypeOK, Rows
<1>5. Settled(d, row).rows \in [Alarms -> Rows]
  BY <1>1, <1>2, <1>3, <1>4
<1>6. ASSUME NEW b \in Alarms
      PROVE  /\ Settled(d, row).rows[b] # NoRow => Good(Settled(d, row).rows[b])
             /\ \/ Settled(d, row).rows[b] = rows[b]
                \/ Settled(d, row).rows[b] = NoRow
                \/ Settled(d, row).rows[b].revision = NewRevision(b)
  <2>1. CASE b = handled[d]
    <3>1. Settled(d, row).rows[b] = row
      BY <2>1, <1>1, <1>3, <1>4
    <3>2. QED
      BY <2>1, <3>1
  <2>2. CASE b # handled[d]
    <3>1. Settled(d, row).rows[b] = rows[b]
      BY <2>2, <1>1, <1>3, <1>4
    <3>2. QED
      BY <3>1, <1>4 DEF GoodRows
  <2>3. QED
    BY <2>1, <2>2
<1>7. Settled(d, row).announced \in [Alarms -> Notices]
  <2> DEFINE owed == Owed(handled[d])
  <2>1. owed \in BOOLEAN
    BY DEF Owed
  <2>2. Settled(d, row).announced =
           [announced EXCEPT ![handled[d]] = Episode(rows[handled[d]], NoRow, row, @, owed)]
    BY <1>3
  <2> HIDE DEF owed
  <2>3. QED
    BY <1>1, <2>1, <2>2, EpisodeType DEF IInv, TypeOK
<1>8. QED
  BY <1>3, <1>5, <1>6, <1>7 DEF ViewOK

LEMMA AcknowledgeView ==
    ASSUME IInv, NEW d \in Dispatchers, phase[d] \in {"succeeded", "failed"}, Acknowledge(d)
    PROVE  \E view : ViewOK(view) /\ Commit(view)
<1> DEFINE a == handled[d]
           row == Acknowledged(rows[a], batch[a], now, NewRevision(a))
<1>1. CASE Current(d)
  <2>1. a \in Alarms /\ rows[a] = batch[a] /\ rows[a] \in Row
    BY <1>1, HandledRow, RowAssumption DEF Current, IInv, RevisionIdentifiesRow, TypeOK, HasRevision
  <2>2. Good(rows[a]) /\ now \in Nat /\ NewRevision(a) \in Revisions
    BY <2>1, FreshRevision, RowAssumption DEF IInv, GoodRows, TypeOK
  <2>3. row = NoRow \/ (row \in Row /\ Good(row) /\ row.revision = NewRevision(a))
    <3> HIDE DEF a
    <3>1. QED
      BY <2>1, <2>2, AcknowledgedRow
  <2>4. ViewOK(Settled(d, row))
    <3> HIDE DEF row
    <3>1. QED
      BY <2>3, SettledView
  <2>5. QED
    BY <1>1, <2>4 DEF Acknowledge
<1>2. CASE ~ Current(d)
  BY <1>2, CommittedView DEF Acknowledge
<1>3. QED
  BY <1>1, <1>2

LEMMA RetryView ==
    ASSUME IInv, NEW d \in Dispatchers, RetryFailed(d)
    PROVE  \E view : ViewOK(view) /\ Commit(view)
<1> DEFINE a == handled[d]
           row == Failed(rows[a], batch[a], budget, now, NewRevision(a))
<1>1. phase[d] = "failed"
  BY DEF RetryFailed
<1>2. CASE Current(d)
  <2>1. a \in Alarms /\ rows[a] = batch[a] /\ rows[a] \in Row
    BY <1>1, <1>2, HandledRow, RowAssumption
       DEF Current, IInv, RevisionIdentifiesRow, TypeOK, HasRevision
  <2>2. /\ Good(rows[a]) /\ now \in Nat /\ NewRevision(a) \in Revisions
        /\ budget \in 1..MaxBudget
    BY <2>1, FreshRevision, RowAssumption, SchedulerAssumption DEF IInv, GoodRows, TypeOK
  <2>3. row \in Row /\ Good(row) /\ row.revision = NewRevision(a)
    <3>1. row = Failed(rows[a], rows[a], budget, now, NewRevision(a))
      BY <2>1
    <3> HIDE DEF a, row
    <3>2. QED
      BY <2>1, <2>2, <3>1, FailedRow
  <2>4. ViewOK(Settled(d, row))
    <3> HIDE DEF row
    <3>1. QED
      BY <1>1, <2>3, SettledView
  <2>5. QED
    BY <1>2, <2>4 DEF RetryFailed
<1>3. CASE ~ Current(d)
  BY <1>3, CommittedView DEF RetryFailed
<1>4. QED
  BY <1>2, <1>3

-----------------------------------------------------------------------------
(* Init and one lemma per group of actions.                                 *)

LEMMA InitInvariant == Init => IInv
<1> SUFFICES ASSUME Init PROVE IInv
  OBVIOUS
<1>1. TypeOK
  BY NoNoticesType DEF Init, TypeOK, Phases
<1>2. GoodRows /\ RevisionIdentifiesRow
  BY DEF Init, GoodRows, RevisionIdentifiesRow
<1>3. LaneConsistent
  BY DEF Init, LaneConsistent
<1>4. QED
  BY <1>1, <1>2, <1>3 DEF IInv

\* Going on to the next row, and giving the batch up, keep the lanes consistent:
\* the other lanes' rows are other alarms, of other owners.
LEMMA AdvanceLane ==
    ASSUME IInv, NEW d \in Dispatchers, phase[d] \in {"succeeded", "failed"},
           Advance(d) \/ Abandon(d)
    PROVE  /\ batch' \in [Alarms -> Rows]
           /\ \A a \in Alarms : batch'[a] \in {batch[a], NoRow}
           /\ phase' \in [Dispatchers -> Phases]
           /\ handled' \in [Dispatchers -> Alarms \cup {NoAlarm}]
           /\ LaneConsistent'
<1>1. handled[d] \in Alarms /\ Owner[handled[d]] = d
  BY HandledRow
<1>2. TypeOK /\ LaneConsistent
  BY DEF IInv
<1>3. /\ batch' \in [Alarms -> Rows]
      /\ \A a \in Alarms : batch'[a] \in {batch[a], NoRow}
      /\ \A a \in Alarms : Owner[a] # d => batch'[a] = batch[a]
  <2>1. CASE Advance(d)
    BY <2>1, <1>1, <1>2 DEF Advance, TypeOK, Rows
  <2>2. CASE Abandon(d)
    BY <2>2, <1>2 DEF Abandon, TypeOK, Rows
  <2>3. QED
    BY <2>1, <2>2
<1>4. \E next \in {"ready", "off"} : phase' = [phase EXCEPT ![d] = next]
  BY DEF Advance, Abandon
<1>5. handled' = [handled EXCEPT ![d] = NoAlarm]
  BY DEF Advance, Abandon
<1>6. phase' \in [Dispatchers -> Phases] /\ handled' \in [Dispatchers -> Alarms \cup {NoAlarm}]
  BY <1>2, <1>4, <1>5 DEF TypeOK, Phases
<1>7. LaneConsistent'
  <2>1. SUFFICES ASSUME NEW e \in Dispatchers
                 PROVE  /\ (handled'[e] # NoAlarm)
                             = (phase'[e] \in {"handling", "succeeded", "failed"})
                        /\ handled'[e] # NoAlarm => handled'[e] \in Batched(e)'
    BY DEF LaneConsistent
  <2>2. CASE e = d
    BY <2>2, <1>2, <1>4, <1>5 DEF TypeOK
  <2>3. CASE e # d
    <3>1. handled'[e] = handled[e] /\ phase'[e] = phase[e]
      BY <2>3, <1>2, <1>4, <1>5 DEF TypeOK
    <3>2. Batched(e)' = Batched(e)
      BY <2>3, <1>3 DEF Batched
    <3>3. QED
      BY <3>1, <3>2, <1>2 DEF LaneConsistent
  <2>4. QED
    BY <2>2, <2>3
<1>8. QED
  BY <1>3, <1>6, <1>7

\* What the end of a row leaves behind, whichever view it committed.
LEMMA RowEndInvariant ==
    ASSUME IInv, NEW d \in Dispatchers, phase[d] \in {"succeeded", "failed"},
           NEW view, ViewOK(view), Commit(view), Advance(d) \/ Abandon(d),
           reports' \in [Dispatchers -> [Fibers -> SUBSET Alarms]],
           UNCHANGED <<now, budget, external, restarts>>
    PROVE  IInv'
<1>1. /\ batch' \in [Alarms -> Rows]
      /\ \A a \in Alarms : batch'[a] \in {batch[a], NoRow}
      /\ phase' \in [Dispatchers -> Phases]
      /\ handled' \in [Dispatchers -> Alarms \cup {NoAlarm}]
      /\ LaneConsistent'
  BY AdvanceLane
<1>2. /\ rows' \in [Alarms -> Rows]
      /\ announced' \in [Alarms -> Notices]
      /\ attempted' \in [Alarms -> Nat \cup {NoTime}]
      /\ GoodRows'
      /\ RevisionIdentifiesRow'
  BY <1>1, CommitStep
<1>3. TypeOK'
  BY <1>1, <1>2 DEF IInv, TypeOK, Rows
<1>4. QED
  BY <1>1, <1>2, <1>3 DEF IInv

LEMMA RowEndStep ==
    ASSUME IInv, NEW d \in Dispatchers, Succeed(d) \/ SkipFailed(d) \/ RetryFailed(d)
    PROVE  IInv'
<1>1. phase[d] \in {"succeeded", "failed"}
  BY DEF Succeed, SkipFailed, RetryFailed
<1>2. CASE Succeed(d) \/ SkipFailed(d)
  <2>1. PICK view : ViewOK(view) /\ Commit(view)
    BY <1>1, <1>2, AcknowledgeView DEF Succeed, SkipFailed
  <2>2. reports' \in [Dispatchers -> [Fibers -> SUBSET Alarms]] /\ UNCHANGED <<now, budget, external, restarts>>
    BY <1>2 DEF Succeed, SkipFailed, Acknowledge, IInv, TypeOK
  <2>3. Advance(d)
    BY <1>2 DEF Succeed, SkipFailed
  <2>4. QED
    BY <1>1, <2>1, <2>2, <2>3, RowEndInvariant
<1>3. CASE RetryFailed(d)
  <2>1. PICK view : ViewOK(view) /\ Commit(view)
    BY <1>3, RetryView
  <2>2. handled[d] \in Alarms
    BY <1>1, HandledRow
  <2>3. \E s \in SUBSET Alarms : reports' = [reports EXCEPT ![d][Main] = s]
    BY <1>3, <2>2 DEF RetryFailed
  <2>4. /\ reports' \in [Dispatchers -> [Fibers -> SUBSET Alarms]]
        /\ UNCHANGED <<now, budget, external, restarts>>
    <3>1. reports \in [Dispatchers -> [Fibers -> SUBSET Alarms]] /\ Main \in Fibers
      BY SchedulerAssumption DEF IInv, TypeOK
    <3>2. UNCHANGED <<now, budget, external, restarts>>
      BY <1>3 DEF RetryFailed
    <3>3. QED
      BY <2>3, <3>1, <3>2
  <2>5. Advance(d) \/ Abandon(d)
    BY <1>3 DEF RetryFailed
  <2>6. QED
    BY <1>1, <2>1, <2>4, <2>5, RowEndInvariant
<1>4. QED
  BY <1>2, <1>3

LEMMA TransactionStep ==
    ASSUME IInv, External \/ \E d \in Dispatchers, f \in Fibers : HandlerTransaction(d, f)
    PROVE  IInv'
<1>1. ASSUME NEW view, ViewOK(view), Commit(view),
             reports' \in [Dispatchers -> [Fibers -> SUBSET Alarms]], external' \in Nat,
             UNCHANGED <<now, budget, phase, batch, handled, restarts>>
      PROVE  IInv'
  <2>1. batch' \in [Alarms -> Rows] /\ \A a \in Alarms : batch'[a] \in {batch[a], NoRow}
    BY <1>1 DEF IInv, TypeOK, Rows
  <2>2. /\ rows' \in [Alarms -> Rows]
        /\ announced' \in [Alarms -> Notices]
        /\ attempted' \in [Alarms -> Nat \cup {NoTime}]
        /\ GoodRows'
        /\ RevisionIdentifiesRow'
    BY <1>1, <2>1, CommitStep
  <2>3. TypeOK'
    BY <1>1, <2>1, <2>2 DEF IInv, TypeOK, Rows
  <2>4. LaneConsistent'
    BY <1>1 DEF IInv, LaneConsistent, Batched
  <2>5. QED
    BY <2>2, <2>3, <2>4 DEF IInv
<1>2. CASE External
  <2>1. PICK closure \in Closures : Commit(Run(closure, NoRow, NoAlarm))
    BY <1>2 DEF External
  <2>2. ViewOK(Run(closure, NoRow, NoAlarm))
    BY RunView DEF Rows
  <2>3. /\ reports' \in [Dispatchers -> [Fibers -> SUBSET Alarms]] /\ external' \in Nat
        /\ UNCHANGED <<now, budget, phase, batch, handled, restarts>>
    BY <1>2 DEF External, IInv, TypeOK
  <2>4. QED
    BY <1>1, <2>1, <2>2, <2>3
<1>3. CASE \E d \in Dispatchers, f \in Fibers : HandlerTransaction(d, f)
  <2>1. PICK d \in Dispatchers, f \in Fibers : HandlerTransaction(d, f)
    BY <1>3
  <2>2. batch[handled[d]] \in Rows
    BY <2>1, HandledRow DEF HandlerTransaction, InPass, Rows
  <2>3. PICK closure \in Closures :
          LET view == Run(closure, batch[handled[d]], handled[d])
          IN  /\ Commit(view)
              /\ reports' = [reports EXCEPT ![d][f] = view.parks]
    BY <2>1 DEF HandlerTransaction
  <2>4. ViewOK(Run(closure, batch[handled[d]], handled[d]))
    BY <2>2, RunView
  <2>5. /\ reports' \in [Dispatchers -> [Fibers -> SUBSET Alarms]] /\ external' \in Nat
        /\ UNCHANGED <<now, budget, phase, batch, handled, restarts>>
    BY <2>1, <2>3, <2>4 DEF HandlerTransaction, IInv, TypeOK, ViewOK
  <2>6. QED
    BY <1>1, <2>3, <2>4, <2>5
<1>4. QED
  BY <1>2, <1>3

LEMMA SelectStep ==
    ASSUME IInv, NEW d \in Dispatchers, Select(d)
    PROVE  IInv'
<1>1. TypeOK'
  BY DEF IInv, TypeOK, Phases, Select
<1>2. RevisionIdentifiesRow'
  BY DEF IInv, TypeOK, RevisionIdentifiesRow, HasRevision, Select
<1>3. LaneConsistent'
  <2>1. Selected(d) \subseteq {a \in Alarms : Owner[a] = d}
    BY DEF Selected, Due
  <2>2. SUFFICES ASSUME NEW e \in Dispatchers
                 PROVE  /\ (handled'[e] # NoAlarm)
                             = (phase'[e] \in {"handling", "succeeded", "failed"})
                        /\ handled'[e] # NoAlarm => handled'[e] \in Batched(e)'
    BY DEF LaneConsistent
  <2>3. CASE e = d
    BY <2>3 DEF IInv, TypeOK, LaneConsistent, Select
  <2>4. CASE e # d
    <3>1. handled'[e] = handled[e] /\ phase'[e] = phase[e]
      BY <2>4 DEF IInv, TypeOK, Select
    <3>2. Batched(e)' = Batched(e)
      BY <2>1, <2>4 DEF Batched, Select
    <3>3. QED
      BY <3>1, <3>2 DEF IInv, LaneConsistent
  <2>5. QED
    BY <2>3, <2>4
<1>4. QED
  BY <1>1, <1>2, <1>3 DEF IInv, GoodRows, Select

LEMMA RowStartStep ==
    ASSUME IInv, NEW d \in Dispatchers, Skip(d) \/ Start(d) \/ HandlerExit(d)
    PROVE  IInv'
<1>1. CASE Skip(d)
  <2>1. PICK a \in Alarms : First(d, a) /\ batch' = [batch EXCEPT ![a] = NoRow]
    BY <1>1 DEF Skip
  <2>2. Owner[a] = d /\ handled[d] = NoAlarm
    BY <1>1, <2>1 DEF Skip, Idle, First, Batched, IInv, LaneConsistent
  <2>3. TypeOK'
    BY <1>1, <2>1 DEF Skip, IInv, TypeOK
  <2>4. RevisionIdentifiesRow'
    BY <1>1, <2>1 DEF Skip, IInv, TypeOK, RevisionIdentifiesRow, HasRevision
  <2>5. LaneConsistent'
    <3>1. \A e \in Dispatchers : e # d => Batched(e)' = Batched(e)
      BY <2>1, <2>2 DEF Batched, IInv, TypeOK
    <3>2. handled' = handled /\ phase' = phase
      BY <1>1 DEF Skip
    <3>3. QED
      BY <2>2, <3>1, <3>2 DEF IInv, LaneConsistent
  <2>6. QED
    BY <1>1, <2>3, <2>4, <2>5 DEF Skip, IInv, GoodRows
<1>2. CASE Start(d)
  <2>1. PICK a \in Alarms : /\ First(d, a)
                            /\ handled' = [handled EXCEPT ![d] = a]
                            /\ attempted' = [attempted EXCEPT ![a] = now]
    BY <1>2 DEF Start
  <2>2. phase' = [phase EXCEPT ![d] = "handling"] /\ batch' = batch /\ rows' = rows
    BY <1>2 DEF Start
  <2>3. TypeOK'
    BY <1>2, <2>1, <2>2 DEF Start, IInv, TypeOK, Phases
  <2>4. LaneConsistent'
    <3>1. \A e \in Dispatchers : Batched(e)' = Batched(e)
      BY <2>2 DEF Batched
    <3>2. a \in Batched(d) /\ a # NoAlarm
      BY <2>1, SchedulerAssumption DEF First
    <3>3. QED
      BY <2>1, <2>2, <3>1, <3>2 DEF IInv, TypeOK, LaneConsistent
  <2>5. QED
    BY <2>2, <2>3, <2>4 DEF IInv, GoodRows, RevisionIdentifiesRow, HasRevision
<1>3. CASE HandlerExit(d)
  <2>1. PICK exit \in {"succeeded", "failed"} : phase' = [phase EXCEPT ![d] = exit]
    BY <1>3 DEF HandlerExit
  <2>2. phase[d] = "handling" /\ UNCHANGED <<rows, batch, handled>>
    BY <1>3 DEF HandlerExit
  <2>3. TypeOK'
    BY <1>3, <2>1 DEF HandlerExit, IInv, TypeOK, Phases
  <2>4. LaneConsistent'
    BY <2>1, <2>2 DEF IInv, TypeOK, LaneConsistent, Batched
  <2>5. QED
    BY <2>2, <2>3, <2>4 DEF IInv, GoodRows, RevisionIdentifiesRow, HasRevision
<1>4. QED
  BY <1>1, <1>2, <1>3

LEMMA StorageFaultStep ==
    ASSUME IInv, NEW d \in Dispatchers, StorageFault(d)
    PROVE  IInv'
<1>1. phase[d] \in {"succeeded", "failed"} /\ Abandon(d)
  BY DEF StorageFault
<1>2. /\ batch' \in [Alarms -> Rows]
      /\ \A a \in Alarms : batch'[a] \in {batch[a], NoRow}
      /\ phase' \in [Dispatchers -> Phases]
      /\ handled' \in [Dispatchers -> Alarms \cup {NoAlarm}]
      /\ LaneConsistent'
  BY <1>1, AdvanceLane
<1>3. TypeOK'
  BY <1>2 DEF StorageFault, IInv, TypeOK, Rows
<1>4. GoodRows'
  BY DEF StorageFault, IInv, GoodRows
<1>5. RevisionIdentifiesRow'
  BY <1>2 DEF StorageFault, IInv, RevisionIdentifiesRow, HasRevision
<1>6. QED
  BY <1>2, <1>3, <1>4, <1>5 DEF IInv

\* Deliveries, notices, the end of a lane, restarts and the clock write no row.
LEMMA OtherStep ==
    ASSUME IInv, \/ Deliver \/ Restart \/ Tick
                 \/ \E d \in Dispatchers : Finish(d)
                 \/ \E d \in Dispatchers, f \in Fibers : Report(d, f) \/ Interrupt(d, f)
    PROVE  IInv'
<1>1. CASE Deliver
  <2>1. TypeOK'
    BY <1>1 DEF Deliver, IInv, TypeOK, Phases
  <2>2. LaneConsistent'
    BY <1>1 DEF Deliver, IInv, LaneConsistent, Batched
  <2>3. QED
    BY <1>1, <2>1, <2>2 DEF Deliver, IInv, GoodRows, RevisionIdentifiesRow, HasRevision
<1>2. CASE Restart
  <2>1. TypeOK'
    <3>1. announced' \in [Alarms -> Notices]
      BY <1>2, LostType DEF Restart, IInv, TypeOK
    <3>2. QED
      BY <1>2, <3>1 DEF Restart, IInv, TypeOK, Phases
  <2>2. LaneConsistent'
    BY <1>2 DEF Restart, LaneConsistent
  <2>3. QED
    BY <1>2, <2>1, <2>2 DEF Restart, IInv, GoodRows, RevisionIdentifiesRow
<1>3. CASE Tick
  <2>1. TypeOK'
    BY <1>3 DEF Tick, IInv, TypeOK
  <2>2. QED
    BY <1>3, <2>1 DEF Tick, IInv, GoodRows, RevisionIdentifiesRow, HasRevision,
                      LaneConsistent, Batched
<1>4. ASSUME NEW d \in Dispatchers, NEW f \in Fibers, Report(d, f) PROVE IInv'
  <2>1. PICK a \in reports[d][f] :
          /\ reports' = [reports EXCEPT ![d][f] = @ \ {a}]
          /\ announced' = IF Parked(rows[a])
                          THEN [announced EXCEPT ![a].sent = MinOf(2, @ + 1)] ELSE announced
    BY <1>4 DEF Report
  <2>2. a \in Alarms
    BY <2>1 DEF IInv, TypeOK
  <2>3. reports' \in [Dispatchers -> [Fibers -> SUBSET Alarms]]
    BY <2>1 DEF IInv, TypeOK
  <2>4. announced' \in [Alarms -> Notices]
    <3>1. announced \in [Alarms -> Notices]
      BY DEF IInv, TypeOK
    <3>2. MinOf(2, announced[a].sent + 1) \in 0..2
      BY <2>2, <3>1 DEF Notices, MinOf
    <3>3. CASE Parked(rows[a])
      <4> DEFINE sent == MinOf(2, announced[a].sent + 1)
      <4>1. announced' = [announced EXCEPT ![a].sent = sent]
        BY <2>1, <3>3
      <4> HIDE DEF sent
      <4>2. sent \in 0..2
        BY <3>2 DEF sent
      <4>3. [announced[a] EXCEPT !.sent = sent] \in Notices
        BY <2>2, <3>1, <4>2 DEF Notices
      <4>4. QED
        BY <2>2, <3>1, <4>1, <4>3
    <3>4. CASE ~ Parked(rows[a])
      BY <2>1, <3>1, <3>4
    <3>5. QED
      BY <3>3, <3>4
  <2>5. TypeOK'
    BY <1>4, <2>3, <2>4 DEF Report, IInv, TypeOK
  <2>6. QED
    BY <1>4, <2>5 DEF Report, IInv, GoodRows, RevisionIdentifiesRow, HasRevision,
                      LaneConsistent, Batched
<1>5. ASSUME NEW d \in Dispatchers, Finish(d) PROVE IInv'
  <2>1. phase[d] = "ready" /\ phase' = [phase EXCEPT ![d] = "off"]
    BY <1>5 DEF Finish, Idle
  <2>2. TypeOK'
    BY <1>5, <2>1 DEF Finish, IInv, TypeOK, Phases
  <2>3. LaneConsistent'
    BY <1>5, <2>1 DEF Finish, IInv, TypeOK, LaneConsistent, Batched
  <2>4. QED
    BY <1>5, <2>2, <2>3 DEF Finish, IInv, GoodRows, RevisionIdentifiesRow, HasRevision
<1>6. ASSUME NEW d \in Dispatchers, NEW f \in Fibers, Interrupt(d, f) PROVE IInv'
  <2>1. reports' \in [Dispatchers -> [Fibers -> SUBSET Alarms]]
    BY <1>6 DEF Interrupt, IInv, TypeOK
  <2>2. announced' \in [Alarms -> Notices]
    BY <1>6, LostType DEF Interrupt, IInv, TypeOK
  <2>3. TypeOK'
    BY <1>6, <2>1, <2>2 DEF Interrupt, IInv, TypeOK
  <2>4. QED
    BY <1>6, <2>3 DEF Interrupt, IInv, GoodRows, RevisionIdentifiesRow, HasRevision,
                      LaneConsistent, Batched
<1>7. QED
  BY <1>1, <1>2, <1>3, <1>4, <1>5, <1>6

-----------------------------------------------------------------------------
LEMMA StepInvariant == IInv /\ [Next]_vars => IInv'
<1> SUFFICES ASSUME IInv, [Next]_vars PROVE IInv'
  OBVIOUS
<1>1. CASE UNCHANGED vars
  BY <1>1 DEF vars, IInv, TypeOK, GoodRows, RevisionIdentifiesRow, HasRevision,
              LaneConsistent, Batched
<1>2. CASE External
  BY <1>2, TransactionStep
<1>3. CASE Deliver \/ Restart \/ Tick
  BY <1>3, OtherStep
<1>4. ASSUME NEW d \in Dispatchers, Lane(d) PROVE IInv'
  BY <1>4, SelectStep, RowStartStep, TransactionStep, RowEndStep, StorageFaultStep, OtherStep
     DEF Lane
<1>5. QED
  BY <1>1, <1>2, <1>3, <1>4 DEF Next

THEOREM Invariance == Spec => []IInv
<1>1. Init => IInv
  BY InitInvariant
<1>2. IInv /\ [Next]_vars => IInv'
  BY StepInvariant
<1>3. QED
  BY <1>1, <1>2, PTL DEF Spec

\* Every variable keeps its type, for every set of alarms and dispatchers, every
\* policy and every bound.
THEOREM TypeCorrect == Spec => []TypeOK
<1>1. IInv => TypeOK
  BY DEF IInv
<1>2. QED
  BY <1>1, Invariance, PTL

\* The table never holds a row whose deadline, retry state and parking disagree.
THEOREM RowsStayConsistent == Spec => []RowsConsistent
<1>1. IInv => RowsConsistent
  BY DEF IInv, GoodRows, Good, RowsConsistent
<1>2. QED
  BY <1>1, Invariance, PTL

\* No sequence of failures, self-rearms and deployments passes the budget unparked.
THEOREM BudgetParks == Spec => []BudgetEndsInParking
<1>1. IInv => BudgetEndsInParking
  BY DEF IInv, GoodRows, Good, BudgetEndsInParking
<1>2. QED
  BY <1>1, Invariance, PTL

\* A matching revision means the very row the pass selected.
THEOREM FenceHolds == Spec => []RevisionIdentifiesRow
<1>1. IInv => RevisionIdentifiesRow
  BY DEF IInv
<1>2. QED
  BY <1>1, Invariance, PTL

-----------------------------------------------------------------------------
(* AlarmScheduler implements AlarmPromise, and the end of a row never undoes  *)
(* a newer write.  Both rest on the fence: equal revisions mean equal rows.   *)

\* The end of a lane's row, seen from outside the lane.
LEMMA RowEndEffect ==
    ASSUME IInv, NEW d \in Dispatchers, Succeed(d) \/ SkipFailed(d) \/ RetryFailed(d)
    PROVE  /\ handled[d] \in Alarms /\ Owner[handled[d]] = d
           /\ handled' = [handled EXCEPT ![d] = NoAlarm]
           /\ \A a \in Alarms : Owner[a] # d => batch'[a] = batch[a]
           /\ \/ ~ Current(d) /\ rows' = rows
              \/ Current(d) /\ \E row : rows' = [rows EXCEPT ![handled[d]] = row]
<1>1. phase[d] \in {"succeeded", "failed"}
  BY DEF Succeed, SkipFailed, RetryFailed
<1>2. handled[d] \in Alarms /\ Owner[handled[d]] = d
  BY <1>1, HandledRow
<1>3. Advance(d) \/ Abandon(d)
  BY DEF Succeed, SkipFailed, RetryFailed
<1>4. /\ handled' = [handled EXCEPT ![d] = NoAlarm]
      /\ \A a \in Alarms : Owner[a] # d => batch'[a] = batch[a]
  BY <1>2, <1>3 DEF Advance, Abandon, IInv, TypeOK
<1>5. CASE Succeed(d) \/ SkipFailed(d)
  BY <1>2, <1>4, <1>5 DEF Succeed, SkipFailed, Acknowledge, Commit, Settled, View
<1>6. CASE RetryFailed(d)
  BY <1>2, <1>4, <1>6 DEF RetryFailed, Commit, Settled, View
<1>7. QED
  BY <1>5, <1>6

\* While a lane holds a row, the table's copy is current or rewritten.
LEMMA CurrentRow ==
    ASSUME IInv, NEW d \in Dispatchers, handled[d] \in Alarms, Current(d)
    PROVE  rows[handled[d]] = batch[handled[d]] /\ rows[handled[d]] # NoRow
BY SchedulerAssumption
   DEF IInv, RevisionIdentifiesRow, LaneConsistent, Batched, Current, HasRevision

-----------------------------------------------------------------------------
LEMMA NewerScheduleStep ==
    ASSUME IInv, Next, NEW d \in Dispatchers, Ends(d), NEW a \in Alarms, rows'[a] # rows[a]
    PROVE  a = handled[d] /\ rows[a] = batch[a]
<1>1. PICK e \in Dispatchers : Succeed(e) \/ SkipFailed(e) \/ RetryFailed(e)
  <2>1. rows' # rows /\ handled' # handled
    BY DEF Ends
  <2>2. QED
    BY <2>1 DEF Next, Lane, External, Deliver, Restart, Tick, Select, Skip, Start,
                HandlerTransaction, HandlerExit, Report, Interrupt, StorageFault, Finish
<1>2. e = d
  BY <1>1, RowEndEffect DEF Ends, IInv, TypeOK
<1>3. Current(d) /\ handled[d] \in Alarms /\ \E row : rows' = [rows EXCEPT ![handled[d]] = row]
  BY <1>1, <1>2, RowEndEffect
<1>4. a = handled[d]
  BY <1>3 DEF IInv, TypeOK
<1>5. QED
  BY <1>3, <1>4, CurrentRow

\* Success and failure of a handler leave alone every row written since its own
\* was selected, whoever wrote it.
THEOREM NewerSchedulesSurvive == Spec => NewerScheduleSurvives
<1>1. IInv /\ [Next]_vars =>
        [\A d \in Dispatchers : Ends(d) =>
            \A a \in Alarms : rows'[a] # rows[a] => a = handled[d] /\ rows[a] = batch[a]]_vars
  BY NewerScheduleStep
<1>2. QED
  BY <1>1, Invariance, PTL DEF Spec, NewerScheduleSurvives

-----------------------------------------------------------------------------
LEMMA PromiseInit == Init => Promise!Init
BY SchedulerAssumption DEF Init, Promise!Init, Work, Attempting

\* A transaction is one abstract write: what it rewrites is stale in every lane.
LEMMA TransactionKeepsPromise ==
    ASSUME IInv, NEW view, ViewOK(view), rows' = view.rows, UNCHANGED <<batch, handled>>
    PROVE  Promise!Write
<1> DEFINE written == {a \in Alarms : rows'[a] # rows[a]}
           result == [a \in written |-> Work'[a]]
<1>1. ASSUME NEW a \in Alarms
      PROVE  Attempting'[a] = IF a \in written /\ Attempting[a] # "none"
                              THEN "stale" ELSE Attempting[a]
  <2>1. CASE a \notin written
    BY <2>1 DEF Attempting
  <2>2. CASE a \in written
    <3>1. rows'[a] = NoRow \/ rows'[a].revision = NewRevision(a)
      BY <2>2 DEF ViewOK
    <3>2. CASE handled[Owner[a]] # a
      BY <3>2 DEF Attempting
    <3>3. CASE handled[Owner[a]] = a
      <4>1. batch[a] # NoRow
        BY <3>3, SchedulerAssumption DEF IInv, LaneConsistent, Batched
      <4>2. ~ HasRevision(rows'[a], batch[a].revision)
        BY <3>1, <4>1, FreshRevision DEF IInv, HasRevision
      <4>3. QED
        BY <2>2, <3>3, <4>2 DEF Attempting
    <3>4. QED
      BY <3>2, <3>3
  <2>3. QED
    BY <2>1, <2>2
<1>2. \A a \in Alarms : Work'[a] = IF a \in written THEN result[a] ELSE Work[a]
  BY DEF Work
<1>3. result \in [written -> {"idle", "pending"}]
  BY DEF Work
<1>4. QED
  <2> HIDE DEF result
  <2>1. Work' = [a \in Alarms |-> IF a \in written THEN result[a] ELSE Work[a]]
    BY <1>2 DEF Work
  <2>2. Attempting' = [a \in Alarms |-> IF a \in written /\ Attempting[a] # "none"
                                        THEN "stale" ELSE Attempting[a]]
    BY <1>1 DEF Attempting
  <2>3. written \in SUBSET Alarms
    OBVIOUS
  <2>4. QED
    BY <1>3, <2>1, <2>2, <2>3 DEF Promise!Write

\* The end of a row completes an attempt that is current, and drops one that is not.
LEMMA RowEndKeepsPromise ==
    ASSUME IInv, NEW d \in Dispatchers, Succeed(d) \/ SkipFailed(d) \/ RetryFailed(d)
    PROVE  Promise!Complete(handled[d]) \/ Promise!Discard(handled[d])
<1> DEFINE a == handled[d]
<1>1. /\ a \in Alarms /\ Owner[a] = d
      /\ handled' = [handled EXCEPT ![d] = NoAlarm]
      /\ \A b \in Alarms : Owner[b] # d => batch'[b] = batch[b]
      /\ \A b \in Alarms : b # a => rows'[b] = rows[b]
      /\ ~ Current(d) => rows' = rows
  BY RowEndEffect DEF IInv, TypeOK
<1>2. Attempting' = [Attempting EXCEPT ![a] = "none"]
  <2>1. ASSUME NEW b \in Alarms
        PROVE  Attempting'[b] = IF b = a THEN "none" ELSE Attempting[b]
    <3>1. CASE Owner[b] = d
      BY <1>1, <3>1, SchedulerAssumption DEF Attempting, IInv, TypeOK
    <3>2. CASE Owner[b] # d
      BY <1>1, <3>2, SchedulerAssumption DEF Attempting, IInv, TypeOK
    <3>3. QED
      BY <3>1, <3>2
  <2>2. QED
    BY <2>1, <1>1 DEF Attempting
<1>3. Attempting[a] = IF Current(d) THEN "current" ELSE "stale"
  BY <1>1 DEF Attempting, Current
<1>4. CASE Current(d)
  <2>1. \A b \in Alarms : b # a => Work'[b] = Work[b]
    BY <1>1 DEF Work
  <2>2. Work'[a] \in {"idle", "pending"}
    BY <1>1 DEF Work
  <2>3. Work' = [Work EXCEPT ![a] = Work'[a]]
    BY <1>1, <2>1 DEF Work
  <2>4. QED
    BY <1>2, <1>3, <1>4, <2>2, <2>3 DEF Promise!Complete
<1>5. CASE ~ Current(d)
  <2>1. Work' = Work
    BY <1>1, <1>5 DEF Work
  <2>2. QED
    BY <1>2, <1>3, <1>5, <2>1 DEF Promise!Discard
<1>6. QED
  BY <1>4, <1>5

\* A lane starts a row that is still in the table as selected: a current attempt.
LEMMA StartKeepsPromise ==
    ASSUME IInv, NEW d \in Dispatchers, Start(d)
    PROVE  \E a \in Alarms : Promise!Attempt(a)
<1>1. PICK a \in Alarms : /\ First(d, a)
                          /\ HasRevision(rows[a], batch[a].revision)
                          /\ handled' = [handled EXCEPT ![d] = a]
  BY DEF Start
<1>2. Owner[a] = d /\ handled[d] = NoAlarm /\ UNCHANGED <<rows, batch>>
  BY <1>1 DEF Start, Idle, First, Batched, IInv, LaneConsistent
<1>3. Attempting' = [Attempting EXCEPT ![a] = "current"]
  <2>1. ASSUME NEW b \in Alarms
        PROVE  Attempting'[b] = IF b = a THEN "current" ELSE Attempting[b]
    BY <1>1, <1>2, SchedulerAssumption DEF Attempting, IInv, TypeOK
  <2>2. QED
    BY <2>1 DEF Attempting
<1>4. Work[a] = "pending" /\ Work' = Work
  BY <1>1, <1>2 DEF Work, HasRevision
<1>5. Attempting[a] = "none"
  BY <1>2, SchedulerAssumption DEF Attempting
<1>6. QED
  BY <1>3, <1>4, <1>5 DEF Promise!Attempt

LEMMA LossKeepsPromise ==
    ASSUME IInv, Restart \/ \E d \in Dispatchers : StorageFault(d)
    PROVE  Promise!Lose \/ \E a \in Alarms : Promise!Discard(a)
<1>1. CASE Restart
  <2>1. Work' = Work /\ Attempting' = [a \in Alarms |-> "none"]
    BY <1>1, SchedulerAssumption DEF Restart, Work, Attempting
  <2>2. QED
    BY <2>1 DEF Promise!Lose
<1>2. ASSUME NEW d \in Dispatchers, StorageFault(d)
      PROVE  \E a \in Alarms : Promise!Discard(a)
  <2>1. /\ handled[d] \in Alarms /\ Owner[handled[d]] = d
        /\ handled' = [handled EXCEPT ![d] = NoAlarm] /\ rows' = rows
        /\ \A b \in Alarms : Owner[b] # d => batch'[b] = batch[b]
    BY <1>2, HandledRow DEF StorageFault, Abandon, IInv, TypeOK
  <2>2. Work' = Work
    BY <2>1 DEF Work
  <2>3. Attempting' = [Attempting EXCEPT ![handled[d]] = "none"]
    <3>1. ASSUME NEW b \in Alarms
          PROVE  Attempting'[b] = IF b = handled[d] THEN "none" ELSE Attempting[b]
      BY <2>1, SchedulerAssumption DEF Attempting, IInv, TypeOK
    <3>2. QED
      BY <3>1, <2>1 DEF Attempting
  <2>4. Attempting[handled[d]] # "none"
    BY <2>1 DEF Attempting
  <2>5. QED
    BY <2>1, <2>2, <2>3, <2>4 DEF Promise!Discard
<1>3. QED
  BY <1>1, <1>2

\* Every other step is invisible: selection and skipping concern rows no lane holds.
LEMMA InvisibleSteps ==
    ASSUME IInv,
           \/ Deliver \/ Tick
           \/ \E d \in Dispatchers :
                 Select(d) \/ Skip(d) \/ HandlerExit(d) \/ Finish(d)
           \/ \E d \in Dispatchers, f \in Fibers : Report(d, f) \/ Interrupt(d, f)
    PROVE  UNCHANGED Promise!pvars
<1>1. rows' = rows /\ handled' = handled
  BY DEF Deliver, Tick, Select, Skip, HandlerExit, Report, Interrupt, Finish
<1>2. Work' = Work
  BY <1>1 DEF Work
<1>3. ASSUME NEW a \in Alarms, handled[Owner[a]] = a PROVE batch'[a] = batch[a]
  <2>1. phase[Owner[a]] \in {"handling", "succeeded", "failed"}
    BY <1>3, SchedulerAssumption DEF IInv, LaneConsistent
  <2>2. CASE \E d \in Dispatchers : Select(d)
    BY <2>1, <2>2 DEF Select, Selected, Due
  <2>3. CASE \E d \in Dispatchers : Skip(d)
    <3>1. PICK d \in Dispatchers, b \in Alarms :
            /\ phase[d] = "ready" /\ Owner[b] = d /\ batch' = [batch EXCEPT ![b] = NoRow]
      BY <2>3 DEF Skip, Idle, First, Batched
    <3>2. a # b
      BY <2>1, <3>1
    <3>3. QED
      BY <3>1, <3>2 DEF IInv, TypeOK
  <2>4. CASE batch' = batch
    BY <2>4
  <2>5. QED
    BY <2>2, <2>3, <2>4 DEF Deliver, Tick, HandlerExit, Report, Interrupt, Finish
<1>4. Attempting' = Attempting
  <2>1. \A a \in Alarms : Attempting'[a] = Attempting[a]
    BY <1>1, <1>3 DEF Attempting
  <2>2. QED
    BY <2>1 DEF Attempting
<1>5. QED
  BY <1>2, <1>4 DEF Promise!pvars

LEMMA PromiseStep == IInv /\ [Next]_vars => [Promise!Next]_Promise!pvars
<1> SUFFICES ASSUME IInv, [Next]_vars PROVE [Promise!Next]_Promise!pvars
  OBVIOUS
<1>1. CASE UNCHANGED vars
  BY <1>1 DEF vars, Promise!pvars, Work, Attempting
<1>2. CASE External
  <2>1. PICK closure \in Closures : Commit(Run(closure, NoRow, NoAlarm))
    BY <1>2 DEF External
  <2>2. ViewOK(Run(closure, NoRow, NoAlarm)) /\ rows' = Run(closure, NoRow, NoAlarm).rows
    BY <2>1, RunView DEF Rows, Commit
  <2>3. QED
    BY <1>2, <2>2, TransactionKeepsPromise DEF External, Promise!Next
<1>3. ASSUME NEW d \in Dispatchers, NEW f \in Fibers, HandlerTransaction(d, f) PROVE Promise!Write
  <2>1. batch[handled[d]] \in Rows
    BY <1>3, HandledRow DEF HandlerTransaction, InPass, Rows
  <2>2. PICK closure \in Closures :
          rows' = Run(closure, batch[handled[d]], handled[d]).rows
    BY <1>3 DEF HandlerTransaction, Commit
  <2>3. ViewOK(Run(closure, batch[handled[d]], handled[d]))
    BY <2>1, RunView
  <2>4. QED
    BY <1>3, <2>2, <2>3, TransactionKeepsPromise DEF HandlerTransaction
<1>4. ASSUME NEW d \in Dispatchers, Succeed(d) \/ SkipFailed(d) \/ RetryFailed(d)
      PROVE  Promise!Next
  BY <1>4, RowEndEffect, RowEndKeepsPromise DEF Promise!Next
<1>5. QED
  BY <1>1, <1>2, <1>3, <1>4, StartKeepsPromise, LossKeepsPromise, InvisibleSteps
     DEF Next, Lane, Promise!Next

\* Every behaviour of the scheduler is a behaviour of its promise.
THEOREM SchedulerKeepsPromise == Spec => KeepsPromise
<1>1. Init => Promise!Init
  BY PromiseInit
<1>2. IInv /\ [Next]_vars => [Promise!Next]_Promise!pvars
  BY PromiseStep
<1>3. QED
  BY <1>1, <1>2, Invariance, PTL DEF Spec, KeepsPromise, Promise!Spec
-----------------------------------------------------------------------------
(* What the histories say of notices, budgets and backoff.  The invariants  *)
(* are about a whole transaction, so each has a counterpart on the views in  *)
(* its course.                                                              *)

\* One mutation of a view: a removal, nothing, or a row that scheduleAlarm made.
Mutated(view, mutation, source, self, result) ==
    LET a == mutation.id
    IN  /\ a \in Alarms
        /\ \/ /\ result.rows = [view.rows EXCEPT ![a] = NoRow]
              /\ result.parks = view.parks
              /\ result.announced = [view.announced EXCEPT ![a] = NoNotices]
           \/ result = view
           \/ \E row \in Row :
                 /\ mutation.input \in Input
                 /\ row = Scheduled(mutation.input, view.rows[a], source, a = self,
                                    budget, now, NewRevision(a))
                 /\ result.rows = [view.rows EXCEPT ![a] = row]
                 /\ result.announced =
                       [view.announced EXCEPT ![a] = Episode(view.rows[a], source, row, @,
                                                          Owed(a) \/ a \in view.parks)]
                 /\ result.parks = IF Parks(view.rows[a], source, row)
                                   THEN view.parks \cup {a} ELSE view.parks

LEMMA ApplyMutates ==
    ASSUME IInv, NEW view, ViewOK(view), NEW mutation \in Mutation,
           NEW source \in Rows, NEW self
    PROVE  Mutated(view, mutation, source, self, Apply(view, mutation, source, self))
<1> DEFINE a == mutation.id
           existing == view.rows[a]
           same == a = self
           row == Scheduled(mutation.input, existing, source, same, budget, now, NewRevision(a))
           result == Apply(view, mutation, source, self)
<1>1. a \in Alarms
  BY DEF Mutation, Schedule, Cancel
<1>2. CASE mutation.op = "cancel"
  <2>1. /\ result.rows = [view.rows EXCEPT ![a] = NoRow]
        /\ result.parks = view.parks
        /\ result.announced = [view.announced EXCEPT ![a] = NoNotices]
    BY <1>2 DEF Apply
  <2>2. QED
    BY <1>1, <2>1 DEF Mutated
<1>3. CASE mutation.op # "cancel" /\ Replayed(mutation.input, existing, source)
  <2>1. result = view
    BY <1>3 DEF Apply
  <2>2. QED
    BY <1>1, <2>1 DEF Mutated
<1>4. CASE mutation.op # "cancel" /\ ~ Replayed(mutation.input, existing, source)
  <2>1. mutation.input \in Input
    BY <1>4 DEF Mutation, Schedule, Cancel
  <2>2. existing \in Rows
    BY <1>1 DEF ViewOK
  <2>3. budget \in 1..MaxBudget /\ now \in Nat
    BY SchedulerAssumption DEF IInv, TypeOK
  <2>4. NewRevision(a) \in Revisions
    BY <1>1, FreshRevision DEF IInv
  <2>5. row \in Row
    <3>1. same \in BOOLEAN
      OBVIOUS
    <3> HIDE DEF a, existing, same
    <3>2. QED
      BY <2>1, <2>2, <2>3, <2>4, <3>1, ScheduledRow
  <2>6. /\ result.rows = [view.rows EXCEPT ![a] = row]
        /\ result.announced = [view.announced EXCEPT ![a] = Episode(existing, source, row, @,
                                                        Owed(a) \/ a \in view.parks)]
        /\ result.parks = IF Parks(existing, source, row) THEN view.parks \cup {a} ELSE view.parks
    BY <1>4 DEF Apply
  <2>7. row = Scheduled(mutation.input, view.rows[a], source, a = self,
                        budget, now, NewRevision(a))
    OBVIOUS
  <2>8. QED
    <3> HIDE DEF result, row, same
    <3>1. Mutated(view, mutation, source, self, result)
      BY <1>1, <2>1, <2>5, <2>6, <2>7 DEF Mutated
    <3>2. QED
      BY <3>1 DEF result
<1>5. QED
  BY <1>2, <1>3, <1>4

\* A transaction body is one mutation of the committed view, or two.
LEMMA RunMutates ==
    ASSUME IInv, NEW closure \in Closures, NEW source \in Rows, NEW self
    PROVE  LET view == Run(closure, source, self)
           IN  \/ Mutated(View(rows), closure[1], source, self, view)
               \/ \E first : /\ ViewOK(first)
                             /\ Mutated(View(rows), closure[1], source, self, first)
                             /\ Mutated(first, closure[2], source, self, view)
<1> DEFINE first == Apply(View(rows), closure[1], source, self)
<1>1. closure[1] \in Mutation
  BY SchedulerAssumption
<1>2. ViewOK(first) /\ Mutated(View(rows), closure[1], source, self, first)
  BY <1>1, CommittedView, ApplyView, ApplyMutates
<1>3. CASE closure[2] = NoMutation
  BY <1>2, <1>3 DEF Run
<1>4. CASE closure[2] # NoMutation
  <2>1. closure[2] \in Mutation
    BY <1>4, SchedulerAssumption
  <2>2. Mutated(first, closure[2], source, self, Apply(first, closure[2], source, self))
    <3> HIDE DEF first
    <3>1. QED
      BY <1>2, <2>1, ApplyMutates
  <2>3. Run(closure, source, self) = Apply(first, closure[2], source, self)
    BY <1>4 DEF Run
  <2>4. QED
    <3> HIDE DEF first
    <3>1. QED
      BY <1>2, <2>2, <2>3
<1>5. QED
  BY <1>3, <1>4

-----------------------------------------------------------------------------
(* No parking goes unannounced.                                             *)

\* No notice of the episode was sent or lost.
Unsaid(notices) == notices.sent = 0 /\ ~ notices.lost

\* A parking the view has yet to announce is one it began, or one its rows were
\* committed with.
Noticed(view) ==
    \A a \in Alarms : Parked(view.rows[a]) /\ Unsaid(view.announced[a]) =>
        a \in view.parks \/ (Parked(rows[a]) /\ Unsaid(announced[a]))

\* An incoming event parks nothing: a parked row in its view is an old one.
Unparking(view) ==
    /\ view.parks = {}
    /\ \A a \in Alarms : Parked(view.rows[a]) =>
          view.rows[a] = rows[a] /\ view.announced[a] = announced[a]

LEMMA MutatedNoticed ==
    ASSUME NEW view, ViewOK(view), NEW mutation, NEW source, NEW self, NEW result,
           Mutated(view, mutation, source, self, result), Noticed(view)
    PROVE  Noticed(result)
<1> DEFINE a == mutation.id
           owed == Owed(a) \/ a \in view.parks
<1>0. a \in Alarms /\ view.rows \in [Alarms -> Rows] /\ view.announced \in [Alarms -> Notices]
  BY DEF ViewOK, Mutated
<1>1. CASE /\ result.rows = [view.rows EXCEPT ![a] = NoRow]
           /\ result.parks = view.parks
           /\ result.announced = [view.announced EXCEPT ![a] = NoNotices]
  <2> HIDE DEF a
  <2>1. QED
    BY <1>0, <1>1 DEF Noticed, Parked
<1>2. CASE result = view
  BY <1>2
<1>3. ASSUME NEW row \in Row,
             result.rows = [view.rows EXCEPT ![a] = row],
             result.announced = [view.announced EXCEPT ![a] =
                                    Episode(view.rows[a], source, row, @, owed)],
             result.parks = IF Parks(view.rows[a], source, row)
                            THEN view.parks \cup {a} ELSE view.parks
      PROVE  Noticed(result)
  <2> HIDE DEF a, owed
  <2>1. SUFFICES ASSUME NEW b \in Alarms, Parked(result.rows[b]), Unsaid(result.announced[b])
                 PROVE  b \in result.parks \/ (Parked(rows[b]) /\ Unsaid(announced[b]))
    BY DEF Noticed
  <2>2. CASE b # a
    BY <1>0, <1>3, <2>1, <2>2 DEF Noticed
  <2>3. CASE b = a
    <3>1. Parked(row) /\ Unsaid(Episode(view.rows[a], source, row, view.announced[a], owed))
      BY <1>0, <1>3, <2>1, <2>3
    <3>2. (Parked(view.rows[a]) /\ Unsaid(view.announced[a])) \/ Parks(view.rows[a], source, row)
      BY <3>1 DEF Episode, Parks, Parked, Unsaid
    <3>3. QED
      BY <1>0, <1>3, <2>3, <3>2 DEF Noticed
  <2>4. QED
    BY <2>2, <2>3
<1>4. QED
  BY <1>1, <1>2, <1>3 DEF Mutated

LEMMA MutatedUnparking ==
    ASSUME NEW view, ViewOK(view), NEW mutation, NEW self, NEW result,
           Mutated(view, mutation, NoRow, self, result), Unparking(view)
    PROVE  Unparking(result)
<1> DEFINE a == mutation.id
           owed == Owed(a) \/ a \in view.parks
<1>0. a \in Alarms /\ view.rows \in [Alarms -> Rows] /\ view.announced \in [Alarms -> Notices]
  BY DEF ViewOK, Mutated
<1>1. CASE /\ result.rows = [view.rows EXCEPT ![a] = NoRow]
           /\ result.parks = view.parks
           /\ result.announced = [view.announced EXCEPT ![a] = NoNotices]
  <2> HIDE DEF a
  <2>1. QED
    BY <1>0, <1>1 DEF Unparking, Parked
<1>2. CASE result = view
  BY <1>2
<1>3. ASSUME NEW row \in Row,
             row = Scheduled(mutation.input, view.rows[a], NoRow, a = self,
                             budget, now, NewRevision(a)),
             result.rows = [view.rows EXCEPT ![a] = row],
             result.announced = [view.announced EXCEPT ![a] =
                                    Episode(view.rows[a], NoRow, row, @, owed)],
             result.parks = IF Parks(view.rows[a], NoRow, row)
                            THEN view.parks \cup {a} ELSE view.parks
      PROVE  Unparking(result)
  <2>1. ScheduledAttempts(mutation.input, view.rows[a], NoRow, a = self, budget) = 0
    BY DEF ScheduledAttempts, Replenished
  <2>2. row.parked = FALSE
    BY <1>3, <2>1 DEF Scheduled
  <2>3. QED
    <3> HIDE DEF a, owed
    <3>1. QED
      BY <1>0, <1>3, <2>2 DEF Unparking, Parks, Parked
<1>4. QED
  BY <1>1, <1>2, <1>3 DEF Mutated

LEMMA RunNoticed ==
    ASSUME IInv, NEW closure \in Closures, NEW source \in Rows, NEW self
    PROVE  Noticed(Run(closure, source, self))
<1>1. ViewOK(View(rows)) /\ Noticed(View(rows))
  BY CommittedView DEF Noticed, View
<1>2. QED
  BY <1>1, RunMutates, MutatedNoticed

LEMMA RunUnparking ==
    ASSUME IInv, NEW closure \in Closures, NEW self
    PROVE  Unparking(Run(closure, NoRow, self))
<1>1. ViewOK(View(rows)) /\ Unparking(View(rows)) /\ NoRow \in Rows
  BY CommittedView DEF Unparking, View, Rows
<1>2. QED
  BY <1>1, RunMutates, MutatedUnparking

\* What the end of a row makes of the lane's own row.
LEMMA SettledRow ==
    ASSUME IInv, NEW d \in Dispatchers, handled[d] \in Alarms, NEW row
    PROVE  /\ Settled(d, row).rows = [rows EXCEPT ![handled[d]] = row]
           /\ Settled(d, row).announced =
                 [announced EXCEPT ![handled[d]] = Episode(rows[handled[d]], NoRow, row, @,
                                                           Owed(handled[d]))]
BY DEF Settled, View

\* The end of a row parks it only when a failure spends its budget, and then hands
\* the notice to the lane's own fiber.
LEMMA RowEndCommits ==
    ASSUME IInv, NEW d \in Dispatchers, Succeed(d) \/ SkipFailed(d) \/ RetryFailed(d)
    PROVE  /\ handled[d] \in Alarms
           /\ \/ rows' = rows /\ announced' = announced
              \/ \E row : /\ Current(d)
                          /\ rows' = [rows EXCEPT ![handled[d]] = row]
                          /\ announced' = [announced EXCEPT ![handled[d]] =
                                               Episode(rows[handled[d]], NoRow, row, @,
                                                       Owed(handled[d]))]
                          /\ Parked(row) /\ ~ Parked(rows[handled[d]]) =>
                                handled[d] \in reports'[d][Main]
           /\ \/ reports' = reports
              \/ /\ reports[d][Main] = {}
                 /\ \/ reports' = [reports EXCEPT ![d][Main] = {}]
                    \/ /\ reports' = [reports EXCEPT ![d][Main] = {handled[d]}]
                       /\ Current(d) /\ ~ Parked(rows[handled[d]])
<1> DEFINE a == handled[d]
<1>1. a \in Alarms /\ batch[a] \in Row
  BY HandledRow DEF Succeed, SkipFailed, RetryFailed
<1>2. /\ rows \in [Alarms -> Rows] /\ reports \in [Dispatchers -> [Fibers -> SUBSET Alarms]]
      /\ Main \in Fibers
  BY SchedulerAssumption DEF IInv, TypeOK, Rows
<1>3. Current(d) => rows[a] = batch[a]
  BY <1>1, RowAssumption DEF Current, IInv, RevisionIdentifiesRow
<1>4. CASE Succeed(d) \/ SkipFailed(d)
  <2> DEFINE row == Acknowledged(rows[a], batch[a], now, NewRevision(a))
  <2>1. /\ Commit(IF Current(d) THEN Settled(d, row) ELSE View(rows))
        /\ reports' = reports
    BY <1>4 DEF Succeed, SkipFailed, Acknowledge
  <2>2. Current(d) => ~ Parked(row)
    BY <1>1, <1>3 DEF Acknowledged, Parked, Row
  <2> HIDE DEF row
  <2>3. QED
    BY <1>1, <2>1, <2>2, SettledRow DEF Commit, View
<1>5. CASE RetryFailed(d)
  <2> DEFINE row == Failed(rows[a], batch[a], budget, now, NewRevision(a))
             parks == IF Current(d) /\ row.parked /\ ~ batch[a].parked THEN {a} ELSE {}
  <2>1. /\ Commit(IF Current(d) THEN Settled(d, row) ELSE View(rows))
        /\ reports' = [reports EXCEPT ![d][Main] = parks]
        /\ reports[d][Main] = {}
    BY <1>5 DEF RetryFailed, Reported
  <2>2. Current(d) => (Parked(row) /\ ~ Parked(rows[a]) => a \in parks)
    BY <1>1, <1>3, RowAssumption DEF Parked
  <2>3. parks = {} \/ (parks = {a} /\ Current(d) /\ ~ Parked(rows[a]))
    BY <1>3 DEF Parked
  <2>4. a \in parks => a \in reports'[d][Main]
    BY <1>2, <2>1
  <2> HIDE DEF row, parks
  <2>5. QED
    BY <1>1, <2>1, <2>2, <2>3, <2>4, SettledRow, ZenonT(60) DEF Commit, View
<1>6. QED
  BY <1>4, <1>5

LEMMA TransactionNotices ==
    ASSUME IInv, NoSilentParking,
           External \/ \E d \in Dispatchers, f \in Fibers : HandlerTransaction(d, f)
    PROVE  NoSilentParking'
<1>1. CASE External
  <2>1. PICK closure \in Closures : Commit(Run(closure, NoRow, NoAlarm))
    BY <1>1 DEF External
  <2>2. Unparking(Run(closure, NoRow, NoAlarm)) /\ reports' = reports
    BY <1>1, RunUnparking DEF External
  <2>3. QED
    BY <2>1, <2>2 DEF NoSilentParking, Unparking, Commit, Owed
<1>2. ASSUME NEW d \in Dispatchers, NEW f \in Fibers, HandlerTransaction(d, f)
      PROVE  NoSilentParking'
  <2>1. batch[handled[d]] \in Rows
    BY <1>2, HandledRow DEF HandlerTransaction, InPass, Rows
  <2>2. PICK closure \in Closures :
          LET view == Run(closure, batch[handled[d]], handled[d])
          IN  /\ Commit(view)
              /\ reports' = [reports EXCEPT ![d][f] = view.parks]
    BY <1>2 DEF HandlerTransaction
  <2> DEFINE view == Run(closure, batch[handled[d]], handled[d])
  <2>3. Noticed(view)
    BY <2>1, RunNoticed
  <2>4. reports[d][f] = {} /\ reports \in [Dispatchers -> [Fibers -> SUBSET Alarms]]
    BY <1>2 DEF HandlerTransaction, IInv, TypeOK
  <2>5. Commit(view) /\ reports' = [reports EXCEPT ![d][f] = view.parks]
    BY <2>2
  <2>6. QED
    <3> HIDE DEF view
    <3>1. SUFFICES ASSUME NEW a \in Alarms, Parked(view.rows[a]), Unsaid(view.announced[a])
                   PROVE  \E e \in Dispatchers, g \in Fibers : a \in reports'[e][g]
      BY <2>5 DEF NoSilentParking, Commit, Unsaid, Owed
    <3>2. CASE a \in view.parks
      BY <2>4, <2>5, <3>2
    <3>3. CASE Parked(rows[a]) /\ Unsaid(announced[a])
      <4>1. PICK e \in Dispatchers, g \in Fibers : a \in reports[e][g]
        BY <3>3 DEF NoSilentParking, Unsaid, Owed
      <4>2. QED
        BY <2>4, <2>5, <4>1
    <3>4. QED
      BY <2>3, <3>1, <3>2, <3>3 DEF Noticed
<1>3. QED
  BY <1>1, <1>2

LEMMA RowEndNotices ==
    ASSUME IInv, NoSilentParking, NEW d \in Dispatchers,
           Succeed(d) \/ SkipFailed(d) \/ RetryFailed(d)
    PROVE  NoSilentParking'
<1>1. SUFFICES ASSUME NEW a \in Alarms, Parked(rows'[a]), Unsaid(announced'[a])
               PROVE  \E e \in Dispatchers, g \in Fibers : a \in reports'[e][g]
  BY DEF NoSilentParking, Unsaid, Owed
<1>2. /\ rows \in [Alarms -> Rows] /\ announced \in [Alarms -> Notices]
      /\ reports \in [Dispatchers -> [Fibers -> SUBSET Alarms]] /\ Main \in Fibers
  BY SchedulerAssumption DEF IInv, TypeOK, Rows
<1>3. CASE Parked(rows[a]) /\ Unsaid(announced[a])
  <2>1. PICK e \in Dispatchers, g \in Fibers : a \in reports[e][g]
    BY <1>3 DEF NoSilentParking, Unsaid, Owed
  <2>2. reports'[e][g] = reports[e][g]
    <3>1. CASE reports' = reports
      BY <3>1
    <3>2. ASSUME NEW s, reports[d][Main] = {}, reports' = [reports EXCEPT ![d][Main] = s]
          PROVE  reports'[e][g] = reports[e][g]
      <4>1. e # d \/ g # Main
        BY <2>1, <3>2
      <4>2. QED
        BY <1>2, <3>2, <4>1
    <3>3. QED
      BY <3>1, <3>2, RowEndCommits
  <2>3. QED
    BY <2>1, <2>2
<1>4. CASE ~ (Parked(rows[a]) /\ Unsaid(announced[a]))
  <2>1. a = handled[d] /\ ~ Parked(rows[a]) /\ a \in reports'[d][Main]
    <3>1. PICK row : /\ rows' = [rows EXCEPT ![handled[d]] = row]
                     /\ announced' = [announced EXCEPT ![handled[d]] =
                                          Episode(rows[handled[d]], NoRow, row, @,
                                                  Owed(handled[d]))]
                     /\ Parked(row) /\ ~ Parked(rows[handled[d]]) =>
                           handled[d] \in reports'[d][Main]
      BY <1>1, <1>4, RowEndCommits
    <3>2. a = handled[d]
      BY <1>1, <1>2, <1>4, <3>1
    <3>3. Parked(row) /\ Unsaid(Episode(rows[a], NoRow, row, announced[a], Owed(a)))
      BY <1>1, <1>2, <3>1, <3>2
    <3>4. QED
      BY <1>4, <3>1, <3>2, <3>3 DEF Episode, Unsaid
  <2>2. QED
    BY <1>2, <2>1
<1>5. QED
  BY <1>3, <1>4

\* A notice leaves its fiber when it is sent; an interruption and an eviction record
\* the ones they lose.
LEMMA OtherNotices ==
    ASSUME IInv, NoSilentParking,
           \/ UNCHANGED vars \/ Deliver \/ Restart \/ Tick
           \/ \E d \in Dispatchers : \/ Select(d) \/ Skip(d) \/ Start(d) \/ HandlerExit(d)
                                     \/ StorageFault(d) \/ Finish(d)
           \/ \E d \in Dispatchers, f \in Fibers : Report(d, f) \/ Interrupt(d, f)
    PROVE  NoSilentParking'
<1>0. /\ reports \in [Dispatchers -> [Fibers -> SUBSET Alarms]]
      /\ announced \in [Alarms -> Notices]
  BY DEF IInv, TypeOK
<1>1. CASE rows' = rows /\ announced' = announced /\ reports' = reports
  BY <1>1 DEF NoSilentParking, Owed
<1>2. CASE Restart
  <2>1. SUFFICES ASSUME NEW a \in Alarms, Parked(rows[a]), Unsaid(announced'[a])
                 PROVE  FALSE
    BY <1>2 DEF Restart, NoSilentParking, Unsaid
  <2>2. ~ Owed(a) /\ announced'[a] = announced[a]
    BY <1>0, <1>2, <2>1 DEF Restart, LoseNotices, Unsaid, Notices
  <2>3. QED
    BY <2>1, <2>2 DEF NoSilentParking, Unsaid
<1>3. ASSUME NEW d \in Dispatchers, NEW f \in Fibers, Report(d, f) PROVE NoSilentParking'
  <2>1. PICK a \in reports[d][f] :
          /\ reports' = [reports EXCEPT ![d][f] = @ \ {a}]
          /\ announced' = IF Parked(rows[a])
                          THEN [announced EXCEPT ![a].sent = MinOf(2, @ + 1)] ELSE announced
    BY <1>3 DEF Report
  <2>2. rows' = rows /\ a \in Alarms
    BY <1>0, <1>3, <2>1 DEF Report
  <2>3. SUFFICES ASSUME NEW b \in Alarms, Parked(rows[b]), Unsaid(announced'[b])
                 PROVE  \E e \in Dispatchers, g \in Fibers : b \in reports'[e][g]
    BY <2>2 DEF NoSilentParking, Unsaid, Owed
  <2>4. b # a
    BY <1>0, <2>1, <2>2, <2>3 DEF MinOf, Unsaid, Notices
  <2>5. Unsaid(announced[b])
    BY <1>0, <2>1, <2>2, <2>3, <2>4
  <2>6. PICK e \in Dispatchers, g \in Fibers : b \in reports[e][g]
    BY <2>3, <2>5 DEF NoSilentParking, Unsaid, Owed
  <2>7. b \in reports'[e][g]
    BY <1>0, <2>1, <2>4, <2>6
  <2>8. QED
    BY <2>7
<1>4. ASSUME NEW d \in Dispatchers, NEW f \in Fibers, Interrupt(d, f) PROVE NoSilentParking'
  <2>1. SUFFICES ASSUME NEW a \in Alarms, Parked(rows[a]), Unsaid(announced'[a])
                 PROVE  \E e \in Dispatchers, g \in Fibers : a \in reports'[e][g]
    BY <1>4 DEF Interrupt, NoSilentParking, Unsaid, Owed
  <2>2. a \notin reports[d][f] /\ Unsaid(announced[a])
    BY <1>0, <1>4, <2>1 DEF Interrupt, LoseNotices, Unsaid, Notices
  <2>3. PICK e \in Dispatchers, g \in Fibers : a \in reports[e][g]
    BY <2>1, <2>2 DEF NoSilentParking, Unsaid, Owed
  <2>4. reports'[e][g] = reports[e][g]
    BY <1>0, <1>4, <2>2, <2>3 DEF Interrupt
  <2>5. QED
    BY <2>3, <2>4
<1>5. QED
  BY <1>1, <1>2, <1>3, <1>4
     DEF vars, Deliver, Tick, Select, Skip, Start, HandlerExit, StorageFault, Finish

\* No parking goes unannounced, however many lanes and handler fibers run, unless its
\* notice was lost: until it is sent, a fiber has it still to send.
THEOREM ParkingsAreAnnounced == Spec => []NoSilentParking
<1>1. Init => NoSilentParking
  BY DEF Init, NoSilentParking, Parked
<1>2. IInv /\ NoSilentParking /\ [Next]_vars => NoSilentParking'
  BY TransactionNotices, RowEndNotices, OtherNotices DEF Next, Lane
<1>3. QED
  BY <1>1, <1>2, Invariance, PTL DEF Spec

-----------------------------------------------------------------------------
(* One notice per parked episode, unless an older one was still under way.  *)

UniquelyOwed(a) ==
    \A d, e \in Dispatchers, f, g \in Fibers :
        a \in reports[d][f] /\ a \in reports[e][g] => d = e /\ f = g

\* An episode that overtook no notice has one fiber to announce it at most, and none
\* once it was announced.
DueOnce ==
    \A a \in Alarms :
        /\ ~ Parked(rows[a]) => announced[a].sent = 0
        /\ Parked(rows[a]) /\ ~ announced[a].overtaken =>
              /\ announced[a].sent <= 1
              /\ Owed(a) => announced[a].sent = 0
              /\ UniquelyOwed(a)

\* The same of a view, whose parkings another fiber will announce.
Told(view) ==
    \A a \in Alarms :
        /\ ~ Parked(view.rows[a]) => view.announced[a].sent = 0
        /\ Parked(view.rows[a]) /\ ~ view.announced[a].overtaken =>
              /\ view.announced[a].sent <= 1
              /\ Owed(a) \/ a \in view.parks => view.announced[a].sent = 0
              /\ UniquelyOwed(a)
              /\ a \in view.parks => ~ Owed(a)

LEMMA MutatedTold ==
    ASSUME NEW view, ViewOK(view), NEW mutation, NEW source, NEW self, NEW result,
           Mutated(view, mutation, source, self, result), Told(view)
    PROVE  Told(result)
<1> DEFINE a == mutation.id
           owed == Owed(a) \/ a \in view.parks
<1>0. /\ a \in Alarms /\ view.rows \in [Alarms -> Rows]
      /\ view.announced \in [Alarms -> Notices] /\ view.parks \subseteq Alarms
  BY DEF ViewOK, Mutated
<1>1. CASE /\ result.rows = [view.rows EXCEPT ![a] = NoRow]
           /\ result.parks = view.parks
           /\ result.announced = [view.announced EXCEPT ![a] = NoNotices]
  <2> HIDE DEF a
  <2>1. QED
    BY <1>0, <1>1 DEF Told, Parked, NoNotices
<1>2. CASE result = view
  BY <1>2
<1>3. ASSUME NEW row \in Row,
             result.rows = [view.rows EXCEPT ![a] = row],
             result.announced = [view.announced EXCEPT ![a] =
                                    Episode(view.rows[a], source, row, @, owed)],
             result.parks = IF Parks(view.rows[a], source, row)
                            THEN view.parks \cup {a} ELSE view.parks
      PROVE  Told(result)
  <2> DEFINE notices == Episode(view.rows[a], source, row, view.announced[a], owed)
  <2>1. /\ result.rows[a] = row /\ result.announced[a] = notices
        /\ \A b \in Alarms \ {a} : /\ result.rows[b] = view.rows[b]
                                   /\ result.announced[b] = view.announced[b]
                                   /\ b \in result.parks => b \in view.parks
    <3> HIDE DEF a, owed
    <3>1. QED
      BY <1>0, <1>3
  <2>2. ~ Parked(row) => notices.sent = 0
    BY DEF Episode, NoNotices
  <2>3. CASE Parked(row) /\ Parked(view.rows[a])
    <3>1. notices = view.announced[a] /\ ~ Parks(view.rows[a], source, row)
      BY <2>3 DEF Episode, Parks, Parked
    <3> HIDE DEF a, owed, notices
    <3>2. QED
      BY <1>0, <1>3, <2>1, <2>3, <3>1 DEF Told
  <2>4. CASE Parked(row) /\ ~ Parked(view.rows[a])
    <3>1. /\ notices.overtaken = owed /\ notices.sent <= 1
          /\ Parks(view.rows[a], source, row) => notices.sent = 0
      BY <2>4 DEF Episode, Parks, Parked
    <3>2. ~ owed => ~ Owed(a) /\ a \notin view.parks /\ UniquelyOwed(a)
      BY DEF UniquelyOwed, Owed
    <3> HIDE DEF a, owed, notices
    <3>3. QED
      BY <1>0, <1>3, <2>1, <2>4, <3>1, <3>2 DEF Told
  <2>5. CASE ~ Parked(row)
    <3> HIDE DEF a, owed, notices
    <3>1. QED
      BY <1>0, <1>3, <2>1, <2>2, <2>5 DEF Told
  <2>6. QED
    BY <2>3, <2>4, <2>5
<1>4. QED
  BY <1>1, <1>2, <1>3 DEF Mutated

LEMMA RunTold ==
    ASSUME IInv, DueOnce, NEW closure \in Closures, NEW source \in Rows, NEW self
    PROVE  Told(Run(closure, source, self))
<1>1. ViewOK(View(rows)) /\ Told(View(rows))
  BY CommittedView DEF Told, View, DueOnce
<1>2. QED
  BY <1>1, RunMutates, MutatedTold

LEMMA TransactionDueOnce ==
    ASSUME IInv, DueOnce,
           External \/ \E d \in Dispatchers, f \in Fibers : HandlerTransaction(d, f)
    PROVE  DueOnce'
<1>1. CASE External
  <2>1. PICK closure \in Closures : Commit(Run(closure, NoRow, NoAlarm))
    BY <1>1 DEF External
  <2> DEFINE view == Run(closure, NoRow, NoAlarm)
  <2>2. Told(view) /\ reports' = reports
    BY <1>1, RunTold DEF External, Rows
  <2>3. rows' = view.rows /\ announced' = view.announced
    BY <2>1 DEF Commit
  <2> HIDE DEF view
  <2>4. QED
    BY <2>2, <2>3 DEF DueOnce, Told, Owed, UniquelyOwed
<1>2. ASSUME NEW d \in Dispatchers, NEW f \in Fibers, HandlerTransaction(d, f)
      PROVE  DueOnce'
  <2>1. batch[handled[d]] \in Rows
    BY <1>2, HandledRow DEF HandlerTransaction, InPass, Rows
  <2>2. PICK closure \in Closures :
          LET view == Run(closure, batch[handled[d]], handled[d])
          IN  /\ Commit(view)
              /\ reports' = [reports EXCEPT ![d][f] = view.parks]
    BY <1>2 DEF HandlerTransaction
  <2> DEFINE view == Run(closure, batch[handled[d]], handled[d])
  <2>3. Told(view)
    BY <2>1, RunTold
  <2>4. rows' = view.rows /\ announced' = view.announced
    BY <2>2 DEF Commit
  <2>5. ASSUME NEW a \in Alarms, NEW e \in Dispatchers, NEW g \in Fibers
        PROVE  a \in reports'[e][g] =>
                 a \in reports[e][g] \/ (e = d /\ g = f /\ a \in view.parks)
    BY <2>2 DEF IInv, TypeOK
  <2> HIDE DEF view
  <2>6. SUFFICES ASSUME NEW a \in Alarms
                 PROVE  /\ ~ Parked(view.rows[a]) => view.announced[a].sent = 0
                        /\ Parked(view.rows[a]) /\ ~ view.announced[a].overtaken =>
                              /\ view.announced[a].sent <= 1
                              /\ Owed(a)' => view.announced[a].sent = 0
                              /\ UniquelyOwed(a)'
    BY <2>4 DEF DueOnce
  <2>7. Owed(a)' => Owed(a) \/ a \in view.parks
    BY <2>5 DEF Owed
  <2>8. CASE a \in view.parks /\ ~ Owed(a)
    BY <2>3, <2>5, <2>7, <2>8 DEF Told, Owed, UniquelyOwed
  <2>9. CASE a \notin view.parks
    BY <2>3, <2>5, <2>7, <2>9 DEF Told, UniquelyOwed
  <2>10. QED
    BY <2>3, <2>7, <2>8, <2>9 DEF Told
<1>3. QED
  BY <1>1, <1>2

LEMMA RowEndDueOnce ==
    ASSUME IInv, DueOnce, NEW d \in Dispatchers, Succeed(d) \/ SkipFailed(d) \/ RetryFailed(d)
    PROVE  DueOnce'
<1> DEFINE a == handled[d]
<1>0. /\ rows \in [Alarms -> Rows] /\ announced \in [Alarms -> Notices]
      /\ reports \in [Dispatchers -> [Fibers -> SUBSET Alarms]] /\ Main \in Fibers
  BY SchedulerAssumption DEF IInv, TypeOK, Rows
<1>1. a \in Alarms
  BY RowEndCommits
<1>2. ASSUME NEW b \in Alarms, NEW e \in Dispatchers, NEW g \in Fibers
      PROVE  b \in reports'[e][g] =>
               \/ b \in reports[e][g]
               \/ e = d /\ g = Main /\ b = a /\ ~ Parked(rows[a]) /\ Current(d)
  <2>1. CASE reports' = reports
    BY <2>1
  <2>2. CASE reports' = [reports EXCEPT ![d][Main] = {}]
    BY <1>0, <2>2
  <2>3. CASE reports' = [reports EXCEPT ![d][Main] = {a}] /\ Current(d) /\ ~ Parked(rows[a])
    BY <1>0, <2>3
  <2>4. QED
    BY <2>1, <2>2, <2>3, RowEndCommits
<1>3. ASSUME NEW b \in Alarms, b # a \/ Parked(rows[a]) \/ ~ Current(d)
      PROVE  (Owed(b)' => Owed(b)) /\ (UniquelyOwed(b) => UniquelyOwed(b)')
  BY <1>2, <1>3 DEF Owed, UniquelyOwed
<1>4. ASSUME NEW b \in Alarms, ~ Owed(b) PROVE UniquelyOwed(b)'
  BY <1>2, <1>4 DEF Owed, UniquelyOwed
<1>5. CASE rows' = rows /\ announced' = announced
  <2>1. SUFFICES ASSUME NEW b \in Alarms, Parked(rows[b]), ~ announced[b].overtaken
                 PROVE  (Owed(b)' => announced[b].sent = 0) /\ UniquelyOwed(b)'
    BY <1>5 DEF DueOnce
  <2>2. b # a \/ Parked(rows[a])
    BY <2>1
  <2>3. QED
    BY <1>3, <2>1, <2>2 DEF DueOnce
<1>6. ASSUME NEW row, Current(d), rows' = [rows EXCEPT ![a] = row],
             announced' = [announced EXCEPT ![a] = Episode(rows[a], NoRow, row, @, Owed(a))]
      PROVE  DueOnce'
  <2>1. /\ rows'[a] = row
        /\ announced'[a] = Episode(rows[a], NoRow, row, announced[a], Owed(a))
        /\ \A b \in Alarms \ {a} : rows'[b] = rows[b] /\ announced'[b] = announced[b]
    BY <1>0, <1>1, <1>6
  <2>2. rows[a] # NoRow
    BY <1>6 DEF Current, HasRevision
  <2>3. SUFFICES ASSUME NEW b \in Alarms
                 PROVE  /\ ~ Parked(rows'[b]) => announced'[b].sent = 0
                        /\ Parked(rows'[b]) /\ ~ announced'[b].overtaken =>
                              /\ announced'[b].sent <= 1
                              /\ Owed(b)' => announced'[b].sent = 0
                              /\ UniquelyOwed(b)'
    BY DEF DueOnce
  <2>4. CASE b # a
    <3> HIDE DEF a
    <3>1. QED
      BY <1>3, <2>1, <2>4 DEF DueOnce
  <2>5. CASE b = a
    <3>1. CASE ~ Parked(row)
      BY <2>1, <2>5, <3>1 DEF Episode, NoNotices
    <3>2. CASE Parked(row) /\ Parked(rows[a])
      <4>1. announced'[a] = announced[a]
        BY <2>1, <3>2 DEF Episode
      <4> HIDE DEF a
      <4>2. QED
        BY <1>3, <2>1, <2>5, <3>2, <4>1 DEF DueOnce
    <3>3. CASE Parked(row) /\ ~ Parked(rows[a])
      <4>1. announced'[a] = [sent |-> 0, lost |-> FALSE, overtaken |-> Owed(a)]
        BY <2>1, <2>2, <3>3 DEF Episode
      <4>2. ~ Owed(b) => UniquelyOwed(b)'
        BY <1>4
      <4> HIDE DEF a
      <4>3. QED
        BY <2>1, <2>5, <3>3, <4>1, <4>2
    <3>4. QED
      BY <3>1, <3>2, <3>3
  <2>6. QED
    BY <2>4, <2>5
<1>7. QED
  BY <1>5, <1>6, RowEndCommits

\* A fiber that sends, loses or drops its notices leaves the other fibers theirs.
LEMMA OtherDueOnce ==
    ASSUME IInv, DueOnce,
           \/ UNCHANGED vars \/ Deliver \/ Restart \/ Tick
           \/ \E d \in Dispatchers : \/ Select(d) \/ Skip(d) \/ Start(d) \/ HandlerExit(d)
                                     \/ StorageFault(d) \/ Finish(d)
           \/ \E d \in Dispatchers, f \in Fibers : Report(d, f) \/ Interrupt(d, f)
    PROVE  DueOnce'
<1>0. /\ reports \in [Dispatchers -> [Fibers -> SUBSET Alarms]]
      /\ announced \in [Alarms -> Notices]
  BY DEF IInv, TypeOK
<1>1. CASE rows' = rows /\ announced' = announced /\ reports' = reports
  BY <1>1 DEF DueOnce, Owed, UniquelyOwed
<1>2. ASSUME NEW alarms, LoseNotices(alarms), rows' = rows,
             \A d \in Dispatchers, f \in Fibers : reports'[d][f] \subseteq reports[d][f]
      PROVE  DueOnce'
  <2>1. \A a \in Alarms : /\ announced'[a].sent = announced[a].sent
                          /\ announced'[a].overtaken = announced[a].overtaken
    BY <1>0, <1>2 DEF LoseNotices, Notices
  <2>2. \A a \in Alarms : (Owed(a)' => Owed(a)) /\ (UniquelyOwed(a) => UniquelyOwed(a)')
    BY <1>2 DEF Owed, UniquelyOwed
  <2>3. QED
    BY <1>2, <2>1, <2>2 DEF DueOnce
<1>3. CASE Restart
  <2>1. \A d \in Dispatchers, f \in Fibers : reports'[d][f] \subseteq reports[d][f]
    BY <1>3 DEF Restart
  <2>2. QED
    BY <1>2, <1>3, <2>1 DEF Restart
<1>4. ASSUME NEW d \in Dispatchers, NEW f \in Fibers, Interrupt(d, f) PROVE DueOnce'
  <2>1. \A e \in Dispatchers, g \in Fibers : reports'[e][g] \subseteq reports[e][g]
    BY <1>0, <1>4 DEF Interrupt
  <2>2. QED
    BY <1>2, <1>4, <2>1 DEF Interrupt
<1>5. ASSUME NEW d \in Dispatchers, NEW f \in Fibers, Report(d, f) PROVE DueOnce'
  <2>1. PICK a \in reports[d][f] :
          /\ reports' = [reports EXCEPT ![d][f] = @ \ {a}]
          /\ announced' = IF Parked(rows[a])
                          THEN [announced EXCEPT ![a].sent = MinOf(2, @ + 1)] ELSE announced
    BY <1>5 DEF Report
  <2>2. rows' = rows /\ a \in Alarms /\ Owed(a)
    BY <1>0, <1>5, <2>1 DEF Report, Owed
  <2>3. ASSUME NEW e \in Dispatchers, NEW g \in Fibers
        PROVE  /\ reports'[e][g] \subseteq reports[e][g]
               /\ e = d /\ g = f => a \notin reports'[e][g]
    BY <1>0, <2>1
  <2>4. \A b \in Alarms : (Owed(b)' => Owed(b)) /\ (UniquelyOwed(b) => UniquelyOwed(b)')
    BY <2>3 DEF Owed, UniquelyOwed
  <2>5. UniquelyOwed(a) => ~ Owed(a)'
    BY <2>1, <2>3 DEF Owed, UniquelyOwed
  <2>6. /\ \A b \in Alarms \ {a} : announced'[b] = announced[b]
        /\ announced'[a].overtaken = announced[a].overtaken
        /\ ~ Parked(rows[a]) => announced'[a] = announced[a]
        /\ announced[a].sent = 0 => announced'[a].sent <= 1
    BY <1>0, <2>1, <2>2 DEF Notices, MinOf
  <2>7. QED
    BY <2>2, <2>4, <2>5, <2>6 DEF DueOnce
<1>6. QED
  BY <1>1, <1>3, <1>4, <1>5
     DEF vars, Deliver, Tick, Select, Skip, Start, HandlerExit, StorageFault, Finish

\* A parking is announced once at most, unless its episode began while a fiber had an
\* older notice of its alarm still to send: then, as the notices run shows, that fiber
\* announces the new episode too.
THEOREM EpisodesAreAnnouncedOnce == Spec => []AnnouncedOncePerEpisode
<1>1. Init => DueOnce
  BY DEF Init, DueOnce, Parked, NoNotices
<1>2. IInv /\ DueOnce /\ [Next]_vars => DueOnce'
  BY TransactionDueOnce, RowEndDueOnce, OtherDueOnce DEF Next, Lane
<1>3. DueOnce => AnnouncedOncePerEpisode
  BY DEF DueOnce, AnnouncedOncePerEpisode
<1>4. QED
  BY <1>1, <1>2, <1>3, Invariance, PTL DEF Spec

-----------------------------------------------------------------------------
(* Charged attempts are not forgiven.                                       *)

\* What a pass selected was consistent when it did.
GoodBatch == \A a \in Alarms : batch[a] # NoRow => Good(batch[a])

LEMMA GoodBatchStep == IInv /\ GoodBatch /\ [Next]_vars => GoodBatch'
<1> SUFFICES ASSUME IInv, GoodBatch, [Next]_vars PROVE GoodBatch'
  OBVIOUS
<1>1. CASE batch' = batch
  BY <1>1 DEF GoodBatch
<1>2. CASE \A a \in Alarms : batch'[a] \in {batch[a], NoRow}
  BY <1>2 DEF GoodBatch
<1>3. ASSUME NEW d \in Dispatchers, Select(d) PROVE GoodBatch'
  BY <1>3 DEF Select, GoodBatch, IInv, GoodRows
<1>4. ASSUME NEW d \in Dispatchers, Skip(d) \/ Succeed(d) \/ SkipFailed(d) \/ RetryFailed(d)
                                    \/ StorageFault(d)
      PROVE  \A a \in Alarms : batch'[a] \in {batch[a], NoRow}
  BY <1>4 DEF IInv, TypeOK, Skip, Succeed, SkipFailed, RetryFailed, StorageFault, Advance, Abandon
<1>5. CASE Restart
  BY <1>5, <1>2 DEF Restart
<1>6. QED
  BY <1>1, <1>2, <1>3, <1>4, <1>5
     DEF Next, Lane, vars, External, Deliver, Tick, Start, HandlerTransaction, HandlerExit,
         Report, Interrupt, Finish

LEMMA BatchInvariance == Spec => []GoodBatch
<1>1. Init => GoodBatch
  BY DEF Init, GoodBatch
<1>2. QED
  BY <1>1, GoodBatchStep, Invariance, PTL DEF Spec

\* A write in a pass keeps the known cursor, and forgives the attempts only for
\* a cursor beyond it or beyond the pass's.
LEMMA ScheduledCharge ==
    ASSUME NEW input \in Input, NEW existing \in Rows, existing # NoRow => Good(existing),
           NEW source \in Row, Good(source), NEW same \in BOOLEAN,
           NEW limit \in 1..MaxBudget, NEW time, NEW revision
    PROVE  LET row == Scheduled(input, existing, source, same, limit, time, revision)
               known == KnownProgress(existing, source)
           IN  /\ row.progress >= known
               /\ row.attempts = 0 => row.progress > known \/ row.progress > source.progress
<1> DEFINE row == Scheduled(input, existing, source, same, limit, time, revision)
           known == KnownProgress(existing, source)
<1>1. known \in Nat \cup {NoProgress} /\ input.progress \in Nat \cup {NoProgress}
  BY DEF Rows, Row, Input, KnownProgress
<1>2. source # NoRow
  BY RowAssumption
<1>3. /\ row.progress = MaxOf(known, input.progress)
      /\ row.attempts = ScheduledAttempts(input, existing, source, same, limit)
  BY DEF Scheduled
<1>4. source.attempts \in Nat /\ (Parked(source) => source.attempts > 0)
  BY DelayAssumption DEF Row, Good, Consistent, Parked
<1>5. Attempts(existing) \in Nat /\ (Parked(existing) => Attempts(existing) > 0)
  BY DelayAssumption DEF Rows, Row, Good, Consistent, Parked, Attempts
<1>6. ScheduledAttempts(input, existing, source, same, limit) = 0 =>
          Replenished(input, existing, source, same)
  BY <1>4, <1>5, DelayAssumption DEF ScheduledAttempts, MaxOf, MinOf
<1>7. Replenished(input, existing, source, same) =>
          input.progress > known \/ known > source.progress
  BY <1>2 DEF Replenished
<1>8. source.progress \in Int
  BY DEF Row, NoProgress
<1> HIDE DEF row, known
<1>9. row.progress >= known /\ row.progress >= input.progress
  BY <1>1, <1>3 DEF MaxOf, NoProgress
<1>10. row.attempts = 0 => row.progress > known \/ row.progress > source.progress
  BY <1>1, <1>3, <1>6, <1>7, <1>8 DEF MaxOf, NoProgress
<1>11. QED
  BY <1>9, <1>10 DEF row, known

\* A row of the view knows the cursor of the committed row or of the pass, and one
\* beyond it if the attempts charged to the committed row are gone.
Charged(view, source) ==
    \A a \in Alarms : rows[a] # NoRow /\ view.rows[a] # NoRow =>
        /\ view.rows[a].progress >= rows[a].progress \/ view.rows[a].progress >= source.progress
        /\ Attempts(rows[a]) > 0 /\ Attempts(view.rows[a]) = 0 =>
               view.rows[a].progress > rows[a].progress \/ view.rows[a].progress > source.progress

LEMMA MutatedCharged ==
    ASSUME IInv, NEW view, ViewOK(view), NEW mutation, NEW source \in Row, Good(source),
           NEW self, NEW result, Mutated(view, mutation, source, self, result),
           Charged(view, source)
    PROVE  Charged(result, source)
<1> DEFINE a == mutation.id
<1>0. a \in Alarms /\ view.rows \in [Alarms -> Rows] /\ rows \in [Alarms -> Rows]
  BY DEF ViewOK, Mutated, IInv, TypeOK, Rows
<1>1. CASE result.rows = [view.rows EXCEPT ![a] = NoRow]
  <2> HIDE DEF a
  <2>1. QED
    BY <1>0, <1>1 DEF Charged
<1>2. CASE result = view
  BY <1>2
<1>3. ASSUME NEW row \in Row, mutation.input \in Input,
             row = Scheduled(mutation.input, view.rows[a], source, a = self,
                             budget, now, NewRevision(a)),
             result.rows = [view.rows EXCEPT ![a] = row]
      PROVE  Charged(result, source)
  <2> DEFINE known == KnownProgress(view.rows[a], source)
             same == a = self
  <2>1. /\ row.progress >= known
        /\ row.attempts = 0 => row.progress > known \/ row.progress > source.progress
    <3>1. same \in BOOLEAN /\ budget \in 1..MaxBudget
      BY SchedulerAssumption DEF IInv, TypeOK
    <3>2. view.rows[a] \in Rows /\ (view.rows[a] # NoRow => Good(view.rows[a]))
      BY <1>0 DEF ViewOK
    <3>3. row = Scheduled(mutation.input, view.rows[a], source, same,
                          budget, now, NewRevision(a))
      BY <1>3
    <3> HIDE DEF a, same, known
    <3>4. LET new == Scheduled(mutation.input, view.rows[a], source, same,
                               budget, now, NewRevision(a))
          IN  /\ new.progress >= KnownProgress(view.rows[a], source)
              /\ new.attempts = 0 =>
                    \/ new.progress > KnownProgress(view.rows[a], source)
                    \/ new.progress > source.progress
      BY <1>3, <3>1, <3>2, ScheduledCharge
    <3>5. QED
      BY <3>3, <3>4 DEF known
  <2>2. SUFFICES ASSUME NEW b \in Alarms, rows[b] # NoRow, result.rows[b] # NoRow
                 PROVE  /\ \/ result.rows[b].progress >= rows[b].progress
                           \/ result.rows[b].progress >= source.progress
                        /\ Attempts(rows[b]) > 0 /\ Attempts(result.rows[b]) = 0 =>
                              \/ result.rows[b].progress > rows[b].progress
                              \/ result.rows[b].progress > source.progress
    BY DEF Charged
  <2>3. CASE b # a
    <3>1. result.rows[b] = view.rows[b]
      BY <1>0, <1>3, <2>3
    <3>2. QED
      BY <2>2, <3>1 DEF Charged
  <2>4. CASE b = a
    <3>1. result.rows[b] = row /\ row # NoRow
      BY <1>0, <1>3, <2>4, RowAssumption
    <3>2. /\ row.progress \in Int /\ source.progress \in Int /\ rows[b].progress \in Int
          /\ known \in Int
      BY <1>0, <2>2, <2>4 DEF Rows, Row, KnownProgress, NoProgress
    <3>3. known >= rows[b].progress \/ known >= source.progress
      <4>1. CASE view.rows[a] = NoRow
        BY <3>2, <4>1, RowAssumption DEF KnownProgress
      <4>2. CASE view.rows[a] # NoRow
        BY <2>2, <2>4, <4>2 DEF KnownProgress, Charged
      <4>3. QED
        BY <4>1, <4>2
    <3>4. Attempts(row) = row.attempts
      BY <3>1 DEF Attempts
    <3> HIDE DEF known, a
    <3>5. QED
      BY <2>1, <3>1, <3>2, <3>3, <3>4
  <2>5. QED
    BY <2>3, <2>4
<1>4. QED
  BY <1>1, <1>2, <1>3 DEF Mutated

LEMMA RunCharged ==
    ASSUME IInv, NEW closure \in Closures, NEW source \in Row, Good(source), NEW self
    PROVE  Charged(Run(closure, source, self), source)
<1>1. ViewOK(View(rows)) /\ Charged(View(rows), source)
  BY CommittedView DEF Charged, View, IInv, TypeOK, Row, Attempts, NoProgress
<1>2. source \in Rows
  BY DEF Rows
<1>3. QED
  BY <1>1, <1>2, RunMutates, MutatedCharged

\* An acknowledged row that is still there is a repeat; a failed one has attempts.
LEMMA RowEndCharge ==
    ASSUME IInv, NEW d \in Dispatchers, Succeed(d) \/ SkipFailed(d) \/ RetryFailed(d),
           NEW a \in Alarms, Attempts(rows[a]) > 0, rows'[a] # NoRow, Attempts(rows'[a]) = 0
    PROVE  Ends(d) /\ handled[d] = a /\ rows[a] = batch[a] /\ rows[a].every # NoTime
<1>1. phase[d] \in {"succeeded", "failed"}
  BY DEF Succeed, SkipFailed, RetryFailed
<1>2. rows'[a] # rows[a] /\ handled[d] \in Alarms
  BY <1>1, HandledRow DEF Attempts
<1>3. Ends(d)
  BY <1>2, RowEndEffect, SchedulerAssumption
     DEF Ends, Succeed, SkipFailed, RetryFailed, Acknowledge, IInv, TypeOK
<1>4. Current(d) /\ handled[d] = a
  BY <1>2, RowEndEffect DEF IInv, TypeOK
<1>5. rows[a] = batch[a] /\ rows[a] # NoRow
  BY <1>2, <1>4, CurrentRow
<1>6. rows[a] \in Row /\ Good(rows[a]) /\ rows \in [Alarms -> Rows]
  BY <1>5 DEF IInv, TypeOK, GoodRows, Rows
<1>7. CASE Succeed(d) \/ SkipFailed(d)
  <2>1. rows' = [rows EXCEPT ![a] = Acknowledged(rows[a], batch[a], now, NewRevision(a))]
    BY <1>4, <1>7 DEF Succeed, SkipFailed, Acknowledge, Commit, Settled, View
  <2>2. rows'[a] = Acknowledged(rows[a], batch[a], now, NewRevision(a))
    BY <1>6, <2>1
  <2>3. QED
    BY <1>3, <1>4, <1>5, <2>2 DEF Acknowledged
<1>8. CASE RetryFailed(d)
  <2>1. rows' = [rows EXCEPT ![a] = Failed(rows[a], batch[a], budget, now, NewRevision(a))]
    BY <1>4, <1>8 DEF RetryFailed, Commit, Settled, View
  <2>2. rows'[a].attempts = IF rows[a].parked THEN rows[a].attempts
                            ELSE MinOf(budget, rows[a].attempts + 1)
    BY <1>5, <1>6, <2>1 DEF Failed, Row
  <2>3. budget \in 1..MaxBudget /\ rows[a].attempts \in Nat
    BY <1>6, DelayAssumption, SchedulerAssumption DEF IInv, TypeOK, Row
  <2>4. rows'[a].attempts # 0
    BY <1>6, <2>2, <2>3, DelayAssumption DEF MinOf, Good, Consistent
  <2>5. QED
    BY <2>4 DEF Attempts
<1>9. QED
  BY <1>7, <1>8

LEMMA ChargeStep ==
    ASSUME IInv, GoodBatch, Next, NEW a \in Alarms,
           Attempts(rows[a]) > 0, rows'[a] # NoRow, Attempts(rows'[a]) = 0
    PROVE  \/ external' # external
           \/ rows'[a].progress > rows[a].progress
           \/ \E d \in Dispatchers : InPass(d) /\ rows'[a].progress > batch[handled[d]].progress
           \/ \E d \in Dispatchers : /\ Ends(d)
                                     /\ handled[d] = a
                                     /\ rows[a] = batch[a]
                                     /\ rows[a].every # NoTime
<1>1. rows' # rows
  OBVIOUS
<1>2. CASE External
  BY <1>2 DEF External, IInv, TypeOK
<1>3. ASSUME NEW d \in Dispatchers, NEW f \in Fibers, HandlerTransaction(d, f)
      PROVE  \/ rows'[a].progress > rows[a].progress
             \/ InPass(d) /\ rows'[a].progress > batch[handled[d]].progress
  <2>1. InPass(d) /\ handled[d] \in Alarms /\ batch[handled[d]] \in Row
    BY <1>3, HandledRow DEF HandlerTransaction, InPass
  <2>2. Good(batch[handled[d]])
    BY <2>1, RowAssumption DEF GoodBatch
  <2>3. PICK closure \in Closures :
          rows' = Run(closure, batch[handled[d]], handled[d]).rows
    BY <1>3 DEF HandlerTransaction, Commit
  <2>4. Charged(Run(closure, batch[handled[d]], handled[d]), batch[handled[d]])
    BY <2>1, <2>2, RunCharged
  <2>5. rows[a] # NoRow
    BY DEF Attempts
  <2>6. QED
    BY <2>1, <2>3, <2>4, <2>5 DEF Charged
<1>4. ASSUME NEW d \in Dispatchers, Succeed(d) \/ SkipFailed(d) \/ RetryFailed(d)
      PROVE  Ends(d) /\ handled[d] = a /\ rows[a] = batch[a] /\ rows[a].every # NoTime
  BY <1>4, RowEndCharge
<1>5. QED
  BY <1>1, <1>2, <1>3, <1>4
     DEF Next, Lane, Deliver, Restart, Tick, Select, Skip, Start, HandlerExit,
         Report, Interrupt, StorageFault, Finish

\* No chain of self-rearms, enrollments by other handlers, failures and deployments
\* clears the attempts charged to an alarm: only an incoming enrollment, new
\* progress or a completed occurrence does.
THEOREM BudgetsAreNotRefilled == Spec => BudgetNeverRefilled
<1>1. IInv /\ GoodBatch /\ [Next]_vars =>
        [\A a \in Alarms :
            Attempts(rows[a]) > 0 /\ rows'[a] # NoRow /\ Attempts(rows'[a]) = 0 =>
                \/ external' # external
                \/ rows'[a].progress > rows[a].progress
                \/ \E d \in Dispatchers :
                      InPass(d) /\ rows'[a].progress > batch[handled[d]].progress
                \/ \E d \in Dispatchers :
                      /\ Ends(d)
                      /\ handled[d] = a
                      /\ rows[a] = batch[a]
                      /\ rows[a].every # NoTime]_vars
  BY ChargeStep
<1>2. QED
  BY <1>1, Invariance, BatchInvariance, PTL DEF Spec, BudgetNeverRefilled

-----------------------------------------------------------------------------
(* Attempts are a full backoff apart.                                       *)

\* The handlers' own initial delay is no shorter than the scheduler's floor, and
\* neither is the backoff computed from it.
LEMMA RetryDelayMonotone ==
    ASSUME NEW attempts \in 1..MaxBudget, NEW parked \in BOOLEAN
    PROVE  RetryDelay(attempts, parked, InitialDelay) >= RetryDelay(attempts, parked, MinRetryDelay)
<1> DEFINE power == 2^(attempts - 1)
<1>1. power \in Nat
  <2>1. attempts - 1 \in 0..MaxBudget
    BY DelayAssumption
  <2>2. QED
    BY <2>1, PowerFact
<1> HIDE DEF power
<1>2. InitialDelay * power >= MinRetryDelay * power
  <2>1. PICK more \in Nat : InitialDelay = MinRetryDelay + more
    <3>1. InitialDelay - MinRetryDelay \in Nat
      BY DelayAssumption
    <3>2. InitialDelay = MinRetryDelay + (InitialDelay - MinRetryDelay)
      BY DelayAssumption
    <3>3. QED
      BY <3>1, <3>2
  <2>2. \A l, m, n \in Nat : (l + m) * n = l * n + m * n /\ m * n \in Nat /\ l * n \in Nat
    OBVIOUS
  <2>3. QED
    BY <1>1, <2>1, <2>2, DelayAssumption
<1>3. InitialDelay * power \in Nat /\ MinRetryDelay * power \in Nat
  <2>1. \A m, n \in Nat : m * n \in Nat
    OBVIOUS
  <2>2. QED
    BY <1>1, <2>1, DelayAssumption
<1>4. QED
  BY <1>2, <1>3, DelayAssumption DEF RetryDelay, MinOf, power

\* The row keeps its alarm waiting for a full backoff from a time on.
Waits(row, time) ==
    /\ row.attempts > 0
    /\ row.retryAt >= time + RetryDelay(row.attempts, row.parked, MinRetryDelay)

\* A row that a transaction wrote has a fresh budget, or waits from now on.
Delayed(view) ==
    \A a \in Alarms : view.rows[a] # NoRow =>
        \/ view.rows[a] = rows[a]
        \/ view.rows[a].attempts = 0
        \/ Waits(view.rows[a], now)

LEMMA MutatedDelayed ==
    ASSUME IInv, NEW view, ViewOK(view), NEW mutation, NEW source \in Rows,
           NEW self, NEW result, Mutated(view, mutation, source, self, result), Delayed(view)
    PROVE  Delayed(result)
<1> DEFINE a == mutation.id
<1>0. a \in Alarms /\ view.rows \in [Alarms -> Rows]
  BY DEF ViewOK, Mutated
<1>1. CASE result.rows = [view.rows EXCEPT ![a] = NoRow]
  <2> HIDE DEF a
  <2>1. QED
    BY <1>0, <1>1 DEF Delayed
<1>2. CASE result = view
  BY <1>2
<1>3. ASSUME NEW row \in Row,
             row = Scheduled(mutation.input, view.rows[a], source, a = self,
                             budget, now, NewRevision(a)),
             result.rows = [view.rows EXCEPT ![a] = row]
      PROVE  Delayed(result)
  <2>1. row.attempts = 0 \/ row.retryAt = now + RetryDelay(row.attempts, row.parked, MinRetryDelay)
    BY <1>3 DEF Scheduled
  <2>2. row.attempts = 0 \/ Waits(row, now)
    <3>1. row.attempts # 0 =>
             row.attempts > 0 /\ RetryDelay(row.attempts, row.parked, MinRetryDelay) \in Nat
      <4>1. row.attempts \in 0..MaxBudget /\ row.parked \in BOOLEAN
        BY <1>3 DEF Row
      <4>2. ASSUME row.attempts # 0 PROVE row.attempts \in 1..MaxBudget
        BY <4>1, <4>2, DelayAssumption
      <4>3. QED
        BY <4>1, <4>2, RetryDelayType, DelayAssumption
    <3>2. now \in Nat
      BY DEF IInv, TypeOK
    <3>3. QED
      BY <2>1, <3>1, <3>2 DEF Waits
  <2> HIDE DEF a
  <2>3. QED
    BY <1>0, <1>3, <2>2 DEF Delayed
<1>4. QED
  BY <1>1, <1>2, <1>3 DEF Mutated

LEMMA RunDelayed ==
    ASSUME IInv, NEW closure \in Closures, NEW source \in Rows, NEW self
    PROVE  Delayed(Run(closure, source, self))
<1>1. ViewOK(View(rows)) /\ Delayed(View(rows))
  BY CommittedView DEF Delayed, View
<1>2. QED
  BY <1>1, RunMutates, MutatedDelayed

\* The lane works on the alarm, and its row is still the one it took.
Held(a) == \E d \in Dispatchers : handled[d] = a /\ rows[a] = batch[a]

\* No attempt lies in the future, a pass holds due rows only, and a row whose last
\* attempt is charged to its budget waits for the backoff from that attempt on, but
\* while that attempt is under way.
BackoffOwed ==
    /\ \A a \in Alarms : attempted[a] <= now
    /\ \A a \in Alarms : batch[a] # NoRow => batch[a].wakeAt <= now
    /\ \A a \in Alarms : rows[a] # NoRow /\ attempted[a] # NoTime =>
          Waits(rows[a], attempted[a]) \/ Held(a)

\* An attempt earlier than the one the row waits from is waited for, too.
LEMMA WaitsLonger ==
    ASSUME NEW row \in Row, NEW time \in Nat, NEW last \in Nat, last <= time, Waits(row, time)
    PROVE  Waits(row, last)
<1>1. RetryDelay(row.attempts, row.parked, MinRetryDelay) \in Nat
  <2>1. row.attempts \in 1..MaxBudget /\ row.parked \in BOOLEAN
    BY DelayAssumption DEF Row, Waits
  <2>2. QED
    BY <2>1, RetryDelayType, DelayAssumption
<1>2. row.retryAt \in Int
  BY DEF Row, NoTime
<1>3. QED
  BY <1>1, <1>2 DEF Waits

\* A transaction outside the end of a row.
LEMMA TransactionOwes ==
    ASSUME IInv, BackoffOwed, NEW view, ViewOK(view), Delayed(view), Commit(view),
           UNCHANGED <<now, batch, handled>>
    PROVE  BackoffOwed'
<1>1. /\ now \in Nat /\ attempted \in [Alarms -> Nat \cup {NoTime}]
      /\ view.rows \in [Alarms -> Rows] /\ rows \in [Alarms -> Rows]
  BY DEF IInv, TypeOK, ViewOK, Rows
<1>2. \A a \in Alarms : attempted'[a] \in {attempted[a], NoTime}
  BY DEF Commit
<1>3. \A a \in Alarms : attempted'[a] <= now
  BY <1>1, <1>2 DEF BackoffOwed, NoTime
<1>4. ASSUME NEW a \in Alarms, view.rows[a] # NoRow, attempted'[a] # NoTime
      PROVE  Waits(view.rows[a], attempted'[a]) \/ Held(a)'
  <2>1. attempted'[a] = attempted[a] /\ attempted[a] \in Nat /\ attempted[a] <= now
    BY <1>1, <1>2, <1>4 DEF BackoffOwed
  <2>2. CASE view.rows[a] = rows[a]
    BY <1>4, <2>1, <2>2 DEF BackoffOwed, Held, Commit
  <2>3. CASE view.rows[a] # rows[a]
    <3>1. view.rows[a].attempts # 0
      BY <1>4, <2>1, <2>3 DEF Commit, Attempts
    <3>2. Waits(view.rows[a], now) /\ view.rows[a] \in Row
      BY <1>1, <1>4, <2>3, <3>1 DEF Delayed, Rows
    <3>3. QED
      BY <1>1, <2>1, <3>2, WaitsLonger
  <2>4. QED
    BY <2>2, <2>3
<1>5. rows' = view.rows
  BY DEF Commit
<1>6. QED
  BY <1>3, <1>4, <1>5 DEF BackoffOwed

\* The lane lets go of its row: acknowledged, it has a fresh budget; charged, it
\* waits from now on; and a newer row waited already.
LEMMA RowEndOwes ==
    ASSUME IInv, BackoffOwed, NEW d \in Dispatchers,
           Succeed(d) \/ SkipFailed(d) \/ RetryFailed(d)
    PROVE  BackoffOwed'
<1> DEFINE a == handled[d]
<1>1. phase[d] \in {"succeeded", "failed"} /\ (Advance(d) \/ Abandon(d)) /\ now' = now
  BY DEF Succeed, SkipFailed, RetryFailed, Acknowledge
<1>2. a \in Alarms /\ Owner[a] = d /\ batch[a] \in Row /\ batch[a] # NoRow
  BY <1>1, HandledRow, RowAssumption
<1>3. /\ handled' = [handled EXCEPT ![d] = NoAlarm] /\ handled \in [Dispatchers -> Alarms \cup {NoAlarm}]
      /\ \A b \in Alarms : batch'[b] \in {batch[b], NoRow}
      /\ \A b \in Alarms : Owner[b] # d => batch'[b] = batch[b]
  BY <1>1, AdvanceLane, RowEndEffect DEF IInv, TypeOK
<1>4. /\ now \in Nat /\ attempted \in [Alarms -> Nat \cup {NoTime}]
      /\ rows \in [Alarms -> Rows]
  BY DEF IInv, TypeOK, Rows
<1>5. \A b \in Alarms : Held(b) /\ b # a => \E e \in Dispatchers \ {d} : handled[e] = b /\ Owner[b] = e
  BY SchedulerAssumption DEF Held, IInv, LaneConsistent, Batched
<1>6. \A b \in Alarms \ {a} : rows'[b] = rows[b]
  BY <1>2, <1>4, RowEndEffect
<1>7. \A b \in Alarms \ {a} : Held(b) => Held(b)'
  <2>1. SUFFICES ASSUME NEW b \in Alarms \ {a}, Held(b) PROVE Held(b)'
    OBVIOUS
  <2>2. PICK e \in Dispatchers \ {d} : handled[e] = b /\ Owner[b] = e
    BY <1>5, <2>1
  <2>3. handled'[e] = b /\ batch'[b] = batch[b] /\ rows'[b] = rows[b]
    BY <1>3, <1>6, <2>2
  <2>4. QED
    BY <2>1, <2>3 DEF Held
<1>8. \E view : /\ Commit(view)
                /\ \/ ~ Current(d) /\ view.rows = rows
                   \/ \E row : /\ Current(d)
                               /\ view.rows = [rows EXCEPT ![a] = row]
                               /\ row = NoRow \/ (row \in Row /\ row.revision = NewRevision(a))
                               /\ row # NoRow => row.attempts = 0 \/ Waits(row, now)
  <2>1. CASE ~ Current(d)
    BY <2>1 DEF Succeed, SkipFailed, RetryFailed, Acknowledge, View
  <2>2. CASE Current(d)
    <3>1. rows[a] = batch[a] /\ rows[a] \in Row /\ Good(rows[a])
      BY <1>2, <2>2, CurrentRow DEF IInv, GoodRows
    <3>2. NewRevision(a) \in Revisions /\ budget \in 1..MaxBudget
      BY <1>2, FreshRevision, SchedulerAssumption DEF IInv, TypeOK
    <3>3. CASE Succeed(d) \/ SkipFailed(d)
      <4> DEFINE row == Acknowledged(rows[a], batch[a], now, NewRevision(a))
      <4>1. Commit(Settled(d, row))
        BY <2>2, <3>3 DEF Succeed, SkipFailed, Acknowledge
      <4>2. row = NoRow \/ (row \in Row /\ row.revision = NewRevision(a))
        <5>1. row = Acknowledged(rows[a], rows[a], now, NewRevision(a))
          BY <3>1
        <5> HIDE DEF a, row
        <5>2. QED
          BY <1>4, <3>1, <3>2, <5>1, AcknowledgedRow
      <4>3. row = NoRow \/ row.attempts = 0
        BY <3>1 DEF Acknowledged, Row
      <4> HIDE DEF row
      <4>4. Settled(d, row).rows = [rows EXCEPT ![a] = row]
        BY DEF Settled, View
      <4>5. QED
        BY <2>2, <4>1, <4>2, <4>3, <4>4
    <3>4. CASE RetryFailed(d)
      <4> DEFINE row == Failed(rows[a], batch[a], budget, now, NewRevision(a))
      <4>1. Commit(Settled(d, row))
        BY <2>2, <3>4 DEF RetryFailed
      <4>2. row \in Row /\ Good(row) /\ row.revision = NewRevision(a)
        <5>1. row = Failed(rows[a], rows[a], budget, now, NewRevision(a))
          BY <3>1
        <5> HIDE DEF a, row
        <5>2. QED
          BY <1>4, <3>1, <3>2, <5>1, FailedRow
      <4>3. row.retryAt = now + RetryDelay(row.attempts, row.parked, InitialDelay)
        BY <3>1 DEF Failed, Row
      <4> HIDE DEF row
      <4>5. row.attempts = 0 \/ Waits(row, now)
        <5>1. CASE row.attempts # 0
          <6>1. row.attempts \in 1..MaxBudget /\ row.parked \in BOOLEAN
            BY <4>2, <5>1, DelayAssumption DEF Row
          <6>2. /\ RetryDelay(row.attempts, row.parked, InitialDelay) \in Nat
                /\ RetryDelay(row.attempts, row.parked, MinRetryDelay) \in Nat
            BY <6>1, RetryDelayType, DelayAssumption
          <6>3. RetryDelay(row.attempts, row.parked, InitialDelay)
                   >= RetryDelay(row.attempts, row.parked, MinRetryDelay)
            BY <6>1, RetryDelayMonotone
          <6>4. QED
            BY <1>4, <4>3, <6>1, <6>2, <6>3 DEF Waits
        <5>2. QED
          BY <5>1
      <4>6. Settled(d, row).rows = [rows EXCEPT ![a] = row]
        BY DEF Settled, View
      <4>7. QED
        BY <2>2, <4>1, <4>2, <4>5, <4>6
    <3>5. QED
      BY <3>3, <3>4
  <2>3. QED
    BY <2>1, <2>2
<1>9. PICK view : /\ Commit(view)
                  /\ \/ ~ Current(d) /\ view.rows = rows
                     \/ \E row : /\ Current(d)
                                 /\ view.rows = [rows EXCEPT ![a] = row]
                                 /\ row = NoRow \/ (row \in Row /\ row.revision = NewRevision(a))
                                 /\ row # NoRow => row.attempts = 0 \/ Waits(row, now)
  BY <1>8
<1>10. \A b \in Alarms : attempted'[b] \in {attempted[b], NoTime}
  BY <1>9 DEF Commit
<1>11. \A b \in Alarms : attempted'[b] <= now'
  BY <1>1, <1>4, <1>10 DEF BackoffOwed, NoTime
<1>12. \A b \in Alarms : batch'[b] # NoRow => batch'[b].wakeAt <= now'
  BY <1>1, <1>3 DEF BackoffOwed
<1>13. ASSUME NEW b \in Alarms \ {a}, rows'[b] # NoRow, attempted'[b] # NoTime
       PROVE  Waits(rows'[b], attempted'[b]) \/ Held(b)'
  BY <1>6, <1>7, <1>10, <1>13 DEF BackoffOwed
<1>14. ASSUME rows'[a] # NoRow, attempted'[a] # NoTime
       PROVE  Waits(rows'[a], attempted'[a])
  <2>1. attempted'[a] = attempted[a] /\ attempted[a] \in Nat /\ attempted[a] <= now
    BY <1>2, <1>4, <1>10, <1>14 DEF BackoffOwed
  <2>2. CASE ~ Current(d) /\ view.rows = rows
    <3>1. rows[a] # batch[a] /\ rows'[a] = rows[a]
      BY <1>9, <1>14, <2>2 DEF Current, HasRevision, Commit
    <3>2. QED
      BY <1>2, <1>14, <2>1, <3>1 DEF BackoffOwed, Held
  <2>3. ASSUME NEW row, Current(d), view.rows = [rows EXCEPT ![a] = row],
               row = NoRow \/ (row \in Row /\ row.revision = NewRevision(a)),
               row # NoRow => row.attempts = 0 \/ Waits(row, now)
        PROVE  Waits(rows'[a], attempted'[a])
    <3>1. rows'[a] = row /\ row # NoRow /\ row \in Row
      BY <1>2, <1>4, <1>9, <1>14, <2>3 DEF Commit
    <3>2. row # rows[a]
      BY <1>2, <2>3, <3>1, FreshRevision DEF IInv, HasRevision
    <3>3. row.attempts # 0
      BY <1>2, <1>4, <1>9, <1>14, <2>3, <3>1, <3>2 DEF Commit, Attempts
    <3>4. Waits(row, attempted[a])
      BY <1>4, <2>1, <2>3, <3>1, <3>3, WaitsLonger
    <3>5. QED
      BY <2>1, <3>1, <3>4
  <2>4. QED
    BY <1>9, <2>2, <2>3
<1>15. QED
  BY <1>2, <1>11, <1>12, <1>13, <1>14 DEF BackoffOwed

\* A lane takes a row of its own while it holds none.
LEMMA NotHeld ==
    ASSUME IInv, NEW d \in Dispatchers, Idle(d), NEW a \in Alarms, First(d, a)
    PROVE  ~ Held(a)
<1>1. handled[d] = NoAlarm /\ Owner[a] = d
  BY DEF Idle, First, Batched, IInv, LaneConsistent
<1>2. \A e \in Dispatchers : handled[e] = a => Owner[a] = e
  BY SchedulerAssumption DEF IInv, LaneConsistent, Batched
<1>3. QED
  BY <1>1, <1>2, SchedulerAssumption DEF Held

\* An attempt begins when its row's wait is over.
LEMMA StartWaited ==
    ASSUME IInv, BackoffOwed, NEW d \in Dispatchers, Start(d),
           NEW a \in Alarms, handled'[d] = a, attempted[a] # NoTime
    PROVE  /\ rows[a].attempts > 0
           /\ now >= attempted[a] + RetryDelay(rows[a].attempts, rows[a].parked, MinRetryDelay)
<1>1. PICK b \in Alarms : /\ First(d, b)
                          /\ HasRevision(rows[b], batch[b].revision)
                          /\ handled' = [handled EXCEPT ![d] = b]
  BY DEF Start
<1>2. b = a /\ Idle(d)
  BY <1>1 DEF Start, IInv, TypeOK
<1>3. rows[a] = batch[a] /\ rows[a] # NoRow
  BY <1>1, <1>2 DEF First, Batched, IInv, RevisionIdentifiesRow, HasRevision
<1>4. Waits(rows[a], attempted[a])
  BY <1>1, <1>2, <1>3, NotHeld DEF BackoffOwed
<1>5. rows[a] \in Row /\ Good(rows[a]) /\ rows[a].wakeAt <= now
  BY <1>3 DEF IInv, TypeOK, GoodRows, BackoffOwed
<1>6. rows[a].retryAt <= now
  BY <1>5 DEF Good, Consistent, WakeAt, MaxOf, Row, NoTime, IInv, TypeOK
<1>7. RetryDelay(rows[a].attempts, rows[a].parked, MinRetryDelay) \in Nat
  <2>1. rows[a].attempts \in 1..MaxBudget /\ rows[a].parked \in BOOLEAN
    BY <1>4, <1>5, DelayAssumption DEF Row, Waits
  <2>2. QED
    BY <2>1, RetryDelayType, DelayAssumption
<1>8. rows[a].retryAt \in Int /\ now \in Nat /\ attempted[a] \in Int
  BY <1>5 DEF Row, NoTime, IInv, TypeOK
<1>9. QED
  BY <1>4, <1>6, <1>7, <1>8 DEF Waits

LEMMA LaneOwes ==
    ASSUME IInv, BackoffOwed, NEW d \in Dispatchers, Select(d) \/ Skip(d) \/ Start(d)
    PROVE  BackoffOwed'
<1>0. /\ now \in Nat /\ now' = now /\ rows' = rows
      /\ handled \in [Dispatchers -> Alarms \cup {NoAlarm}]
      /\ batch \in [Alarms -> Rows] /\ attempted \in [Alarms -> Nat \cup {NoTime}]
  BY DEF Select, Skip, Start, IInv, TypeOK, Rows
<1>1. CASE Select(d)
  <2>1. /\ batch' = [a \in Alarms |-> IF a \in Selected(d) THEN rows[a] ELSE batch[a]]
        /\ attempted' = attempted /\ handled' = handled
    BY <1>1 DEF Select
  <2>2. \A a \in Selected(d) : rows[a] # NoRow /\ rows[a].wakeAt <= now
    BY DEF Selected, Due
  <2>3. \A a \in Alarms : Held(a) => Held(a)'
    BY <1>0, <2>1 DEF Held
  <2>4. \A a \in Alarms : batch'[a] # NoRow => batch'[a].wakeAt <= now
    BY <2>1, <2>2 DEF BackoffOwed
  <2>5. QED
    BY <1>0, <2>1, <2>3, <2>4 DEF BackoffOwed
<1>2. CASE Skip(d)
  <2>1. PICK a \in Alarms : First(d, a) /\ batch' = [batch EXCEPT ![a] = NoRow]
    BY <1>2 DEF Skip
  <2>2. ~ Held(a) /\ attempted' = attempted /\ handled' = handled
    BY <1>2, <2>1, NotHeld DEF Skip
  <2>3. \A b \in Alarms : Held(b) => Held(b)'
    BY <1>0, <2>1, <2>2 DEF Held
  <2>4. QED
    BY <1>0, <2>1, <2>2, <2>3 DEF BackoffOwed
<1>3. CASE Start(d)
  <2>1. PICK a \in Alarms : /\ First(d, a)
                            /\ HasRevision(rows[a], batch[a].revision)
                            /\ handled' = [handled EXCEPT ![d] = a]
                            /\ attempted' = [attempted EXCEPT ![a] = now]
    BY <1>3 DEF Start
  <2>2. batch' = batch /\ handled[d] = NoAlarm
    BY <1>3 DEF Start, Idle, IInv, LaneConsistent
  <2>3. Held(a)'
    BY <1>0, <2>1, <2>2 DEF Held, First, Batched, IInv, RevisionIdentifiesRow
  <2>4. \A b \in Alarms : Held(b) => Held(b)'
    BY <1>0, <2>1, <2>2, SchedulerAssumption DEF Held
  <2>5. \A b \in Alarms \ {a} : attempted'[b] = attempted[b]
    BY <1>0, <2>1
  <2>6. attempted'[a] = now
    BY <1>0, <2>1
  <2>7. QED
    BY <1>0, <2>1, <2>2, <2>3, <2>4, <2>5, <2>6 DEF BackoffOwed
<1>4. QED
  BY <1>1, <1>2, <1>3

LEMMA BackoffStep ==
    ASSUME IInv, BackoffOwed, [Next]_vars, MaxRestarts = 0, StorageFaults = FALSE
    PROVE  BackoffOwed'
<1>1. CASE UNCHANGED <<now, rows, batch, handled, attempted>>
  BY <1>1 DEF BackoffOwed, Held
<1>2. CASE External
  <2>1. PICK closure \in Closures : Commit(Run(closure, NoRow, NoAlarm))
    BY <1>2 DEF External
  <2>2. ViewOK(Run(closure, NoRow, NoAlarm)) /\ Delayed(Run(closure, NoRow, NoAlarm))
    BY RunView, RunDelayed DEF Rows
  <2>3. QED
    BY <1>2, <2>1, <2>2, TransactionOwes DEF External
<1>3. ASSUME NEW d \in Dispatchers, NEW f \in Fibers, HandlerTransaction(d, f) PROVE BackoffOwed'
  <2>1. batch[handled[d]] \in Rows
    BY <1>3, HandledRow DEF HandlerTransaction, InPass, Rows
  <2>2. PICK closure \in Closures : Commit(Run(closure, batch[handled[d]], handled[d]))
    BY <1>3 DEF HandlerTransaction
  <2> DEFINE view == Run(closure, batch[handled[d]], handled[d])
  <2>3. ViewOK(view) /\ Delayed(view)
    BY <2>1, RunView, RunDelayed
  <2>4. Commit(view) /\ UNCHANGED <<now, batch, handled>>
    BY <1>3, <2>2 DEF HandlerTransaction
  <2> HIDE DEF view
  <2>5. QED
    BY <2>3, <2>4, TransactionOwes
<1>4. CASE Tick
  <2>1. now' = now + 1 /\ UNCHANGED <<rows, batch, handled, attempted>> /\ now \in Nat
    BY <1>4 DEF Tick, IInv, TypeOK
  <2>2. \A a \in Alarms : attempted[a] \in Int /\ (batch[a] # NoRow => batch[a].wakeAt \in Int)
    BY DEF IInv, TypeOK, Row, NoTime
  <2>3. QED
    BY <2>1, <2>2 DEF BackoffOwed, Held
<1>5. ~ Restart /\ \A d \in Dispatchers : ~ StorageFault(d)
  BY DEF Restart, StorageFault, IInv, TypeOK
<1>6. QED
  BY <1>1, <1>2, <1>3, <1>4, <1>5, RowEndOwes, LaneOwes
     DEF Next, Lane, vars, Deliver, HandlerExit, Report, Interrupt, Finish

LEMMA StartsByStart ==
    ASSUME IInv, Next, NEW d \in Dispatchers, NEW a \in Alarms, Starts(d, a)
    PROVE  Start(d) /\ handled'[d] = a
<1>1. handled'[d] = a /\ handled[d] # a
  BY SchedulerAssumption DEF Starts
<1>2. \E e \in Dispatchers : Start(e)
  BY <1>1, SchedulerAssumption
     DEF Next, Lane, External, Deliver, Restart, Tick, Select, Skip, HandlerTransaction,
         HandlerExit, Report, Interrupt, Succeed, SkipFailed, RetryFailed, StorageFault, Finish,
         Acknowledge, Advance, Abandon, IInv, TypeOK
<1>3. PICK e \in Dispatchers : Start(e)
  BY <1>2
<1>4. \E b \in Alarms : handled' = [handled EXCEPT ![e] = b]
  BY <1>3 DEF Start
<1>5. e = d
  BY <1>1, <1>4 DEF IInv, TypeOK
<1>6. QED
  BY <1>1, <1>3, <1>5

LEMMA BackoffInvariance ==
    ASSUME MaxRestarts = 0, StorageFaults = FALSE
    PROVE  Spec => []BackoffOwed
<1>1. Init => BackoffOwed
  BY SchedulerAssumption DEF Init, BackoffOwed, NoTime
<1>2. IInv /\ BackoffOwed /\ [Next]_vars => BackoffOwed'
  BY BackoffStep
<1>3. QED
  BY <1>1, <1>2, Invariance, PTL DEF Spec

\* Two attempts charged to one budget are a full backoff apart, whatever rewrites
\* the row in between, as long as no eviction and no failing commit loses the
\* charge: the eviction run shows an attempt follow at once when one does.
THEOREM AttemptsAreSpaced ==
    ASSUME MaxRestarts = 0, StorageFaults = FALSE
    PROVE  Spec => BackoffRespected
<1>1. IInv /\ BackoffOwed /\ [Next]_vars =>
        [\A d \in Dispatchers, a \in Alarms :
            Starts(d, a) /\ attempted[a] # NoTime =>
                /\ rows[a].attempts > 0
                /\ now >= attempted[a]
                       + RetryDelay(rows[a].attempts, rows[a].parked, MinRetryDelay)]_vars
  BY StartsByStart, StartWaited
<1>2. QED
  BY <1>1, Invariance, BackoffInvariance, PTL DEF Spec, BackoffRespected

\* Parked work in particular: under the same two conditions the documented hour
\* between its attempts is kept, across handlers, enrollments and parkings.
THEOREM ParkedAttemptsAreSpaced ==
    ASSUME MaxRestarts = 0, StorageFaults = FALSE
    PROVE  Spec => ParkedAttemptSpacing
<1>1. IInv /\ BackoffOwed /\ [Next]_vars =>
        [\A d \in Dispatchers, a \in Alarms :
            Starts(d, a) /\ Parked(rows[a]) /\ attempted[a] # NoTime =>
                now >= attempted[a] + ParkedDelay]_vars
  BY StartsByStart, StartWaited DEF Parked, RetryDelay
<1>2. QED
  BY <1>1, Invariance, BackoffInvariance, PTL DEF Spec, ParkedAttemptSpacing
=============================================================================
