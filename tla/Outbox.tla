--------------------------------- MODULE Outbox ---------------------------------
(* The document outbox of examples/outbox: a save stores a revision and enrolls   *)
(* an alarm in one transaction; the alarm's handler enrolls itself again, writes  *)
(* the revision to R2 and cancels the alarm once R2 has answered.  The scheduler  *)
(* is external here and does what AlarmPromise states and AlarmScheduler implements: *)
(* it attempts pending work, and ends an attempt unless somebody wrote the work     *)
(* meanwhile.  R2 takes a write at any time, also after the Object that sent it is  *)
(* gone.                                                                           *)
EXTENDS Naturals

CONSTANTS Bodies, NoBody,
          MaxSaves, MaxCrashes, \* bounds: revisions, evictions of the Object
          MaxLate               \* bound: writes of one revision that outlived their handler

ASSUME OutboxAssumption ==
  MaxSaves \in Nat /\ MaxCrashes \in Nat /\ MaxLate \in Nat /\ NoBody \notin Bodies

Revisions == 1..MaxSaves

VARIABLES document,      \* the stored snapshot, its revision 0 before the first save
          work,          \* whether the alarm of each revision is enrolled
          attempt,       \* the scheduler's attempt at it: stale once somebody wrote the alarm
          payload,       \* the body each alarm row carries
          handler,       \* the step each running handler is at
          bucket,        \* the archive, by revision
          late,          \* writes of each revision still on their way to R2, with nobody waiting
          answer,        \* what the running handler has heard from R2
          saved,         \* history: the body of each committed revision
          crashes

vars == <<document, work, attempt, payload, handler, bucket, late, answer, saved, crashes>>

Init ==
  /\ document = [revision |-> 0, body |-> NoBody]
  /\ work = [r \in Revisions |-> "idle"] /\ attempt = [r \in Revisions |-> "none"]
  /\ payload = [r \in Revisions |-> NoBody] /\ saved = payload /\ bucket = payload
  /\ handler = [r \in Revisions |-> "none"] /\ answer = handler
  /\ late = [r \in Revisions |-> 0]
  /\ crashes = 0

Unwritten(r) == attempt' = [attempt EXCEPT ![r] = IF @ = "none" THEN "none" ELSE "stale"]

(* save: one transaction for the snapshot and the alarm; a failed one leaves nothing. *)
\* A mutant: the alarm is enrolled after the snapshot's transaction.
SaveThenSchedule(body) ==
  LET r == document.revision + 1 IN
  /\ document.revision < MaxSaves
  /\ document' = [revision |-> r, body |-> body]
  /\ saved' = [saved EXCEPT ![r] = body]
  /\ payload' = [payload EXCEPT ![r] = body]
  /\ Unwritten(r)
  /\ work' \in {work, [work EXCEPT ![r] = "pending"]}
  /\ UNCHANGED <<handler, bucket, late, answer, crashes>>
\* A mutant: a revision's number is not advanced by a save of the same body.
SaveSameRevision(body) ==
  LET r == IF document.body = NoBody THEN 1 ELSE document.revision IN
  /\ document' = [revision |-> r, body |-> body]
  /\ saved' = [saved EXCEPT ![r] = body]
  /\ payload' = [payload EXCEPT ![r] = body]
  /\ work' = [work EXCEPT ![r] = "pending"]
  /\ Unwritten(r)
  /\ UNCHANGED <<handler, bucket, late, answer, crashes>>
Save(body) ==
  LET r == document.revision + 1 IN
  /\ document.revision < MaxSaves
  /\ document' = [revision |-> r, body |-> body]
  /\ saved' = [saved EXCEPT ![r] = body]
  /\ payload' = [payload EXCEPT ![r] = body]
  /\ work' = [work EXCEPT ![r] = "pending"]
  /\ Unwritten(r)
  /\ UNCHANGED <<handler, bucket, late, answer, crashes>>

(* The scheduler runs the handler of a due alarm. *)
Deliver(r) ==
  /\ work[r] = "pending" /\ attempt[r] = "none"
  /\ attempt' = [attempt EXCEPT ![r] = "current"]
  /\ handler' = [handler EXCEPT ![r] = "reschedule"]
  /\ answer' = [answer EXCEPT ![r] = "none"]
  /\ UNCHANGED <<document, work, payload, bucket, late, saved, crashes>>

(* "Persist another wake BEFORE the external write, in case execution stops." *)
Reschedule(r) ==
  /\ handler[r] = "reschedule"
  /\ work' = [work EXCEPT ![r] = "pending"]
  /\ Unwritten(r)
  /\ handler' = [handler EXCEPT ![r] = "put"]
  /\ UNCHANGED <<document, payload, bucket, late, answer, saved, crashes>>

Put(r) ==
  /\ handler[r] = "put"
  /\ handler' = [handler EXCEPT ![r] = "await"]
  /\ UNCHANGED <<document, work, attempt, payload, bucket, late, answer, saved, crashes>>

(* R2 answers a waiting handler: the write is stored, or it failed, and then it  *)
(* may be stored all the same, now or later.                                     *)
Answer(r, heard, stored, later) ==
  /\ handler[r] = "await" /\ answer[r] = "none"
  /\ (heard = "stored" => stored) /\ (later => heard = "failed" /\ ~stored /\ late[r] < MaxLate)
  /\ answer' = [answer EXCEPT ![r] = heard]
  /\ bucket' = IF stored THEN [bucket EXCEPT ![r] = payload[r]] ELSE bucket
  /\ late' = IF later THEN [late EXCEPT ![r] = @ + 1] ELSE late
  /\ UNCHANGED <<document, work, attempt, payload, handler, saved, crashes>>

(* A write nobody waits for any more is stored or lost. *)
Land(r) ==
  /\ late[r] > 0
  /\ late' = [late EXCEPT ![r] = @ - 1]
  /\ bucket' \in {bucket, [bucket EXCEPT ![r] = payload[r]]}
  /\ UNCHANGED <<document, work, attempt, payload, handler, answer, saved, crashes>>

(* cancelAlarm, once the write has succeeded. *)
\* A mutant: the handler leaves its recovery alarm behind.
ExitUncancelled(r) ==
  /\ handler[r] = "await" /\ answer[r] = "stored"
  /\ handler' = [handler EXCEPT ![r] = "exit"]
  /\ UNCHANGED <<document, work, attempt, payload, bucket, late, answer, saved, crashes>>
Cancel(r) ==
  /\ handler[r] = "await" /\ answer[r] = "stored"
  /\ work' = [work EXCEPT ![r] = "idle"]
  /\ Unwritten(r)
  /\ handler' = [handler EXCEPT ![r] = "exit"]
  /\ UNCHANGED <<document, payload, bucket, late, answer, saved, crashes>>

(* The handler fails: at an alarm transaction, which leaves nothing, or with R2's error. *)
Fail(r) ==
  /\ handler[r] = "reschedule" \/ (handler[r] = "await" /\ answer[r] # "none")
  /\ handler' = [handler EXCEPT ![r] = "failed"]
  /\ UNCHANGED <<document, work, attempt, payload, bucket, late, answer, saved, crashes>>

(* The scheduler ends the row: done after success, retried after a failure, and   *)
(* left alone when the handler wrote the alarm itself.                            *)
\* A mutant: the pass forgets the row but not its attempt.
SettleKeepingAttempt(r) ==
  /\ handler[r] \in {"exit", "failed"}
  /\ handler' = [handler EXCEPT ![r] = "none"]
  /\ UNCHANGED <<document, work, attempt, payload, bucket, late, answer, saved, crashes>>
Settle(r) ==
  /\ handler[r] \in {"exit", "failed"}
  /\ IF attempt[r] = "current"
     THEN work' = [work EXCEPT ![r] = IF handler[r] = "failed" THEN "pending" ELSE "idle"]
     ELSE UNCHANGED work
  /\ attempt' = [attempt EXCEPT ![r] = "none"]
  /\ handler' = [handler EXCEPT ![r] = "none"]
  /\ UNCHANGED <<document, payload, bucket, late, answer, saved, crashes>>

(* The Object is evicted: handlers are gone, rows and writes under way are not. *)
Crash ==
  /\ crashes < MaxCrashes /\ crashes' = crashes + 1
  /\ attempt' = [r \in Revisions |-> "none"]
  /\ late' \in [Revisions -> 0..MaxLate]
  /\ \A r \in Revisions :
       late'[r] = late[r] \/ (late'[r] = late[r] + 1 /\ handler[r] = "await" /\ answer[r] = "none")
  /\ handler' = [r \in Revisions |-> "none"] /\ answer' = handler'
  /\ UNCHANGED <<document, work, payload, bucket, saved>>

Step(r) == Deliver(r) \/ Reschedule(r) \/ Put(r) \/ Cancel(r) \/ Fail(r) \/ Settle(r)
Next ==
  \/ \E b \in Bodies : Save(b)
  \/ \E r \in Revisions :
       \/ Step(r) \/ Land(r)
       \/ \E h \in {"stored", "failed"}, s, l \in BOOLEAN : Answer(r, h, s, l)
  \/ Crash

Spec == Init /\ [][Next]_vars

(* The scheduler delivers due work and the runtime goes on with a handler; a      *)
(* handler that could go on does not fail for ever; and R2, asked again and       *)
(* again, does store and say so.                                                  *)
Fairness ==
  /\ \A r \in Revisions :
       /\ WF_vars(Deliver(r)) /\ SF_vars(Reschedule(r)) /\ WF_vars(Put(r))
       /\ SF_vars(Cancel(r)) /\ WF_vars(Settle(r))
       /\ WF_vars(handler[r] = "await" /\ answer[r] = "failed" /\ Fail(r))
       /\ WF_vars(\E h \in {"stored", "failed"}, s, l \in BOOLEAN : Answer(r, h, s, l))
       /\ SF_vars(Answer(r, "stored", TRUE, FALSE))

FairSpec == Spec /\ Fairness

-----------------------------------------------------------------------------
(* Every variable stays in its domain, and a handler runs in an attempt only. *)
TypeOK ==
  /\ document \in [revision : 0..MaxSaves, body : Bodies \cup {NoBody}]
  /\ payload \in [Revisions -> Bodies \cup {NoBody}] /\ saved \in [Revisions -> Bodies \cup {NoBody}]
  /\ bucket \in [Revisions -> Bodies \cup {NoBody}]
  /\ handler \in [Revisions -> {"none", "reschedule", "put", "await", "exit", "failed"}]
  /\ answer \in [Revisions -> {"none", "stored", "failed"}] /\ crashes \in 0..MaxCrashes
  /\ late \in [Revisions -> 0..MaxLate]
  /\ \A r \in Revisions : handler[r] = "none" <=> attempt[r] = "none"
  /\ work \in [Revisions -> {"idle", "pending"}] /\ attempt \in [Revisions -> {"none", "current", "stale"}]

(* "A restart cannot leave a saved revision with no delivery alarm": as long as   *)
(* R2 does not hold a saved revision, its alarm is pending, whatever crashed or   *)
(* failed in between.                                                             *)
DeliveryIsOwed ==
  \A r \in Revisions : (saved[r] # NoBody /\ bucket[r] = NoBody) => work[r] = "pending"

(* "Replays write the same key and exact content": R2 never holds anything but    *)
(* the body its revision was first saved with.                                    *)
ArchiveIsTrue ==
  \A r \in Revisions : bucket[r] \in {NoBody, saved[r]}

(* Every saved revision is in the archive in the end, and then its alarm rests. *)
SavedIsArchived ==
  \A r \in Revisions : (saved[r] # NoBody) ~> (bucket[r] = saved[r] /\ work[r] = "idle")

(* The outbox is safe at every crash: what is saved and not archived is owed, and *)
(* what is archived is what was saved.                                            *)
OutboxIsSafe ==
  /\ TypeOK
  /\ DeliveryIsOwed
  /\ ArchiveIsTrue
=============================================================================
