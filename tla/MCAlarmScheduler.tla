--------------------------- MODULE MCAlarmScheduler ---------------------------
(* Instances of AlarmScheduler for TLC: the transaction bodies of each run.  *)
EXTENDS AlarmScheduler

Enroll(a, runAt, every, earlier, progress) ==
    [op |-> "schedule", id |-> a,
     input |-> [runAt |-> runAt, every |-> every, earlier |-> earlier, progress |-> progress]]

Drop(a) == [op |-> "cancel", id |-> a]

Single(mutations) == {<<m, NoMutation>> : m \in mutations}

\* One alarm: due at once or later, min-merged or replaced, with and without a
\* cursor, as a repeat, cancelled, and cancelled before a re-enrollment.
OneAlarmEnrollments ==
    {Enroll(1, 0, NoTime, FALSE, NoProgress), Enroll(1, 3, NoTime, FALSE, NoProgress),
     Enroll(1, 3, NoTime, TRUE, 0), Enroll(1, 0, NoTime, FALSE, 0),
     Enroll(1, 0, NoTime, FALSE, 1), Enroll(1, 0, 1, FALSE, NoProgress)}

OneAlarmClosures ==
    Single(OneAlarmEnrollments \cup {Drop(1)})
    \cup {<<Drop(1), m>> : m \in {Enroll(1, 0, NoTime, FALSE, p) : p \in {NoProgress, 1}}}

OneOwner == [a \in Alarms |-> 1]

\* Two alarms: enrollments due at once, one with a cursor, a cancel, and a
\* transaction that writes both.
TwoAlarmClosures ==
    Single({Enroll(a, 0, NoTime, FALSE, NoProgress) : a \in Alarms}
           \cup {Drop(1), Enroll(1, 0, NoTime, TRUE, 0)})
    \cup {<<Enroll(1, 0, NoTime, FALSE, NoProgress), Enroll(2, 0, NoTime, TRUE, NoProgress)>>}

TwoOwners == [a \in Alarms |-> a]

\* Liveness: the two alarms share a lane that takes one row per pass.
LiveClosures ==
    Single({Enroll(1, 0, NoTime, FALSE, NoProgress), Enroll(2, 0, NoTime, TRUE, NoProgress),
            Enroll(1, 0, 1, FALSE, NoProgress)})
=============================================================================
