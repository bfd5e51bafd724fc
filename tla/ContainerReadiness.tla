-------------------------- MODULE ContainerReadiness --------------------------
(***************************************************************************)
(* waitForHttp of DurableObjectContainer.ts: probes, each with its timeout, until *)
(* one succeeds, the container stops, or the timeout of the whole wait fires.    *)
(***************************************************************************)
EXTENDS Naturals

CONSTANT MaxProbes  \* bound: probes the wait makes before its timeout must fire

MaxProbesAssumption == MaxProbes \in Nat \ {0}

Probes == 1 .. MaxProbes

VARIABLES
    running,  \* container.running, of the platform
    phase,    \* where poll is, or how the wait ended
    probe,    \* the probe it is at
    fetch,    \* probe -> its native fetch
    lastFailure

vars == <<running, phase, probe, fetch, lastFailure>>

Init ==
    /\ running \in BOOLEAN /\ phase = "check" /\ probe = 0
    /\ fetch = [p \in Probes |-> "none"] /\ lastFailure = 0

Ended == {"ready", "stopped", "timedOut", "interrupted"}

\* Mutant: the container is looked at before the first probe alone.
ChecksOnce == running \/ probe > 0

\* if (!container.running)
StillRunning == running

Stopped ==
    /\ phase = "check" /\ ~ StillRunning
    /\ phase' = "stopped"
    /\ UNCHANGED <<running, probe, fetch, lastFailure>>

\* The port is acquired anew for every probe.
Probe ==
    /\ phase = "check" /\ StillRunning /\ probe < MaxProbes
    /\ probe' = probe + 1 /\ phase' = "probing"
    /\ fetch' = [fetch EXCEPT ![probe'] = "pending"]
    /\ UNCHANGED <<running, lastFailure>>

\* Mutant: the native fetch does not get the signal of its effect.
WithoutSignal == fetch

\* { signal }: interrupting the effect aborts the fetch.
Aborted == IF probe = 0 THEN fetch
           ELSE [fetch EXCEPT ![probe] = IF @ = "pending" THEN "aborted" ELSE @]

\* The status range decides after the body was canceled.
Answered ==
    /\ phase = "probing" /\ fetch[probe] = "ok"
    /\ phase' = "ready"
    /\ UNCHANGED <<running, probe, fetch, lastFailure>>

\* Mutant: the wait remembers its first failure.
FirstFailure == IF lastFailure = 0 THEN probe ELSE lastFailure

\* lastFailure = error
LatestFailure == probe

Refused ==
    /\ phase = "probing" /\ fetch[probe] \in {"bad", "failed"}
    /\ phase' = "sleeping" /\ lastFailure' = LatestFailure
    /\ UNCHANGED <<running, probe, fetch>>

\* Effect.timeout(attemptTimeout)
AttemptTimesOut ==
    /\ phase = "probing"
    /\ phase' = "sleeping" /\ fetch' = Aborted /\ lastFailure' = LatestFailure
    /\ UNCHANGED <<running, probe>>

\* Effect.sleep(interval)
Wakes ==
    /\ phase = "sleeping"
    /\ phase' = "check"
    /\ UNCHANGED <<running, probe, fetch, lastFailure>>

\* Mutant: the timeout is checked between the probes.
BetweenProbes == phase \in {"check", "sleeping"}

\* Effect.timeoutOrElse around the whole poll.
MayTimeOut == phase \notin Ended

TimesOut ==
    /\ MayTimeOut /\ phase \notin Ended
    /\ phase' = "timedOut" /\ fetch' = Aborted
    /\ UNCHANGED <<running, probe, lastFailure>>

Interrupt ==
    /\ phase \notin Ended
    /\ phase' = "interrupted" /\ fetch' = Aborted
    /\ UNCHANGED <<running, probe, lastFailure>>

\* The container answers, fails to, starts or stops.
Respond(p, how) ==
    /\ fetch[p] = "pending" /\ (how # "failed" => running)
    /\ fetch' = [fetch EXCEPT ![p] = how]
    /\ UNCHANGED <<running, phase, probe, lastFailure>>

Toggle == running' = ~ running /\ UNCHANGED <<phase, probe, fetch, lastFailure>>

Next ==
    \/ Stopped \/ Probe \/ Answered \/ Refused \/ AttemptTimesOut \/ Wakes \/ TimesOut \/ Interrupt
    \/ \E p \in Probes, how \in {"ok", "bad", "failed"} : Respond(p, how)
    \/ Toggle

Spec == Init /\ [][Next]_vars

\* Timers fire; the container may never answer.
Fairness == WF_vars(TimesOut)

FairSpec == Spec /\ Fairness

----------------------------------------------------------------------------
TypeOK ==
    /\ running \in BOOLEAN /\ probe \in 0 .. MaxProbes /\ lastFailure \in 0 .. MaxProbes
    /\ phase \in {"check", "probing", "sleeping"} \union Ended
    /\ fetch \in [Probes -> {"none", "pending", "ok", "bad", "failed", "aborted"}]

\* At most one probe is on the network, and none when the wait is over.
NoProbeLeft ==
    /\ \A p, q \in Probes : fetch[p] = "pending" /\ fetch[q] = "pending" => p = q
    /\ phase # "probing" => \A p \in Probes : fetch[p] # "pending"

\* A timeout reports the failure of the last probe that was over.
ReportsLastFailure ==
    phase = "timedOut" => lastFailure \in {probe, probe - 1}
                          /\ (probe > 1 => lastFailure > 0)

\* No probe is made of a container that was seen stopped: a wait meets it after at
\* most the probe under way.
StopIsSeen == [][probe' # probe => running]_vars

\* The wait ends although nothing ever answers.
WaitEnds == <>(phase \in Ended)
=============================================================================
