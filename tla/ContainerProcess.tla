--------------------------- MODULE ContainerProcess ---------------------------
(***************************************************************************)
(* Processes of a container: exec, execScoped and the handle of fromProcess in    *)
(* DurableObjectContainer.ts.  A signal to a process whose exit is known may raise *)
(* an error in the runtime, so a kill first lets the exit be heard.              *)
(***************************************************************************)
EXTENDS Naturals, Sequences, FiniteSets

CONSTANTS
    Processes,
    Scoped,   \* those run with execScoped
    Kills     \* bound: calls of kill on each

ProcessesAssumption == Scoped \subseteq Processes /\ Kills \in Nat

VARIABLES
    exec,       \* process -> where its acquisition is
    alive,      \* process -> the native process
    settled,    \* those whose exitCode promise is settled
    exited,     \* those whose onExit ran
    microtasks, \* the queue of the runtime
    kills,      \* process -> calls so far
    late,       \* kills that were called when exitCode was settled, and signaled
    scope       \* process -> the scope of execScoped

vars == <<exec, alive, settled, exited, microtasks, kills, late, scope>>

Init ==
    /\ exec = [p \in Processes |-> "new"] /\ alive = [p \in Processes |-> "none"]
    /\ settled = {} /\ exited = {} /\ microtasks = <<>>
    /\ kills = [p \in Processes |-> 0] /\ late = {}
    /\ scope = [p \in Processes |-> "open"]

Quiet == microtasks = <<>>

\* container.exec(command, { signal })
Exec(p) ==
    /\ Quiet /\ exec[p] = "new"
    /\ exec' = [exec EXCEPT ![p] = "starting"]
    /\ UNCHANGED <<alive, settled, exited, microtasks, kills, late, scope>>

ExecFails(p) ==
    /\ exec[p] = "starting"
    /\ exec' = [exec EXCEPT ![p] = "failed"]
    /\ UNCHANGED <<alive, settled, exited, microtasks, kills, late, scope>>

\* Interruption cancels the acquisition: the native call gets the signal.
ExecInterrupted(p) ==
    /\ exec[p] = "starting"
    /\ exec' = [exec EXCEPT ![p] = "canceled"]
    /\ UNCHANGED <<alive, settled, exited, microtasks, kills, late, scope>>

\* process.exitCode.then(onExit, onExit), at once.
Observes(p) == {p}

\* The process runs, and fromProcess wraps it.
Acquired(p) ==
    /\ exec[p] = "starting" /\ Quiet
    /\ exec' = [exec EXCEPT ![p] = "acquired"]
    /\ alive' = [alive EXCEPT ![p] = "running"]
    /\ UNCHANGED <<settled, exited, microtasks, kills, late, scope>>

\* The native process ends; the runtime hears of it and settles exitCode.
Ends(p) ==
    /\ alive[p] = "running"
    /\ alive' = [alive EXCEPT ![p] = "ended"]
    /\ UNCHANGED <<exec, settled, exited, microtasks, kills, late, scope>>

Settles(p) ==
    /\ Quiet /\ alive[p] = "ended" /\ p \notin settled
    /\ settled' = settled \union {p}
    /\ microtasks' = IF p \in Observes(p) THEN Append(microtasks, <<"onExit", p, FALSE>>) ELSE microtasks
    /\ UNCHANGED <<exec, alive, exited, kills, late, scope>>

\* Mutant: the signal does not wait for a microtask.
SignalsAtOnce(p, signal) == <<<<signal, p, p \in settled>>>> \o microtasks

\* await Promise.resolve()
SignalsLater(p, signal) == Append(microtasks, <<signal, p, p \in settled>>)

\* kill(signal), of the caller, possibly in the microtask that settled exitCode.
Kill(p) ==
    /\ exec[p] = "acquired" /\ kills[p] < Kills
    /\ kills' = [kills EXCEPT ![p] = @ + 1]
    /\ microtasks' = SignalsLater(p, "SIGTERM")
    /\ UNCHANGED <<exec, alive, settled, exited, late, scope>>

\* Mutant: the scope leaves the process to the caller.
ReleasesNothing(p) == FALSE

\* acquireRelease: what was acquired is released.
Releases(p) == exec[p] = "acquired"

\* The scope closes: kill(9), orDie.
CloseScope(p) ==
    /\ Quiet /\ p \in Scoped /\ scope[p] = "open" /\ exec[p] \notin {"new", "starting"}
    /\ scope' = [scope EXCEPT ![p] = IF Releases(p) THEN "closing" ELSE "closed"]
    /\ microtasks' = IF Releases(p) THEN SignalsLater(p, "SIGKILL") ELSE microtasks
    /\ UNCHANGED <<exec, alive, settled, exited, kills, late>>

OnExit ==
    /\ microtasks # <<>> /\ Head(microtasks)[1] = "onExit"
    /\ exited' = exited \union {Head(microtasks)[2]}
    /\ microtasks' = Tail(microtasks)
    /\ UNCHANGED <<exec, alive, settled, kills, late, scope>>

\* if (!exited) process.kill(signal); a process may survive what is not SIGKILL.
Signal ==
    /\ microtasks # <<>> /\ Head(microtasks)[1] # "onExit"
    /\ LET p == Head(microtasks)[2]
       IN /\ IF p \in exited THEN UNCHANGED <<alive, late>>
             ELSE /\ \/ alive' = [alive EXCEPT ![p] = "ended"]
                     \/ Head(microtasks)[1] = "SIGTERM" /\ UNCHANGED alive
                  /\ late' = IF Head(microtasks)[3] THEN late \union {p} ELSE late
          /\ scope' = [scope EXCEPT ![p] = IF Head(microtasks)[1] = "SIGKILL" THEN "closed" ELSE @]
    /\ microtasks' = Tail(microtasks)
    /\ UNCHANGED <<exec, settled, exited, kills>>

Next ==
    \/ \E p \in Processes :
         \/ Exec(p) \/ ExecFails(p) \/ ExecInterrupted(p) \/ Acquired(p) \/ Ends(p) \/ Settles(p)
         \/ Kill(p) \/ CloseScope(p)
    \/ OnExit \/ Signal

Spec == Init /\ [][Next]_vars

----------------------------------------------------------------------------
\* A kill that is called when the exit is already settled sends no signal.
NoLateSignal == late = {}

\* No process of execScoped outlives its scope.
ScopeEndsProcess == \A p \in Scoped : scope[p] = "closed" => alive[p] # "running"
=============================================================================
