------------------------------ MODULE WorkspaceRuns ------------------------------
(***************************************************************************)
(* The computer workspace of a Durable Object: how its host is registered      *)
(* (ComputerWorkspaceHost.ts), how the layer acquires a client of it, and how   *)
(* the runs of a workspace are held, awaited, killed and let go of             *)
(* (ComputerWorkspace.ts).  Runs live in the platform's backend; a handle of    *)
(* one belongs to the scope of the fiber that acquired it.                     *)
(***************************************************************************)
EXTENDS Naturals

CONSTANTS
    Fibers,    \* users of the workspace
    Runs,      \* run identities
    MaxTries,  \* bound: operations of a fiber
    None

TriesAssumption == MaxTries \in Nat

VARIABLES
    host,     \* "none", "constructed", "registered" or "failed"
    client,   \* "none", "importing", "getting", "live", "failed", "disposed"
    backend,  \* run -> "none", "running", "exited" or "gone"
    at,       \* fiber -> "idle", "acquiring", "held", "awaiting", "calling", "done"
    how,      \* fiber -> "exec", "collect" or "get"
    run,      \* fiber -> the run it is about
    handle,   \* fiber -> "none", "live"
    asked,    \* fibers that are to be interrupted once their acquisition is over
    wild,     \* history: handles the platform gave out that no scope owns
    tries

vars == <<host, client, backend, at, how, run, handle, asked, wild, tries>>

Init ==
    /\ host = "none" /\ client = "none"
    /\ backend = [r \in Runs |-> "none"]
    /\ at = [f \in Fibers |-> "idle"] /\ how = [f \in Fibers |-> "exec"]
    /\ run = [f \in Fibers |-> None] /\ handle = [f \in Fibers |-> "none"]
    /\ asked = {} /\ wild = 0 /\ tries = [f \in Fibers |-> 0]

Users == <<backend, at, how, run, handle, asked, wild, tries>>

\* The constructors of the base and of the workspace, and the options of config.
Construct ==
    /\ host = "none" /\ host' \in {"constructed", "failed"}
    /\ UNCHANGED client /\ UNCHANGED Users

\* WithComputerWorkspace: registered last, in the same turn.
Register ==
    /\ host = "constructed" /\ host' = "registered"
    /\ UNCHANGED client /\ UNCHANGED Users

HasHost(h) == h = "registered"

\* ComputerWorkspace.layer, built once, with the object's other services.
BuildLayer ==
    /\ client = "none" /\ host \in {"registered", "failed"}
    /\ client' = IF HasHost(host) THEN "importing" ELSE "failed"
    /\ UNCHANGED host /\ UNCHANGED Users

Import ==
    /\ client = "importing" /\ client' \in {"getting", "failed"}
    /\ UNCHANGED host /\ UNCHANGED Users

GetWorkspace ==
    /\ client = "getting" /\ client' \in {"live", "failed"}
    /\ UNCHANGED host /\ UNCHANGED Users

----------------------------------------------------------------------------
\* exec, execCollect and getExec of a run.
Acquire(f, r, h) ==
    /\ client = "live" /\ at[f] = "idle" /\ tries[f] < MaxTries
    /\ h # "get" => backend[r] = "none"
    /\ at' = [at EXCEPT ![f] = "acquiring"] /\ how' = [how EXCEPT ![f] = h]
    /\ run' = [run EXCEPT ![f] = r] /\ tries' = [tries EXCEPT ![f] = @ + 1]
    /\ UNCHANGED <<host, client, backend, handle, asked, wild>>

\* Mutant: the fiber lets go of an acquisition it is interrupted in.
Abandoned(f) == TRUE

\* acquireDisposable: an acquisition is not interrupted.
Abandons(f) == FALSE

\* The scope closes: its handle, if any, is disposed of.
CloseScope(f) ==
    /\ at' = [at EXCEPT ![f] = "idle"] /\ run' = [run EXCEPT ![f] = None]
    /\ handle' = [handle EXCEPT ![f] = "none"] /\ asked' = asked \ {f}

Interrupt(f) ==
    /\ at[f] \in {"acquiring", "held", "awaiting", "calling"} /\ f \notin asked
    /\ IF at[f] = "acquiring" /\ ~ Abandons(f)
       THEN asked' = asked \union {f} /\ UNCHANGED <<at, run, handle, wild>>
       ELSE CloseScope(f) /\ wild' = IF at[f] = "acquiring" THEN wild + 1 ELSE wild
    /\ UNCHANGED <<host, client, backend, how, tries>>

\* The platform starts a run, or finds it.
Granted(f) ==
    IF how[f] = "get" THEN backend[run[f]] \in {"running", "exited"} /\ UNCHANGED backend
    ELSE backend[run[f]] = "none" /\ backend' = [backend EXCEPT ![run[f]] = "running"]

\* execCollect goes on to the result.
Then(f) == IF how[f] = "collect" THEN "awaiting" ELSE "held"

Acquired(f) ==
    /\ at[f] = "acquiring" /\ Granted(f)
    /\ IF f \in asked THEN CloseScope(f)
       ELSE /\ at' = [at EXCEPT ![f] = Then(f)] /\ handle' = [handle EXCEPT ![f] = "live"]
            /\ UNCHANGED <<run, asked>>
    /\ UNCHANGED <<host, client, how, wild, tries>>

NotAcquired(f) ==
    /\ at[f] = "acquiring" /\ CloseScope(f)
    /\ UNCHANGED <<host, client, backend, how, wild, tries>>

\* run.result, or its events to their end.
Await(f) ==
    /\ at[f] = "held" /\ at' = [at EXCEPT ![f] = "awaiting"]
    /\ UNCHANGED <<host, client, backend, how, run, handle, asked, wild, tries>>

\* Mutant: the scope of execCollect outlives its result.
Never(f) == FALSE

\* Effect.scoped of execCollect
Scoped(f) == how[f] = "collect"

\* The result, or its failure.
Result(f) ==
    /\ at[f] = "awaiting" /\ backend[run[f]] \in {"exited", "gone"}
    /\ IF Scoped(f) THEN CloseScope(f)
       ELSE at' = [at EXCEPT ![f] = "held"] /\ UNCHANGED <<run, handle, asked>>
    /\ UNCHANGED <<host, client, backend, how, wild, tries>>

\* The scope of exec or getExec is the caller's, which ends when the caller says.
Release(f) ==
    /\ at[f] = "held" /\ CloseScope(f)
    /\ UNCHANGED <<host, client, backend, how, wild, tries>>

\* killExec and disposeExec of any run, and kill of a handle.
Call(f) ==
    /\ client = "live" /\ at[f] = "idle" /\ tries[f] < MaxTries
    /\ at' = [at EXCEPT ![f] = "calling"] /\ tries' = [tries EXCEPT ![f] = @ + 1]
    /\ UNCHANGED <<host, client, backend, how, run, handle, asked, wild>>

Answer(f) ==
    /\ at[f] = "calling" /\ at' = [at EXCEPT ![f] = "idle"]
    /\ \/ UNCHANGED backend
       \/ \E r \in Runs : backend[r] = "running" /\ backend' = [backend EXCEPT ![r] = "exited"]
       \/ \E r \in Runs : backend[r] # "none" /\ backend' = [backend EXCEPT ![r] = "gone"]
    /\ UNCHANGED <<host, client, how, run, handle, asked, wild, tries>>

Kill(f) ==
    /\ at[f] = "held" /\ backend[run[f]] = "running"
    /\ backend' = [backend EXCEPT ![run[f]] = "exited"]
    /\ UNCHANGED <<host, client, at, how, run, handle, asked, wild, tries>>

Exit(r) ==
    /\ backend[r] = "running" /\ backend' = [backend EXCEPT ![r] = "exited"]
    /\ UNCHANGED <<host, client, at, how, run, handle, asked, wild, tries>>

\* A fiber is done with the workspace.
Finish(f) ==
    /\ client \in {"live", "failed"} /\ at[f] = "idle" /\ at' = [at EXCEPT ![f] = "done"]
    /\ UNCHANGED <<host, client, backend, how, run, handle, asked, wild, tries>>

\* The scope of the layer closes, which disposes of the client.
CloseLayer ==
    /\ client \in {"live", "failed"} /\ \A f \in Fibers : at[f] = "done"
    /\ client' = "disposed"
    /\ UNCHANGED host /\ UNCHANGED Users

Closed == client = "disposed" /\ UNCHANGED vars

Next ==
    \/ Construct \/ Register \/ BuildLayer \/ Import \/ GetWorkspace \/ CloseLayer \/ Closed
    \/ \E f \in Fibers :
         \/ \E r \in Runs, h \in {"exec", "collect", "get"} : Acquire(f, r, h)
         \/ Interrupt(f) \/ Acquired(f) \/ NotAcquired(f) \/ Await(f) \/ Result(f)
         \/ Release(f) \/ Call(f) \/ Answer(f) \/ Kill(f) \/ Finish(f)
    \/ \E r \in Runs : Exit(r)

Spec == Init /\ [][Next]_vars

\* The platform answers every acquisition, and a run that is awaited ends.
Fairness ==
    /\ \A f \in Fibers : WF_vars(NotAcquired(f)) /\ WF_vars(Result(f))
    /\ \A r \in Runs : WF_vars(Exit(r))

FairSpec == Spec /\ Fairness

----------------------------------------------------------------------------
TypeOK ==
    /\ host \in {"none", "constructed", "registered", "failed"}
    /\ client \in {"none", "importing", "getting", "live", "failed", "disposed"}
    /\ client \in {"importing", "getting", "live"} => host = "registered"
    /\ backend \in [Runs -> {"none", "running", "exited", "gone"}]
    /\ at \in [Fibers -> {"idle", "acquiring", "held", "awaiting", "calling", "done"}]
    /\ how \in [Fibers -> {"exec", "collect", "get"}] /\ run \in [Fibers -> Runs \union {None}]
    /\ handle \in [Fibers -> {"none", "live"}] /\ tries \in [Fibers -> 0..MaxTries]
    /\ asked \subseteq {f \in Fibers : at[f] = "acquiring"}

\* Every handle the platform gives out is owned by the scope of a fiber that is
\* still using it, wherever interrupts arrive; none is left behind.
HandlesAreOwned ==
    /\ wild = 0
    /\ \A f \in Fibers : (handle[f] = "live") <=> (at[f] \in {"held", "awaiting"})

\* An interrupted fiber gets out of an acquisition, and a collected run is let go
\* of, whatever the others do to it.
CollectEnds ==
    \A f \in Fibers :
        /\ (f \in asked) ~> (f \notin asked)
        /\ (how[f] = "collect" /\ handle[f] = "live") ~> (handle[f] = "none")
=============================================================================
