---------------------------- MODULE AlarmDefinitions ----------------------------
(***************************************************************************)
(* Typed alarm definitions (makeDefinition and Tag of DurableObjectAlarm.ts)  *)
(* over deployments: a row keeps the lifecycle and the encoded payload it    *)
(* was scheduled with, while the code that dispatches it changes.  One tag   *)
(* per alarm; times are reduced to "due" and "waiting", budgets are those of *)
(* AlarmScheduler, and claims and concurrency those of AlarmManual.          *)
(***************************************************************************)
EXTENDS Integers

CONSTANTS
    Alarms,
    HookActions,  \* what options.onFailure may return: "none", "retry", "skip", "fail"
    Registered,   \* Tag.handlers behind DurableObject.make, or define().handlers alone
    MaxDeploys,   \* bound: deployments
    MaxCalls      \* bound: schedule and cancel calls

DefinitionAssumption ==
    /\ HookActions \subseteq {"none", "retry", "skip", "fail"} /\ Registered \in BOOLEAN
    /\ MaxDeploys \in Nat /\ MaxCalls \in Nat

Schemas == {"old", "new"}
Lifecycles == {"automatic", "manual"}
NotEnrolled == [lifecycle |-> "none"]
Undefined == [lifecycle |-> "none"]

\* AlarmDefinitionConfig: only an automatic definition has a failure policy.
Definitions ==
    [lifecycle : {"automatic"}, schema : Schemas, failure : {"none", "retry", "skip"}]
        \cup [lifecycle : {"manual"}, schema : Schemas, failure : {"none"}]
        \cup {Undefined}

EnrolledRows == [lifecycle : Lifecycles, schema : Schemas, repeats : BOOLEAN, due : BOOLEAN]

VARIABLES
    def,      \* the definitions of the running deployment
    row,      \* the stored rows
    pass,     \* alarms the running pass selected and has not handled, with their rows
    claimed,  \* manual rows of the pass that nobody rescheduled since their claim
    passing,
    last,     \* what the last step did: <<"handled" | "skipped" | "called" | "kept", alarm>>
    deploys, calls

definedVars == <<def, row, pass, claimed, passing, last, deploys, calls>>

DefinedInit ==
    /\ def \in [Alarms -> Definitions] /\ row = [a \in Alarms |-> NotEnrolled]
    /\ pass = [a \in Alarms |-> NotEnrolled] /\ claimed = {} /\ passing = FALSE
    /\ last = <<"kept", "none">> /\ deploys = 0 /\ calls = 0

Kept == last' = <<"kept", "none">>
Waiting(r) == [r EXCEPT !.due = FALSE]

\* The object starts over with the code of a new deployment; a pass is cut short.
Deploy(a, d) ==
    /\ deploys < MaxDeploys /\ deploys' = deploys + 1
    /\ def' = [def EXCEPT ![a] = d]
    /\ passing' = FALSE /\ pass' = [b \in Alarms |-> NotEnrolled] /\ claimed' = {}
    /\ Kept /\ UNCHANGED <<row, calls>>

\* A mutant: the definition's lifecycle is not passed on.
StoredAutomatic(a) == "automatic"

StoredLifecycle(a) == def[a].lifecycle

\* The typed schedule: an unknown tag is refused, the payload is encoded with the
\* definition's schema, and only an automatic alarm repeats.
Schedule(a, repeats) ==
    /\ calls < MaxCalls /\ calls' = calls + 1
    /\ def[a] # Undefined /\ (repeats => def[a].lifecycle = "automatic")
    /\ row' = [row EXCEPT ![a] = [lifecycle |-> StoredLifecycle(a), schema |-> def[a].schema,
                                  repeats |-> repeats, due |-> FALSE]]
    /\ claimed' = claimed \ {a}
    /\ Kept /\ UNCHANGED <<def, pass, passing, deploys>>

\* The typed cancel needs the tag's definition, the raw scheduler's does not.
Cancel(a) ==
    /\ calls < MaxCalls /\ calls' = calls + 1 /\ row[a] # NotEnrolled
    /\ row' = [row EXCEPT ![a] = NotEnrolled] /\ claimed' = claimed \ {a}
    /\ last' = <<"called", a>>
    /\ UNCHANGED <<def, pass, passing, deploys>>

TimePasses(a) ==
    /\ row[a] # NotEnrolled /\ ~ row[a].due
    /\ row' = [row EXCEPT ![a].due = TRUE]
    /\ Kept /\ UNCHANGED <<def, pass, claimed, passing, deploys, calls>>

Due == {a \in Alarms : row[a] # NotEnrolled /\ row[a].due}
IsManual(r) == r # NotEnrolled /\ r.lifecycle = "manual"

\* processDueAlarms: the due rows of both lanes; claims move the manual ones.
Select ==
    /\ ~ passing /\ Due # {} /\ passing' = TRUE
    /\ pass' = [a \in Alarms |-> IF a \in Due THEN row[a] ELSE NotEnrolled]
    /\ claimed' = {a \in Due : IsManual(row[a])}
    /\ row' = [a \in Alarms |-> IF a \in claimed' THEN Waiting(row[a]) ELSE row[a]]
    /\ Kept /\ UNCHANGED <<def, deploys, calls>>

\* The row is still the one the pass selected, or the claim it made of it.
Current(a) == row[a] # NotEnrolled /\ (a \in claimed \/ row[a] = pass[a])

\* Mutant: the manual lane asks only for a definition.
RunsDefined(a) == def[a] # Undefined /\ def[a].schema = pass[a].schema

\* Mutant: the payload is not decoded.
RunsTagged(a) ==
    def[a] # Undefined /\ (IsManual(pass[a]) => def[a].lifecycle = "manual")

\* The handler runs: its tag is defined, manual rows find a manual definition, and
\* the payload decodes with the definition's schema.
ManualTags == {a \in Alarms : def[a].lifecycle = "manual"}
Runs(a) ==
    /\ def[a] # Undefined
    /\ IsManual(pass[a]) => a \in ManualTags
    /\ def[a].schema = pass[a].schema

Leave(a) == pass' = [pass EXCEPT ![a] = NotEnrolled] /\ UNCHANGED <<def, passing, deploys, calls>>

\* Replaced or cancelled since it was selected.
Overtaken(a) ==
    /\ pass[a] # NotEnrolled /\ ~ Current(a) /\ Leave(a) /\ Kept /\ UNCHANGED <<row, claimed>>

\* acknowledgeAlarm: a one-shot goes, a repeat waits for its next occurrence.
Acknowledged(a) == IF pass[a].repeats THEN Waiting(row[a]) ELSE NotEnrolled

Succeeds(a) ==
    /\ pass[a] # NotEnrolled /\ Current(a) /\ Runs(a) /\ ~ IsManual(pass[a]) /\ Leave(a)
    /\ row' = [row EXCEPT ![a] = Acknowledged(a)]
    /\ last' = <<"handled", a>> /\ UNCHANGED claimed

\* A manual handler leaves its alarm, reschedules or cancels it; then it succeeds or
\* fails, which changes nothing more.
ManualHandler(a, next) ==
    /\ pass[a] # NotEnrolled /\ Current(a) /\ IsManual(pass[a]) /\ Leave(a)
    /\ \/ next = "keep" /\ UNCHANGED <<row, claimed>> /\ Kept
       \/ /\ Runs(a) /\ next = "reschedule" /\ claimed' = claimed \ {a}
          /\ row' = [row EXCEPT ![a] = [Waiting(row[a]) EXCEPT !.schema = def[a].schema]] /\ Kept
       \/ /\ Runs(a) /\ next = "cancel" /\ claimed' = claimed \ {a}
          /\ row' = [row EXCEPT ![a] = NotEnrolled] /\ last' = <<"handled", a>>

\* The definition's action, else the hook's, else a retry; a hook that fails too is
\* a retry.  Behind a registration, recovery retries what no definition knows.
onFailure(a, hook) ==
    IF def[a] # Undefined /\ def[a].failure # "none" THEN def[a].failure ELSE hook
Skips(a, hook) ==
    hook # "fail" /\ onFailure(a, hook) = "skip" /\ (def[a] # Undefined \/ ~ Registered)

\* handleFailure: the handler failed, or the row could not be handed to it.  A
\* failure of the hook ends the automatic lane with its other rows still due.
Fails(a, hook) ==
    /\ pass[a] # NotEnrolled /\ Current(a) /\ ~ IsManual(pass[a])
    /\ IF Skips(a, hook)
       THEN row' = [row EXCEPT ![a] = Acknowledged(a)] /\ last' = <<"skipped", a>>
       ELSE row' = [row EXCEPT ![a] = Waiting(row[a])] /\ Kept
    /\ pass' = [b \in Alarms |-> IF b = a \/ (hook = "fail" /\ ~ IsManual(pass[b])) THEN NotEnrolled
                                 ELSE pass[b]]
    /\ UNCHANGED <<def, claimed, passing, deploys, calls>>

\* Claims that nobody replaced wait for the parked delay.
EndPass ==
    /\ passing /\ \A a \in Alarms : pass[a] = NotEnrolled
    /\ passing' = FALSE /\ claimed' = {}
    /\ row' = [a \in Alarms |-> IF a \in claimed THEN Waiting(row[a]) ELSE row[a]]
    /\ Kept /\ UNCHANGED <<def, pass, deploys, calls>>

Handle(a) ==
    \/ Overtaken(a) \/ Succeeds(a)
    \/ \E next \in {"keep", "reschedule", "cancel"} : ManualHandler(a, next)
    \/ \E hook \in HookActions : Fails(a, hook)

Idle == ~ passing /\ UNCHANGED definedVars

DefinedNext ==
    \/ \E a \in Alarms, d \in Definitions : Deploy(a, d)
    \/ \E a \in Alarms, repeats \in BOOLEAN : Schedule(a, repeats)
    \/ \E a \in Alarms : Cancel(a) \/ TimePasses(a) \/ Handle(a)
    \/ Select \/ EndPass \/ Idle

DefinedSpec == DefinedInit /\ [][DefinedNext]_definedVars

----------------------------------------------------------------------------
DefinedTypeOK ==
    /\ def \in [Alarms -> Definitions] /\ row \in [Alarms -> EnrolledRows \cup {NotEnrolled}]
    /\ pass \in [Alarms -> EnrolledRows \cup {NotEnrolled}] /\ claimed \subseteq Alarms
    /\ passing \in BOOLEAN /\ deploys \in 0..MaxDeploys /\ calls \in 0..MaxCalls

SkipIsConfigured(a) ==
    \/ def[a] # Undefined /\ def[a].failure = "skip"
    \/ "skip" \in HookActions /\ (def[a] = Undefined \/ def[a].failure = "none")

\* "Unknown stored tags ... follow the configured delivery failure policy rather than
\* being acknowledged silently": a row disappears because its handler ran on a payload
\* its definition decodes, a policy skipped it, or a caller cancelled it.
NeverLostSilently ==
    [][\A a \in Alarms :
         row[a] # NotEnrolled /\ row'[a] = NotEnrolled =>
           \/ last' = <<"called", a>>
           \/ last' = <<"handled", a>> /\ def[a] # Undefined /\ def[a].schema = pass[a].schema
           \/ last' = <<"skipped", a>> /\ ~ IsManual(pass[a]) /\ SkipIsConfigured(a)]_definedVars

\* The lifecycle is persisted with the alarm: what was enrolled as manual is ended by
\* its handler or a caller only, whatever the definition became in the meantime.
ManualStaysManual ==
    [][\A a \in Alarms :
         IsManual(row[a]) /\ row'[a] = NotEnrolled =>
           \/ last' = <<"called", a>>
           \/ last' = <<"handled", a>> /\ def[a].lifecycle = "manual"]_definedVars

\* Enrolled as what it is defined to be: a new row has the lifecycle of the definition
\* that will dispatch it.
EnrolledAsDefined ==
    [][\A a \in Alarms :
         calls' # calls /\ row'[a] # NotEnrolled /\ row'[a] # row[a] =>
           row'[a].lifecycle = def[a].lifecycle]_definedVars
=============================================================================
