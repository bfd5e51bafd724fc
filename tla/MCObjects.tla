----------------------------- MODULE MCObjects -----------------------------
\* The parts of a Durable Object around its alarm scheduler, checked in one run. They share
\* no state, so a behaviour is about one of them, its subject, and the others rest.
\* Six components come with EXTENDS, the others, and other choices of constants, as
\* instances.
EXTENDS RpcTargets, AlarmManual, AlarmRegistrations, AlarmCache, RpcWebSocket, RpcBoundary

CONSTANTS NoTag, e1, e2, a, b, c, k

VARIABLES
    subject,   \* the component of this behaviour
    bad_object, bad_admission, bad_row, bad_by, bad_stage, bad_misconfigured, bad_recovering, bad_failures, bad_processed, bad_free,
    tree_db, tree_mem, tree_reader, tree_deleting, tree_writes, tree_deletes, tree_repeats, tree_surprised,
    mig_db, mig_was, mig_pc, mig_saved, mig_managed, mig_starts,
    defs_def, defs_row, defs_pass, defs_claimed, defs_passing, defs_last, defs_deploys, defs_calls,
    two_link, two_attach, two_paired, two_awake, two_build, two_connections, two_resetSockets, two_nextClientId,
    two_fibers, two_disconnects, two_sent, two_awaiting, two_received, two_restarts,
    att_state, att_tag, att_attached, att_autoResponse, att_installed, att_call, att_todo, att_restored,
    att_listed, att_promised, att_answering, att_evictions

badVars ==
    <<bad_object, bad_admission, bad_row, bad_by, bad_stage, bad_misconfigured, bad_recovering, bad_failures, bad_processed, bad_free>>
treeVars == <<tree_db, tree_mem, tree_reader, tree_deleting, tree_writes, tree_deletes, tree_repeats, tree_surprised>>
migVars == <<mig_db, mig_was, mig_pc, mig_saved, mig_managed, mig_starts>>
defsVars == <<defs_def, defs_row, defs_pass, defs_claimed, defs_passing, defs_last, defs_deploys,
    defs_calls>>
clientsVars == <<two_link, two_attach, two_paired, two_awake, two_build, two_connections, two_resetSockets,
    two_nextClientId, two_fibers, two_disconnects, two_sent, two_awaiting, two_received, two_restarts>>
attVars == <<att_state, att_tag, att_attached, att_autoResponse, att_installed, att_call, att_todo,
    att_restored, att_listed, att_promised, att_answering, att_evictions>>

\* Two events: one with a fiber and background work on it, one with a fiber.
TwoEvents == {e1, e2}
AtHome == [x \in {a, b, c} |-> IF x = c THEN e2 ELSE e1]
Background == {b}

\* Two rows of one tag, and one of every other.
TagOfRow == [r \in {"a", "a2", "b", "c", "d", "e"} |-> IF r = "a2" THEN "a" ELSE r]
OneAtATime == [p \in {"mixed", "manual", TailPass} |-> IF p = "mixed" THEN 2 ELSE 1]

\* A service with two tags and one with two manual tags: merged as they are, twice, with
\* a tag or a name in common, with an empty tag, or with a part that is none; or none.
Part(s, d, t) == [service |-> s, dispatcher |-> d, tags |-> t, whole |-> TRUE]
MixedPart == Part("s1", "mixed", {"a", "b"})
ManualPart == Part("s2", "manual", {"c", "d"})
Merged(parts, hook) == [parts |-> parts, hook |-> hook, sql |-> "tables"]
Merges ==
    {<<MixedPart, ManualPart>>, <<MixedPart, MixedPart>>, <<MixedPart, Part("s2", "manual", {"b", "c"})>>,
     <<MixedPart, Part("s1", "manual", {"c"})>>, <<MixedPart, Part("s2", "manual", {"", "c"})>>,
     <<MixedPart, [ManualPart EXCEPT !.whole = FALSE]>>}
Unregistered == [parts : {<<>>}, hook : BOOLEAN, sql : {"tables", "absent", "broken"}]
Hooked == {Merged(m, TRUE) : m \in Merges}
Unhooked == {Merged(<<MixedPart, ManualPart>>, h) : h \in BOOLEAN} \cup Unregistered

\* One deployment; one that may drop the stream; one that may change the codec.
Deployment(codec, declared) == [codec |-> codec, declared |-> declared]
SameBuild == {Deployment("json", TRUE)}
AnyBuild == {Deployment("json", TRUE), Deployment("json", FALSE), Deployment("other", TRUE)}
OneKey == [r \in {1, 2} |-> "events"]

\* Sockets are listed by tag, whose invalid ones are closed or ignored, or all of them.
Listings ==
    {[schema |-> "chat", tag |-> "chat", onInvalid |-> p] : p \in {"ignore", "ignore-and-close", "fail"}}
    \cup {[schema |-> "chat", tag |-> NoTag, onInvalid |-> p] : p \in {"ignore", "fail"}}

\* A method of one argument that grew a second one, with schemas that differ in what
\* they accept and in their wire form; and a caller or a handler without schemas.
Wires == {Plain, Instance, Ctx}
Json(vs) == [accepts |-> vs, native |-> FALSE]
Native(vs) == [accepts |-> vs, native |-> TRUE]
Side(args, success, traces) == [defined |-> TRUE, args |-> args, success |-> success, traces |-> traces]
Raw(traces) == [defined |-> FALSE, args |-> <<>>, success |-> Json({}), traces |-> traces]
ArgLists == {<<Json({Plain, Instance})>>, <<Json({Plain, Ctx})>>, <<Native(Wires)>>,
             <<Json({Plain}), Json({Plain, Ctx})>>}
Skewed(successes) ==
    {Side(as, s, t) : as \in ArgLists, s \in successes, t \in BOOLEAN} \cup {Raw(TRUE), Raw(FALSE)}
CallerSides == Skewed({Json({Plain, Instance})})
ReceiverSides == Skewed({Json({Plain, Instance}), Native({Plain, Ctx, Instance})})
SkewedInputs == {<<>>} \cup {<<v>> : v \in Wires} \cup {<<Plain, v>> : v \in {Plain, Ctx}}

-----------------------------------------------------------------------------
Broken == INSTANCE AlarmRegistrations WITH
    Rows <- {"a", "a2", "b", "c", "d", "e"}, Manual <- {"b", "d", "e"}, DefaultLimit <- 2,
    LimitOf <- OneAtATime,
    Dispatchers <- {"mixed", "manual"}, TagOf <- TagOfRow, Mixed <- {"mixed"}, Invalid <- {"mixed"},
    Objects <- Unhooked, Empty <- "", EventPermits <- 1, PassFaults <- FALSE, object <- bad_object,
    admission <- bad_admission, row <- bad_row, by <- bad_by, stage <- bad_stage,
    misconfigured <- bad_misconfigured,
    recovering <- bad_recovering, failures <- bad_failures, processed <- bad_processed, free <- bad_free

\* An alarm with the native one.
Timed == INSTANCE AlarmCache WITH
    RowIds <- {"a"}, Oversized <- {}, MaxCached <- 1, Times <- {1},
    Surprises <- {}, MaxDepth <- 2, MaxWrites <- 1, MaxDeletes <- 0, MaxRepeats <- 0,
    db <- tree_db, mem <- tree_mem, reader <- tree_reader, deleting <- tree_deleting,
    writes <- tree_writes, deletes <- tree_deletes, repeats <- tree_repeats, surprised <- tree_surprised

\* More alarms than the cache keeps, deleted at once, in transactions that do not nest.
Bounded == INSTANCE AlarmCache WITH
    RowIds <- {"a", "b"}, Oversized <- {}, MaxCached <- 1, Times <- {},
    Surprises <- {}, MaxDepth <- 1, MaxWrites <- 2, MaxDeletes <- 1, MaxRepeats <- 0,
    db <- tree_db, mem <- tree_mem, reader <- tree_reader, deleting <- tree_deleting,
    writes <- tree_writes, deletes <- tree_deletes, repeats <- tree_repeats, surprised <- tree_surprised

\* Transactions that nobody observes, and roots that overlap.
Hidden == INSTANCE AlarmCache WITH
    RowIds <- {"a"}, Oversized <- {}, MaxCached <- 1, Times <- {},
    Surprises <- {"hidden", "overlap", "blind"}, MaxDepth <- 2, MaxWrites <- 1, MaxDeletes <- 0, MaxRepeats <- 0,
    db <- tree_db, mem <- tree_mem, reader <- tree_reader, deleting <- tree_deleting,
    writes <- tree_writes, deletes <- tree_deletes, repeats <- tree_repeats, surprised <- tree_surprised

\* The same around and between nested ones, for the native alarm alone.
Between == INSTANCE AlarmCache WITH
    RowIds <- {}, Oversized <- {}, MaxCached <- 1, Times <- {1},
    Surprises <- {"hidden", "overlap", "blind"}, MaxDepth <- 3, MaxWrites <- 0, MaxDeletes <- 0, MaxRepeats <- 0,
    db <- tree_db, mem <- tree_mem, reader <- tree_reader, deleting <- tree_deleting,
    writes <- tree_writes, deletes <- tree_deletes, repeats <- tree_repeats, surprised <- tree_surprised

Migration == INSTANCE AlarmMigration WITH
    Ids <- {"a", "b"}, MaxStarts <- 3, db <- mig_db, was <- mig_was, pc <- mig_pc, saved <- mig_saved,
    managed <- mig_managed, starts <- mig_starts

Defined == INSTANCE AlarmDefinitions WITH
    Alarms <- {"a", "b"}, HookActions <- {"none", "retry", "skip", "fail"}, Registered <- FALSE,
    MaxDeploys <- 2, MaxCalls <- 2, def <- defs_def, row <- defs_row, pass <- defs_pass,
    claimed <- defs_claimed, passing <- defs_passing, last <- defs_last, deploys <- defs_deploys,
    calls <- defs_calls

Clients == INSTANCE RpcWebSocket WITH
    Sockets <- {"s1", "s2"}, Streams <- {1}, Calls <- {}, StreamKeys <- {"events"},
    KeyOf <- [r \in {1} |-> "events"], Builds <- SameBuild, MaxValue <- 1, MaxChunk <- 1,
    MaxClients <- 2, MaxRestarts <- 1, Faults <- TRUE, link <- two_link, attach <- two_attach,
    paired <- two_paired, awake <- two_awake, build <- two_build, connections <- two_connections,
    resetSockets <- two_resetSockets, nextClientId <- two_nextClientId, fibers <- two_fibers,
    disconnects <- two_disconnects, sent <- two_sent, awaiting <- two_awaiting, received <- two_received,
    restarts <- two_restarts

Attachments == INSTANCE SocketAttachments WITH
    Sockets <- {"s1", "s2"}, Schemas <- {"chat"}, Keepalives <- {"ping", "beat"}, Calls <- Listings,
    MaxHibernations <- 1, state <- att_state, tag <- att_tag, attached <- att_attached,
    autoResponse <- att_autoResponse, installed <- att_installed, call <- att_call, todo <- att_todo,
    restored <- att_restored, listed <- att_listed, promised <- att_promised,
    answering <- att_answering, hibernations <- att_evictions

\* The constants are as the modules assume.
ASSUME InstancesFit ==
    /\ ManualAssumption
    /\ RegistrationAssumption
    /\ CacheAssumption /\ MarksAssumption
    /\ ShapeAssumption
    /\ BoundaryAssumption
    /\ Broken!RegistrationAssumption
    /\ Timed!CacheAssumption /\ Timed!MarksAssumption
    /\ Bounded!CacheAssumption /\ Bounded!MarksAssumption
    /\ Hidden!CacheAssumption /\ Hidden!MarksAssumption
    /\ Between!CacheAssumption /\ Between!MarksAssumption
    /\ Migration!MigrationAssumption
    /\ Defined!DefinitionAssumption
    /\ Attachments!AttachmentsAssumption /\ Attachments!ClosesItsOwn
    /\ Clients!ShapeAssumption

-----------------------------------------------------------------------------
\* A component that is not the subject rests in one of its initial states.
SuiteInit ==
    /\ subject \in {"targets", "manual", "registrations", "invalid", "cache", "timed", "bounded",
        "hidden", "between", "migration", "definitions", "streams", "clients", "attachments", "calls"}
    /\ Init
    /\ ManualInit
    /\ RegistrationsInit /\ (subject = "registrations" \/ object = Merged(<<MixedPart, ManualPart>>, TRUE))
    /\ Broken!RegistrationsInit /\ (subject = "invalid" \/ bad_object = Merged(<<MixedPart, ManualPart>>, TRUE))
    /\ CacheInit
    /\ IF subject = "between" THEN Between!CacheInit
       ELSE IF subject = "bounded" THEN Bounded!CacheInit ELSE Timed!CacheInit
    /\ IF subject = "migration" THEN Migration!MigrationInit ELSE
          Migration!MigrationInit /\ mig_was = [i \in {"a", "b"} |-> Migration!Fresh] /\ mig_db = Migration!Absent
    /\ IF subject = "definitions" THEN Defined!DefinedInit ELSE
          Defined!DefinedInit /\ defs_def = CHOOSE d \in [{"a", "b"} -> Defined!Definitions] : TRUE
    /\ WebSocketInit /\ (subject = "streams" \/ build = Deployment("json", TRUE))
    /\ Clients!WebSocketInit
    /\ Attachments!AttachmentsInit
    /\ BoundaryInit /\ (subject = "calls" \/ (caller = Raw(TRUE) /\ receiver = Raw(TRUE)))

\* Components that come to rest.
MayStop == {"streams", "clients", "attachments", "calls"}

SuiteNext ==
    /\ UNCHANGED subject
    /\ \/ subject = "targets" /\ Next
       \/ subject = "manual" /\ ManualNext
       \/ subject = "registrations" /\ RegistrationsNext
       \/ subject = "invalid" /\ Broken!RegistrationsNext
       \/ subject = "cache" /\ CacheNext
       \/ subject = "timed" /\ Timed!CacheNext
       \/ subject = "bounded" /\ Bounded!CacheNext
       \/ subject = "hidden" /\ Hidden!CacheNext
       \/ subject = "between" /\ Between!CacheNext
       \/ subject = "migration" /\ Migration!MigrationNext
       \/ subject = "definitions" /\ Defined!DefinedNext
       \/ subject = "streams" /\ WebSocketNext
       \/ subject = "clients" /\ Clients!WebSocketNext
       \/ subject = "attachments" /\ Attachments!AttachmentsNext
       \/ subject = "calls" /\ BoundaryNext
       \/ subject \in MayStop /\ UNCHANGED <<webSocketVars, clientsVars, attVars, boundaryVars>>
    /\ IF subject \in {"targets"} THEN TRUE ELSE UNCHANGED vars
    /\ IF subject \in {"manual"} THEN TRUE ELSE UNCHANGED manualVars
    /\ IF subject \in {"registrations"} THEN TRUE ELSE UNCHANGED registrationVars
    /\ IF subject \in {"invalid"} THEN TRUE ELSE UNCHANGED badVars
    /\ IF subject \in {"cache"} THEN TRUE ELSE UNCHANGED cacheVars
    /\ IF subject \in {"timed", "bounded", "hidden", "between"} THEN TRUE ELSE UNCHANGED treeVars
    /\ IF subject \in {"migration"} THEN TRUE ELSE UNCHANGED migVars
    /\ IF subject \in {"definitions"} THEN TRUE ELSE UNCHANGED defsVars
    /\ IF subject \in {"streams"} THEN TRUE ELSE UNCHANGED webSocketVars
    /\ IF subject \in {"clients"} THEN TRUE ELSE UNCHANGED clientsVars
    /\ IF subject \in {"attachments"} THEN TRUE ELSE UNCHANGED attVars
    /\ IF subject \in {"calls"} THEN TRUE ELSE UNCHANGED boundaryVars

suiteVars ==
    <<subject, vars, manualVars, registrationVars, badVars, cacheVars, treeVars, migVars, defsVars,
      webSocketVars, clientsVars, attVars, boundaryVars>>

SuiteSpec == SuiteInit /\ [][SuiteNext]_suiteVars

-----------------------------------------------------------------------------
\* What an object keeps is not forgotten. Rows outlive deployments and evictions: wherever
\* a migration is cut off, what a row went through is kept and the marker stands only where
\* it is complete; a row keeps the lifecycle it was enrolled with and never disappears
\* unhandled, unskipped and uncancelled; dispatchers whose options do not decode leave
\* theirs to recovery; and the cache is true of native alarms, at its limit, when everything is
\* deleted, and around, between and under transactions that it does not see. Sockets come back: those of two clients stay apart, and rehydration restores
\* every readable attachment and rejects garbled ones only.
NothingIsForgotten ==
    /\ [](subject = "migration" =>
          /\ Migration!MigrationTypeOK
          /\ Migration!MarkerIsLast
          /\ Migration!NothingForgotten
          /\ Migration!ReadyMeansMigrated)
    /\ Migration!FailureRestores
    /\ [](subject = "definitions" => Defined!DefinedTypeOK)
    /\ Defined!NeverLostSilently
    /\ Defined!ManualStaysManual
    /\ Defined!EnrolledAsDefined
    /\ [](subject = "invalid" => Broken!RegistrationsCover)
    /\ [](subject = "timed" => Timed!CacheIsTrue)
    /\ [](subject = "bounded" => Bounded!CacheIsTrue)
    /\ [](subject = "hidden" => Hidden!CacheIsTrue)
    /\ [](subject = "between" => Between!CacheIsTrue)
    /\ [](subject = "clients" => Clients!SocketsSurviveHibernation)
    /\ [](subject = "attachments" => Attachments!SocketsComeBack)

=============================================================================
