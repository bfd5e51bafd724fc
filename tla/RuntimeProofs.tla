--------------------------- MODULE RuntimeProofs ---------------------------
(***************************************************************************)
(* What the runtime's steps promise, however they are cut off or repeated:     *)
(* native operations with callbacks, for any number of retries, yields and       *)
(* failures of the platform; queues, for any messages and deliveries; the        *)
(* migration of the alarm tables, for any rows and evictions; the alarms that    *)
(* outlive the code that scheduled them, for any deployments; the events of a    *)
(* Durable Object, for any events, faults and evictions; and datagrams over      *)
(* WebTransport, for any senders, takers and queues.  Then what is read and      *)
(* written piece by piece: the tracer's bounded JSON, for any value and limits;  *)
(* an import of orders, for any batch; and Analytics Engine, for any calls.      *)
(***************************************************************************)
EXTENDS NativeTransaction, QueueDelivery, EntrypointEvents, WebTransportDatagrams, AlarmMigration,
        AlarmDefinitions, FiniteSetTheorems, TLAPS

----------------------------------------------------------------------------
(* Native operations. *)

\* The platform's state and the callback's go together: one runs only within the
\* other, unless the platform gave it up.
CallbackInItsGate ==
    /\ native \in {"idle", "called"} => callback = "none"
    /\ native = "inCallback" => callback # "none"
    /\ native \in {"resolved", "rejected"} => callback = "ended"
    /\ native = "resolved" => ~ Throws(exit)
    /\ native = "rejected" => Throws(exit)
    /\ fiber = "calling" => native = "idle"
    /\ native = "idle" => fiber \in {"calling", "done"}

\* A closed set starts no callback, and the fiber that closed it has joined the last.
ClosedSetIsQuiet ==
    /\ fiber \in {"closing", "settling"} => ~ setOpen
    /\ fiber \in {"settling", "done"} => callback \in {"none", "ended"}
    /\ fiber = "done" => native \in {"idle", "settled"}

\* What the promise settled with, and what is left of the callback's writes.
VerdictIsTrue ==
    /\ verdict # "none" <=> native = "settled"
    /\ verdict \in {"value", "thrown"} => callback = "ended"
    /\ verdict = "value" => ~ Throws(exit)
    /\ verdict = "thrown" => Throws(exit)
    /\ reset => native = "settled"
    /\ (reset /\ ~ Transactional) => verdict # "value"
    /\ verdict = "none" => written \in {"none", "tentative"}
    /\ verdict = "value" => written \in {"none", "kept"}
    /\ (Transactional /\ verdict \in {"thrown", "native"}) => written \in {"none", "undone"}

OutcomeIsTrue ==
    /\ outcome \in {"value", "own"} => verdict # "none"
    /\ (outcome = "storage" /\ verdict = "none") => native = "idle" /\ written = "none"
    /\ native = "idle" => written = "none"
    /\ outcome \notin {"none", "interrupted"} => fiber \in {"closing", "settling", "done"}
    /\ OutcomeMatchesStorage

IInv == TypeOK /\ CallbackInItsGate /\ ClosedSetIsQuiet /\ VerdictIsTrue /\ OutcomeIsTrue

LEMMA InitOK == Init => IInv
<1> SUFFICES ASSUME Init PROVE IInv
  OBVIOUS
<1>1. TypeOK
  <2>1. setOpen \in BOOLEAN /\ reset \in BOOLEAN
    BY Zenon DEF Init
  <2>2. retries \in 0..MaxRetries /\ yields \in 0..MaxYields
    BY OperationAssumption DEF Init
  <2>3. QED
    BY <2>1, <2>2 DEF Init, TypeOK, Exits
<1>2. CallbackInItsGate
  BY DEF Init, CallbackInItsGate
<1>3. ClosedSetIsQuiet /\ VerdictIsTrue
  BY DEF Init, ClosedSetIsQuiet, VerdictIsTrue
<1>4. OutcomeIsTrue
  BY DEF Init, OutcomeIsTrue, OutcomeMatchesStorage
<1>5. QED
  BY <1>1, <1>2, <1>3, <1>4 DEF IInv

LEMMA CallOK == ASSUME IInv, Call PROVE IInv'
<1>1. TypeOK'
  BY OperationAssumption DEF IInv, TypeOK, Exits, Call
<1>2. CallbackInItsGate'
  BY OperationAssumption DEF IInv, TypeOK, CallbackInItsGate, ClosedSetIsQuiet, VerdictIsTrue, Throws, Transactional, Call
<1>3. ClosedSetIsQuiet'
  BY DEF IInv, TypeOK, CallbackInItsGate, ClosedSetIsQuiet, VerdictIsTrue, Call
<1>4. VerdictIsTrue'
  BY OperationAssumption DEF IInv, TypeOK, CallbackInItsGate, ClosedSetIsQuiet, VerdictIsTrue, Throws, Transactional, Call
<1>5. OutcomeIsTrue'
  BY OperationAssumption DEF IInv, TypeOK, CallbackInItsGate, ClosedSetIsQuiet, VerdictIsTrue, OutcomeIsTrue, OutcomeMatchesStorage, Throws, Transactional, Call
<1>6. QED
  BY <1>1, <1>2, <1>3, <1>4, <1>5 DEF IInv

LEMMA InvokeOK == ASSUME IInv, Invoke PROVE IInv'
<1>1. TypeOK'
  BY OperationAssumption DEF IInv, TypeOK, Exits, Invoke
<1>2. CallbackInItsGate'
  BY OperationAssumption DEF IInv, TypeOK, CallbackInItsGate, ClosedSetIsQuiet, VerdictIsTrue, Throws, Transactional, Invoke
<1>3. ClosedSetIsQuiet'
  BY DEF IInv, TypeOK, CallbackInItsGate, ClosedSetIsQuiet, VerdictIsTrue, Invoke
<1>4. VerdictIsTrue'
  BY OperationAssumption DEF IInv, TypeOK, CallbackInItsGate, ClosedSetIsQuiet, VerdictIsTrue, Throws, Transactional, Invoke
<1>5. OutcomeIsTrue'
  BY OperationAssumption DEF IInv, TypeOK, CallbackInItsGate, ClosedSetIsQuiet, VerdictIsTrue, OutcomeIsTrue, OutcomeMatchesStorage, Throws, Transactional, Invoke
<1>6. QED
  BY <1>1, <1>2, <1>3, <1>4, <1>5 DEF IInv

LEMMA WriteOK == ASSUME IInv, Write PROVE IInv'
<1>1. TypeOK'
  BY OperationAssumption DEF IInv, TypeOK, Exits, Write
<1>2. CallbackInItsGate'
  BY OperationAssumption DEF IInv, TypeOK, CallbackInItsGate, ClosedSetIsQuiet, VerdictIsTrue, Throws, Transactional, Write
<1>3. ClosedSetIsQuiet'
  BY DEF IInv, TypeOK, CallbackInItsGate, ClosedSetIsQuiet, VerdictIsTrue, Write
<1>4. VerdictIsTrue'
  BY OperationAssumption DEF IInv, TypeOK, CallbackInItsGate, ClosedSetIsQuiet, VerdictIsTrue, Throws, Transactional, Write
<1>5. OutcomeIsTrue'
  BY OperationAssumption DEF IInv, TypeOK, CallbackInItsGate, ClosedSetIsQuiet, VerdictIsTrue, OutcomeIsTrue, OutcomeMatchesStorage, Throws, Transactional, Write
<1>6. QED
  BY <1>1, <1>2, <1>3, <1>4, <1>5 DEF IInv

LEMMA GuardOK == ASSUME IInv, Guard PROVE IInv'
<1>1. TypeOK'
  BY OperationAssumption DEF IInv, TypeOK, Exits, Guard
<1>2. CallbackInItsGate'
  BY OperationAssumption DEF IInv, TypeOK, CallbackInItsGate, ClosedSetIsQuiet, VerdictIsTrue, Throws, Transactional, Guard
<1>3. ClosedSetIsQuiet'
  BY DEF IInv, TypeOK, CallbackInItsGate, ClosedSetIsQuiet, VerdictIsTrue, Guard
<1>4. VerdictIsTrue'
  BY OperationAssumption DEF IInv, TypeOK, CallbackInItsGate, ClosedSetIsQuiet, VerdictIsTrue, Throws, Transactional, Guard
<1>5. OutcomeIsTrue'
  BY OperationAssumption DEF IInv, TypeOK, CallbackInItsGate, ClosedSetIsQuiet, VerdictIsTrue, OutcomeIsTrue, OutcomeMatchesStorage, Throws, Transactional, Guard
<1>6. QED
  BY <1>1, <1>2, <1>3, <1>4, <1>5 DEF IInv

LEMMA UnguardOK == ASSUME IInv, Unguard PROVE IInv'
<1>1. TypeOK'
  BY OperationAssumption DEF IInv, TypeOK, Exits, Unguard
<1>2. CallbackInItsGate'
  BY OperationAssumption DEF IInv, TypeOK, CallbackInItsGate, ClosedSetIsQuiet, VerdictIsTrue, Throws, Transactional, Unguard
<1>3. ClosedSetIsQuiet'
  BY DEF IInv, TypeOK, CallbackInItsGate, ClosedSetIsQuiet, VerdictIsTrue, Unguard
<1>4. VerdictIsTrue'
  BY OperationAssumption DEF IInv, TypeOK, CallbackInItsGate, ClosedSetIsQuiet, VerdictIsTrue, Throws, Transactional, Unguard
<1>5. OutcomeIsTrue'
  BY OperationAssumption DEF IInv, TypeOK, CallbackInItsGate, ClosedSetIsQuiet, VerdictIsTrue, OutcomeIsTrue, OutcomeMatchesStorage, Throws, Transactional, Unguard
<1>6. QED
  BY <1>1, <1>2, <1>3, <1>4, <1>5 DEF IInv

LEMMA YieldOK == ASSUME IInv, Yield PROVE IInv'
<1>1. TypeOK'
  BY OperationAssumption DEF IInv, TypeOK, Exits, Yield
<1>2. CallbackInItsGate'
  BY OperationAssumption DEF IInv, TypeOK, CallbackInItsGate, ClosedSetIsQuiet, VerdictIsTrue, Throws, Transactional, Yield
<1>3. ClosedSetIsQuiet'
  BY DEF IInv, TypeOK, CallbackInItsGate, ClosedSetIsQuiet, VerdictIsTrue, Yield
<1>4. VerdictIsTrue'
  BY OperationAssumption DEF IInv, TypeOK, CallbackInItsGate, ClosedSetIsQuiet, VerdictIsTrue, Throws, Transactional, Yield
<1>5. OutcomeIsTrue'
  BY OperationAssumption DEF IInv, TypeOK, CallbackInItsGate, ClosedSetIsQuiet, VerdictIsTrue, OutcomeIsTrue, OutcomeMatchesStorage, Throws, Transactional, Yield
<1>6. QED
  BY <1>1, <1>2, <1>3, <1>4, <1>5 DEF IInv

LEMMA ResumeOK == ASSUME IInv, Resume PROVE IInv'
<1>1. TypeOK'
  BY OperationAssumption DEF IInv, TypeOK, Exits, Resume, YieldsEnd
<1>2. CallbackInItsGate'
  BY OperationAssumption DEF IInv, TypeOK, CallbackInItsGate, ClosedSetIsQuiet, VerdictIsTrue, Throws, Transactional, Resume, YieldsEnd
<1>3. ClosedSetIsQuiet'
  BY DEF IInv, TypeOK, CallbackInItsGate, ClosedSetIsQuiet, VerdictIsTrue, Resume, YieldsEnd
<1>4. VerdictIsTrue'
  BY OperationAssumption DEF IInv, TypeOK, CallbackInItsGate, ClosedSetIsQuiet, VerdictIsTrue, Throws, Transactional, Resume, YieldsEnd
<1>5. OutcomeIsTrue'
  BY OperationAssumption DEF IInv, TypeOK, CallbackInItsGate, ClosedSetIsQuiet, VerdictIsTrue, OutcomeIsTrue, OutcomeMatchesStorage, Throws, Transactional, Resume, YieldsEnd
<1>6. QED
  BY <1>1, <1>2, <1>3, <1>4, <1>5 DEF IInv

LEMMA FinishOK == ASSUME IInv, NEW e \in Exits, Finish(e) PROVE IInv'
<1>1. TypeOK'
  BY OperationAssumption DEF IInv, TypeOK, Exits, Finish
<1>2. CallbackInItsGate'
  BY OperationAssumption DEF IInv, TypeOK, CallbackInItsGate, ClosedSetIsQuiet, VerdictIsTrue, Throws, Transactional, Exits, Finish
<1>3. ClosedSetIsQuiet'
  BY DEF IInv, TypeOK, CallbackInItsGate, ClosedSetIsQuiet, VerdictIsTrue, Exits, Finish
<1>4. VerdictIsTrue'
  BY OperationAssumption DEF IInv, TypeOK, CallbackInItsGate, ClosedSetIsQuiet, VerdictIsTrue, Throws, Transactional, Exits, Finish
<1>5. OutcomeIsTrue'
  BY OperationAssumption DEF IInv, TypeOK, CallbackInItsGate, ClosedSetIsQuiet, VerdictIsTrue, OutcomeIsTrue, OutcomeMatchesStorage, Throws, Transactional, Exits, Finish
<1>6. QED
  BY <1>1, <1>2, <1>3, <1>4, <1>5 DEF IInv

LEMMA ReturnOK == ASSUME IInv, Return PROVE IInv'
<1>1. TypeOK'
  BY OperationAssumption DEF IInv, TypeOK, Exits, Return
<1>2. CallbackInItsGate'
  BY OperationAssumption DEF IInv, TypeOK, CallbackInItsGate, ClosedSetIsQuiet, VerdictIsTrue, Throws, Transactional, Return
<1>3. ClosedSetIsQuiet'
  BY DEF IInv, TypeOK, CallbackInItsGate, ClosedSetIsQuiet, VerdictIsTrue, Return
<1>4. VerdictIsTrue'
  BY OperationAssumption DEF IInv, TypeOK, CallbackInItsGate, ClosedSetIsQuiet, VerdictIsTrue, Throws, Transactional, Return
<1>5. OutcomeIsTrue'
  BY OperationAssumption DEF IInv, TypeOK, CallbackInItsGate, ClosedSetIsQuiet, VerdictIsTrue, OutcomeIsTrue, OutcomeMatchesStorage, Throws, Transactional, Return
<1>6. QED
  BY <1>1, <1>2, <1>3, <1>4, <1>5 DEF IInv

LEMMA CommitOK == ASSUME IInv, Commit PROVE IInv'
<1>1. TypeOK'
  BY OperationAssumption DEF IInv, TypeOK, Exits, Commit
<1>2. CallbackInItsGate'
  BY OperationAssumption DEF IInv, TypeOK, CallbackInItsGate, ClosedSetIsQuiet, VerdictIsTrue, Throws, Transactional, Commit
<1>3. ClosedSetIsQuiet'
  BY DEF IInv, TypeOK, CallbackInItsGate, ClosedSetIsQuiet, VerdictIsTrue, Commit
<1>4. VerdictIsTrue'
  BY OperationAssumption DEF IInv, TypeOK, CallbackInItsGate, ClosedSetIsQuiet, VerdictIsTrue, Throws, Transactional, Commit
<1>5. OutcomeIsTrue'
  BY OperationAssumption DEF IInv, TypeOK, CallbackInItsGate, ClosedSetIsQuiet, VerdictIsTrue, OutcomeIsTrue, OutcomeMatchesStorage, Throws, Transactional, Commit
<1>6. QED
  BY <1>1, <1>2, <1>3, <1>4, <1>5 DEF IInv

LEMMA RetryOK == ASSUME IInv, Retry PROVE IInv'
<1>1. TypeOK'
  BY OperationAssumption DEF IInv, TypeOK, Exits, Retry
<1>2. CallbackInItsGate'
  BY OperationAssumption DEF IInv, TypeOK, CallbackInItsGate, ClosedSetIsQuiet, VerdictIsTrue, Throws, Transactional, Retry
<1>3. ClosedSetIsQuiet'
  BY DEF IInv, TypeOK, CallbackInItsGate, ClosedSetIsQuiet, VerdictIsTrue, Retry
<1>4. VerdictIsTrue'
  BY OperationAssumption DEF IInv, TypeOK, CallbackInItsGate, ClosedSetIsQuiet, VerdictIsTrue, Throws, Transactional, Retry
<1>5. OutcomeIsTrue'
  BY OperationAssumption DEF IInv, TypeOK, CallbackInItsGate, ClosedSetIsQuiet, VerdictIsTrue, OutcomeIsTrue, OutcomeMatchesStorage, Throws, Transactional, Retry
<1>6. QED
  BY <1>1, <1>2, <1>3, <1>4, <1>5 DEF IInv

LEMMA NativeFailsOK == ASSUME IInv, NativeFails PROVE IInv'
<1>1. TypeOK'
  BY OperationAssumption DEF IInv, TypeOK, Exits, NativeFails
<1>2. CallbackInItsGate'
  BY OperationAssumption DEF IInv, TypeOK, CallbackInItsGate, ClosedSetIsQuiet, VerdictIsTrue, Throws, Transactional, NativeFails
<1>3. ClosedSetIsQuiet'
  BY DEF IInv, TypeOK, CallbackInItsGate, ClosedSetIsQuiet, VerdictIsTrue, NativeFails
<1>4. VerdictIsTrue'
  BY OperationAssumption DEF IInv, TypeOK, CallbackInItsGate, ClosedSetIsQuiet, VerdictIsTrue, Throws, Transactional, NativeFails
<1>5. OutcomeIsTrue'
  BY OperationAssumption DEF IInv, TypeOK, CallbackInItsGate, ClosedSetIsQuiet, VerdictIsTrue, OutcomeIsTrue, OutcomeMatchesStorage, Throws, Transactional, NativeFails
<1>6. QED
  BY <1>1, <1>2, <1>3, <1>4, <1>5 DEF IInv

LEMMA AbortOK == ASSUME IInv, Abort PROVE IInv'
<1>1. TypeOK'
  BY OperationAssumption DEF IInv, TypeOK, Exits, Abort
<1>2. CallbackInItsGate'
  BY OperationAssumption DEF IInv, TypeOK, CallbackInItsGate, ClosedSetIsQuiet, VerdictIsTrue, Throws, Transactional, Abort
<1>3. ClosedSetIsQuiet'
  BY DEF IInv, TypeOK, CallbackInItsGate, ClosedSetIsQuiet, VerdictIsTrue, Abort
<1>4. VerdictIsTrue'
  BY OperationAssumption DEF IInv, TypeOK, CallbackInItsGate, ClosedSetIsQuiet, VerdictIsTrue, Throws, Transactional, Abort
<1>5. OutcomeIsTrue'
  BY OperationAssumption DEF IInv, TypeOK, CallbackInItsGate, ClosedSetIsQuiet, VerdictIsTrue, OutcomeIsTrue, OutcomeMatchesStorage, Throws, Transactional, Abort
<1>6. QED
  BY <1>1, <1>2, <1>3, <1>4, <1>5 DEF IInv

LEMMA SettleOK == ASSUME IInv, Settle PROVE IInv'
<1>1. TypeOK'
  BY OperationAssumption DEF IInv, TypeOK, Exits, Settle, Outcome, IsOwn
<1>2. CallbackInItsGate'
  BY OperationAssumption DEF IInv, TypeOK, CallbackInItsGate, ClosedSetIsQuiet, VerdictIsTrue, Throws, Transactional, Settle, Outcome, IsOwn
<1>3. ClosedSetIsQuiet'
  BY DEF IInv, TypeOK, CallbackInItsGate, ClosedSetIsQuiet, VerdictIsTrue, Settle, Outcome, IsOwn
<1>4. VerdictIsTrue'
  BY OperationAssumption DEF IInv, TypeOK, CallbackInItsGate, ClosedSetIsQuiet, VerdictIsTrue, Throws, Transactional, Settle, Outcome, IsOwn
<1>5. OutcomeIsTrue'
  BY OperationAssumption DEF IInv, TypeOK, CallbackInItsGate, ClosedSetIsQuiet, VerdictIsTrue, OutcomeIsTrue, OutcomeMatchesStorage, Throws, Transactional, Settle, Outcome, IsOwn
<1>6. QED
  BY <1>1, <1>2, <1>3, <1>4, <1>5 DEF IInv

LEMMA InterruptOK == ASSUME IInv, Interrupt PROVE IInv'
<1>1. TypeOK'
  <2>1. setOpen' \in BOOLEAN
    BY Zenon DEF Interrupt
  <2>2. QED
    BY <2>1 DEF IInv, TypeOK, Exits, Interrupt
<1>2. CallbackInItsGate'
  BY OperationAssumption DEF IInv, TypeOK, CallbackInItsGate, ClosedSetIsQuiet, VerdictIsTrue, Throws, Transactional, Interrupt
<1>3. ClosedSetIsQuiet'
  BY DEF IInv, TypeOK, CallbackInItsGate, ClosedSetIsQuiet, VerdictIsTrue, Interrupt
<1>4. VerdictIsTrue'
  BY OperationAssumption DEF IInv, TypeOK, CallbackInItsGate, ClosedSetIsQuiet, VerdictIsTrue, Throws, Transactional, Interrupt
<1>5. OutcomeIsTrue'
  BY OperationAssumption DEF IInv, TypeOK, CallbackInItsGate, ClosedSetIsQuiet, VerdictIsTrue, OutcomeIsTrue, OutcomeMatchesStorage, Throws, Transactional, Interrupt
<1>6. QED
  BY <1>1, <1>2, <1>3, <1>4, <1>5 DEF IInv

LEMMA InterruptCallbackOK == ASSUME IInv, InterruptCallback PROVE IInv'
<1>1. TypeOK'
  BY OperationAssumption DEF IInv, TypeOK, Exits, InterruptCallback
<1>2. CallbackInItsGate'
  BY OperationAssumption DEF IInv, TypeOK, CallbackInItsGate, ClosedSetIsQuiet, VerdictIsTrue, Throws, Transactional, InterruptCallback
<1>3. ClosedSetIsQuiet'
  BY DEF IInv, TypeOK, CallbackInItsGate, ClosedSetIsQuiet, VerdictIsTrue, InterruptCallback
<1>4. VerdictIsTrue'
  BY OperationAssumption DEF IInv, TypeOK, CallbackInItsGate, ClosedSetIsQuiet, VerdictIsTrue, Throws, Transactional, InterruptCallback
<1>5. OutcomeIsTrue'
  BY OperationAssumption DEF IInv, TypeOK, CallbackInItsGate, ClosedSetIsQuiet, VerdictIsTrue, OutcomeIsTrue, OutcomeMatchesStorage, Throws, Transactional, InterruptCallback
<1>6. QED
  BY <1>1, <1>2, <1>3, <1>4, <1>5 DEF IInv

LEMMA CallbackJoinedOK == ASSUME IInv, CallbackJoined PROVE IInv'
<1>1. TypeOK'
  BY OperationAssumption DEF IInv, TypeOK, Exits, CallbackJoined, Joined
<1>2. CallbackInItsGate'
  BY OperationAssumption DEF IInv, TypeOK, CallbackInItsGate, ClosedSetIsQuiet, VerdictIsTrue, Throws, Transactional, CallbackJoined, Joined
<1>3. ClosedSetIsQuiet'
  BY DEF IInv, TypeOK, CallbackInItsGate, ClosedSetIsQuiet, VerdictIsTrue, CallbackJoined, Joined
<1>4. VerdictIsTrue'
  BY OperationAssumption DEF IInv, TypeOK, CallbackInItsGate, ClosedSetIsQuiet, VerdictIsTrue, Throws, Transactional, CallbackJoined, Joined
<1>5. OutcomeIsTrue'
  BY OperationAssumption DEF IInv, TypeOK, CallbackInItsGate, ClosedSetIsQuiet, VerdictIsTrue, OutcomeIsTrue, OutcomeMatchesStorage, Throws, Transactional, CallbackJoined, Joined
<1>6. QED
  BY <1>1, <1>2, <1>3, <1>4, <1>5 DEF IInv

LEMMA NativeSettledOK == ASSUME IInv, NativeSettled PROVE IInv'
<1>1. TypeOK'
  BY OperationAssumption DEF IInv, TypeOK, Exits, NativeSettled, NativeAwaited
<1>2. CallbackInItsGate'
  BY OperationAssumption DEF IInv, TypeOK, CallbackInItsGate, ClosedSetIsQuiet, VerdictIsTrue, Throws, Transactional, NativeSettled, NativeAwaited
<1>3. ClosedSetIsQuiet'
  BY DEF IInv, TypeOK, CallbackInItsGate, ClosedSetIsQuiet, VerdictIsTrue, NativeSettled, NativeAwaited
<1>4. VerdictIsTrue'
  BY OperationAssumption DEF IInv, TypeOK, CallbackInItsGate, ClosedSetIsQuiet, VerdictIsTrue, Throws, Transactional, NativeSettled, NativeAwaited
<1>5. OutcomeIsTrue'
  BY OperationAssumption DEF IInv, TypeOK, CallbackInItsGate, ClosedSetIsQuiet, VerdictIsTrue, OutcomeIsTrue, OutcomeMatchesStorage, Throws, Transactional, NativeSettled, NativeAwaited
<1>6. QED
  BY <1>1, <1>2, <1>3, <1>4, <1>5 DEF IInv

LEMMA StutterOK == ASSUME IInv, UNCHANGED vars PROVE IInv'
BY DEF vars, IInv, TypeOK, CallbackInItsGate, ClosedSetIsQuiet, VerdictIsTrue, OutcomeIsTrue,
       OutcomeMatchesStorage, Throws, Transactional

LEMMA Invariance == Spec => []IInv
<1>1. IInv /\ [Next]_vars => IInv'
  BY CallOK, InvokeOK, WriteOK, GuardOK, UnguardOK, YieldOK, ResumeOK, FinishOK, ReturnOK,
     CommitOK, RetryOK, NativeFailsOK, AbortOK, SettleOK, InterruptOK, InterruptCallbackOK, CallbackJoinedOK, NativeSettledOK, StutterOK
     DEF Next, FiberSteps, NativeSteps, CallbackSteps, Terminated
<1>2. QED
  BY InitOK, <1>1, PTL DEF Spec

----------------------------------------------------------------------------
\* Every variable keeps its domain.
THEOREM TypeCorrect == Spec => []TypeOK
BY Invariance, PTL DEF IInv

\* Nothing of a native operation outlives the fiber that called it, interrupted or
\* not: its callback has ended and the platform has released the gate.
THEOREM NothingOutlivesTheFiber == Spec => []NothingOutlives
<1>1. IInv => NothingOutlives
  BY DEF IInv, ClosedSetIsQuiet, NothingOutlives
<1>2. QED
  BY Invariance, <1>1, PTL

\* The exit of the fiber says what became of the transaction's writes.
THEOREM ExitTellsTheStorage == Spec => []OutcomeMatchesStorage
<1>1. IInv => OutcomeMatchesStorage
  BY DEF IInv, OutcomeIsTrue
<1>2. QED
  BY Invariance, <1>1, PTL

\* An object that blocks on its callback is reset only when the callback died, was
\* interrupted, or the platform gave up.
THEOREM ResetOnlyWhenJustified == Spec => []ResetIsJustified
<1>1. IInv => ResetIsJustified
  BY DEF IInv, VerdictIsTrue, TypeOK, ResetIsJustified, Throws, Transactional
<1>2. QED
  BY Invariance, <1>1, PTL

\* A native operation is whole, for every operation, retries, yields and failures.
THEOREM EveryOperationIsWhole == Spec => []OperationIsWhole
BY TypeCorrect, NothingOutlivesTheFiber, ExitTellsTheStorage, ResetOnlyWhenJustified, PTL
   DEF OperationIsWhole

----------------------------------------------------------------------------
(* Queues. *)

Somewhere == queue \union batch \union acked \union dead

QueueTypeOK ==
    /\ sent \subseteq SUBSET Messages /\ refused \subseteq SUBSET Messages
    /\ queue \subseteq Messages /\ batch \subseteq Messages
    /\ acked \subseteq Messages /\ dead \subseteq Messages
    /\ phase \in {"none", "decoding", "handling", "done", "failed"}
    /\ marked \in [Messages -> {"none", "ack", "retry"}]

\* A handler that got a message got its whole batch, and acknowledges nothing else.
BatchIsWhole ==
    /\ phase \in {"handling", "done"} => batch \subseteq seen
    /\ \A m \in batch : marked[m] # "none" => m \in seen
    /\ phase = "none" => batch = {}

\* Only what was sent, or was there from another producer, is anywhere.
Sources == Somewhere \subseteq (UNION sent) \union Alien

\* A message belongs to one call of the producer.
CallsAreApart == \A ms \in refused : ms \intersect ((UNION sent) \union Alien) = {}

QueueIInv == QueueTypeOK /\ BatchIsWhole /\ Sources /\ CallsAreApart /\ AllOrNothing /\ OnlySeenIsAcked

\* One more call of the producer.
LEMMA OneMore == ASSUME NEW S, NEW x PROVE UNION (S \union {x}) = (UNION S) \union x
OBVIOUS

LEMMA QueueInitOK == QueueInit => QueueIInv
<1> SUFFICES ASSUME QueueInit PROVE QueueIInv
  OBVIOUS
<1>1. UNION sent = {} /\ UNION refused = {} /\ Somewhere = Alien
  BY DEF QueueInit, Somewhere
<1>2. QueueTypeOK /\ OnlySeenIsAcked
  BY QueueAssumption DEF QueueInit, QueueTypeOK, OnlySeenIsAcked
<1>3. BatchIsWhole
  BY DEF QueueInit, BatchIsWhole
<1>4. Sources /\ CallsAreApart
  BY <1>1 DEF QueueInit, Sources, CallsAreApart
<1>5. AllOrNothing
  BY <1>1 DEF QueueInit, AllOrNothing
<1>6. QED
  BY <1>2, <1>3, <1>4, <1>5 DEF QueueIInv

\* A step that neither sends nor loses a message keeps what concerns the producer.
LEMMA NothingMoves ==
    ASSUME QueueIInv, Somewhere' = Somewhere, UNCHANGED <<sent, refused>>
    PROVE  Sources' /\ CallsAreApart' /\ AllOrNothing'
<1>1. Sources' /\ CallsAreApart'
  BY DEF QueueIInv, Sources, CallsAreApart
<1>2. AllOrNothing'
  BY DEF QueueIInv, AllOrNothing, Somewhere
<1>3. QED
  BY <1>1, <1>2

LEMMA SendOK == ASSUME QueueIInv, NEW ms \in SUBSET Messages, Send(ms) PROVE QueueIInv'
<1>1. ms # {} /\ ms \intersect (UNION sent) = {} /\ ms \intersect (UNION refused) = {} /\ ms \intersect Alien = {}
  BY DEF Send, Known
<1>2. ms \notin sent
  BY <1>1
<1>3. \/ /\ sent' = sent \union {ms} /\ refused' = refused /\ queue' = queue \union ms
      \/ /\ sent' = sent /\ refused' = refused \union {ms} /\ queue' = queue
  BY <1>2 DEF Send, SendsAll
<1>4. UNCHANGED <<acked, dead, batch, phase, marked, seen>>
  BY DEF Send
<1>5. QueueTypeOK' /\ BatchIsWhole' /\ OnlySeenIsAcked'
  BY <1>3, <1>4 DEF QueueIInv, QueueTypeOK, BatchIsWhole, OnlySeenIsAcked
<1>6. CASE sent' = sent \union {ms} /\ refused' = refused /\ queue' = queue \union ms
  <2>1. UNION sent' = (UNION sent) \union ms
    BY <1>6, OneMore
  <2>2. Somewhere' = Somewhere \union ms
    BY <1>4, <1>6 DEF Somewhere
  <2>3. Sources'
    BY <2>1, <2>2 DEF QueueIInv, Sources
  <2>4. CallsAreApart'
    <3>1. \A r \in refused : r \intersect ms = {}
      BY <1>1
    <3>2. QED
      BY <1>6, <2>1, <3>1 DEF QueueIInv, CallsAreApart
  <2>5. \A r \in refused' : r \intersect Somewhere' = {}
    BY <2>3, <2>4 DEF Sources, CallsAreApart
  <2>6. UNION sent \subseteq Somewhere
    BY DEF QueueIInv, AllOrNothing, Somewhere
  <2>7. AllOrNothing'
    BY <2>1, <2>2, <2>5, <2>6 DEF AllOrNothing, Somewhere
  <2>8. QED
    BY <1>5, <2>3, <2>4, <2>7 DEF QueueIInv
<1>7. CASE sent' = sent /\ refused' = refused \union {ms} /\ queue' = queue
  <2>1. Somewhere' = Somewhere
    BY <1>4, <1>7 DEF Somewhere
  <2>2. Sources'
    BY <1>7, <2>1 DEF QueueIInv, Sources
  <2>3. CallsAreApart'
    <3>1. ms \intersect ((UNION sent) \union Alien) = {}
      BY <1>1
    <3>2. refused' = refused \union {ms} /\ UNION sent' = UNION sent
      BY <1>7
    <3>3. QED
      BY <3>1, <3>2 DEF QueueIInv, CallsAreApart
  <2>4. \A r \in refused' : r \intersect Somewhere' = {}
    BY <2>2, <2>3 DEF Sources, CallsAreApart
  <2>5. UNION sent' \subseteq Somewhere'
    BY <1>7, <2>1 DEF QueueIInv, AllOrNothing, Somewhere
  <2>6. AllOrNothing'
    BY <2>4, <2>5 DEF AllOrNothing, Somewhere
  <2>7. QED
    BY <1>5, <2>2, <2>3, <2>6 DEF QueueIInv
<1>8. QED
  BY <1>3, <1>6, <1>7

LEMMA DeliverOK == ASSUME QueueIInv, NEW ms \in SUBSET Messages, Deliver(ms) PROVE QueueIInv'
<1>1. batch = {} /\ batch' = ms /\ queue' = queue \ ms /\ ms \subseteq queue /\ phase' = "decoding"
  BY DEF Deliver, QueueIInv, BatchIsWhole
<1>2. Somewhere' = Somewhere
  BY <1>1 DEF Deliver, Somewhere
<1>3. QueueTypeOK' /\ BatchIsWhole' /\ OnlySeenIsAcked'
  BY <1>1 DEF Deliver, QueueIInv, QueueTypeOK, BatchIsWhole, OnlySeenIsAcked
<1>4. QED
  BY <1>2, <1>3, NothingMoves DEF Deliver, QueueIInv

LEMMA DecodeOK == ASSUME QueueIInv, Decode PROVE QueueIInv'
<1>1. Somewhere' = Somewhere
  BY DEF Decode, Somewhere
<1>2. batch' = batch /\ seen \subseteq seen' /\ phase' \in {"handling", "failed"}
  BY DEF Decode
<1>3. phase' = "handling" => batch \subseteq seen'
  BY DEF Decode, DecodesAll
<1>4. QueueTypeOK' /\ BatchIsWhole' /\ OnlySeenIsAcked'
  BY <1>2, <1>3 DEF Decode, QueueIInv, QueueTypeOK, BatchIsWhole, OnlySeenIsAcked
<1>5. QED
  BY <1>1, <1>4, NothingMoves DEF Decode, QueueIInv

LEMMA MarkOK ==
    ASSUME QueueIInv, NEW m \in Messages, NEW how \in {"ack", "retry"}, Mark(m, how) \/ MarkAll(how)
    PROVE  QueueIInv'
<1>1. Somewhere' = Somewhere
  BY DEF Mark, MarkAll, Somewhere
<1>2. phase = "handling" /\ UNCHANGED <<sent, refused, queue, acked, dead, batch, phase, seen>>
  BY DEF Mark, MarkAll
<1>3. marked' \in [Messages -> {"none", "ack", "retry"}]
  BY DEF Mark, MarkAll, QueueIInv, QueueTypeOK
<1>4. QueueTypeOK' /\ BatchIsWhole' /\ OnlySeenIsAcked'
  BY <1>2, <1>3 DEF QueueIInv, QueueTypeOK, BatchIsWhole, OnlySeenIsAcked
<1>5. QED
  BY <1>1, <1>2, <1>4, NothingMoves DEF QueueIInv

LEMMA MarkAllOK ==
    ASSUME QueueIInv, NEW how \in {"ack", "retry"}, MarkAll(how)
    PROVE  QueueIInv'
<1>1. PICK m \in batch : marked[m] = "none"
  BY DEF MarkAll
<1>2. m \in Messages
  BY <1>1 DEF QueueIInv, QueueTypeOK
<1>3. QED
  BY <1>2, MarkOK

LEMMA HandlerEndsOK == ASSUME QueueIInv, HandlerEnds PROVE QueueIInv'
<1>1. Somewhere' = Somewhere
  BY DEF HandlerEnds, Somewhere
<1>2. QueueTypeOK' /\ BatchIsWhole' /\ OnlySeenIsAcked'
  BY DEF HandlerEnds, QueueIInv, QueueTypeOK, BatchIsWhole, OnlySeenIsAcked
<1>3. QED
  BY <1>1, <1>2, NothingMoves DEF HandlerEnds, QueueIInv

\* The batch is over: its messages are shared out among the queue, the acknowledged,
\* who were seen, and the dead letters.
LEMMA BatchEnds ==
    ASSUME QueueIInv, NEW done \in SUBSET batch, NEW over \in SUBSET (batch \ done), done \subseteq seen,
           acked' = acked \union done, dead' = dead \union over,
           queue' = queue \union (batch \ (done \union over)),
           batch' = {}, phase' = "none", marked' = [m \in Messages |-> "none"],
           UNCHANGED <<sent, refused, seen>>
    PROVE  QueueIInv'
<1>1. Somewhere' = Somewhere
  BY DEF Somewhere
<1>2. QueueTypeOK'
  BY DEF QueueIInv, QueueTypeOK
<1>3. BatchIsWhole' /\ OnlySeenIsAcked'
  BY DEF QueueIInv, BatchIsWhole, OnlySeenIsAcked
<1>4. QED
  BY <1>1, <1>2, <1>3, NothingMoves DEF QueueIInv

LEMMA SettleBatchOK == ASSUME QueueIInv, SettleBatch PROVE QueueIInv'
<1> DEFINE done == {m \in batch : marked[m] = "ack" \/ (Resolves /\ marked[m] = "none")}
           over == {m \in batch \ done : attempts[m] = MaxAttempts}
<1>1. done \subseteq seen
  BY DEF QueueIInv, BatchIsWhole, Resolves
<1>2. done \in SUBSET batch /\ over \in SUBSET (batch \ done)
  OBVIOUS
<1>3. /\ acked' = acked \union done /\ dead' = dead \union over
      /\ queue' = queue \union (batch \ (done \union over))
      /\ batch' = {} /\ phase' = "none" /\ marked' = [m \in Messages |-> "none"]
      /\ UNCHANGED <<sent, refused, seen>>
  BY DEF SettleBatch
<1> HIDE DEF done, over
<1>4. QED
  BY <1>1, <1>2, <1>3, BatchEnds

LEMMA LostOK == ASSUME QueueIInv, Lost PROVE QueueIInv'
<1> DEFINE over == {m \in batch : attempts[m] = MaxAttempts}
<1>1. over \in SUBSET (batch \ {}) /\ {} \in SUBSET batch /\ {} \subseteq seen
  OBVIOUS
<1>2. /\ acked' = acked \union {} /\ dead' = dead \union over
      /\ queue' = queue \union (batch \ ({} \union over))
      /\ batch' = {} /\ phase' = "none" /\ marked' = [m \in Messages |-> "none"]
      /\ UNCHANGED <<sent, refused, seen>>
  BY DEF Lost
<1> HIDE DEF over
<1>3. QED
  BY <1>1, <1>2, BatchEnds

LEMMA QueueInvariance == QueueSpec => []QueueIInv
<1>1. ASSUME QueueIInv, QueueNext PROVE QueueIInv'
  BY <1>1, SendOK, DeliverOK, DecodeOK, MarkOK, MarkAllOK, HandlerEndsOK, SettleBatchOK, LostOK DEF QueueNext, Handling
<1>2. ASSUME QueueIInv, UNCHANGED queueVars PROVE QueueIInv'
  BY <1>2 DEF queueVars, QueueIInv, QueueTypeOK, BatchIsWhole, Sources, Somewhere, CallsAreApart, AllOrNothing, OnlySeenIsAcked
<1>3. QueueIInv /\ [QueueNext]_queueVars => QueueIInv'
  BY <1>1, <1>2
<1>4. QED
  BY QueueInitOK, <1>3, PTL DEF QueueSpec

----------------------------------------------------------------------------
\* A call of the producer that failed has sent none of its messages, and no message
\* of one that returned is lost.
THEOREM ProducerIsTold == QueueSpec => []AllOrNothing
BY QueueInvariance, PTL DEF QueueIInv

\* The queue is done only with messages that a handler got.
THEOREM AcknowledgedWasSeen == QueueSpec => []OnlySeenIsAcked
BY QueueInvariance, PTL DEF QueueIInv

\* A handler that runs has the whole batch.
THEOREM HandlerHasAll == QueueSpec => []WholeBatch
<1>1. QueueIInv => WholeBatch
  BY DEF QueueIInv, BatchIsWhole, WholeBatch
<1>2. QED
  BY QueueInvariance, <1>1, PTL

\* Sent and delivered batches are whole, for any messages and attempts.
THEOREM EveryBatchIsWhole == QueueSpec => []BatchesAreWhole
BY ProducerIsTold, AcknowledgedWasSeen, HandlerHasAll, PTL DEF BatchesAreWhole

----------------------------------------------------------------------------
(* The migration of the alarm tables. *)

(* Tables that some run of the statements, cut off anywhere, may leave: the        *)
(* alarm table is there as a whole or not at all, no attempts outlive their table, *)
(* nothing is forgotten and the marker is true.                                    *)
Tables(d) == d = [columns |-> d.columns, row |-> d.row, wake |-> d.wake, table |-> d.table,
                  attempts |-> d.attempts, indexes |-> d.indexes]

Layout(d) ==
    /\ Tables(d)
    /\ d.columns \subseteq Columns /\ d.indexes \subseteq Indexes
    /\ d.row \in [Ids -> Histories]
    /\ d.columns = {} \/ Legacy \subseteq d.columns
    /\ d.table \in BOOLEAN /\ (~ d.table => \A i \in Ids : i \notin DOMAIN d.attempts)
    /\ \A i \in Ids : IF i \in DOMAIN d.attempts THEN d.attempts[i] = was[i] ELSE d.row[i] = was[i]
    /\ "lifecycle_v2" \in d.indexes =>
          d.columns = Columns /\ ~ d.table /\ \A i \in Ids : d.wake[i] = WakeOf(was[i])

(* What the statements before the next one have done.                              *)
Reached ==
    /\ pc \in Statements \ {"look"} => ~ Marked
    /\ pc \in Statements \ {"look", "create"} => Legacy \subseteq db.columns
    /\ pc \in Statements \ {"look", "create", "lifecycle"} => "lifecycle" \in db.columns
    /\ pc \in Statements \ {"look", "create", "lifecycle", "wake_at"} => "wake_at" \in db.columns
    /\ pc \in {"copy", "drop", "wakes", "stale", "byWake", "mark"} => AttemptColumns \subseteq db.columns
    /\ pc = "drop" => \A i \in Ids : db.row[i] = was[i]
    /\ pc \in {"wakes", "stale", "byWake", "mark"} => ~ db.table
    /\ pc \in {"stale", "byWake", "mark"} => \A i \in Ids : db.wake[i] = WakeOf(was[i])
    /\ pc \in {"body", "ready"} => Marked

MigrationIInv == MigrationTypeOK /\ Layout(db) /\ Layout(saved) /\ Reached

LEMMA HistoriesHold == Fresh \in Histories
BY DEF Histories

LEMMA PublishedLayouts ==
  ASSUME was \in [Ids -> Histories], NEW d \in Published(was)
  PROVE  Layout(d) /\ "lifecycle_v2" \notin d.indexes
<1>0. DOMAIN Absent.attempts = {} /\ \A i \in Ids : i \notin DOMAIN Absent.attempts
  BY DEF Absent
<1>1. CASE d = Queue(was)
  BY <1>1, HistoriesHold DEF Queue, Absent, Layout, Tables, Columns, Legacy, Indexes
<1>2. CASE d = Indexed(was)
  BY <1>2, HistoriesHold DEF Indexed, Queue, Absent, Layout, Tables, Columns, Legacy, Indexes
<1>3. CASE d = Unmarked(was)
  <2>1. d.attempts = Absent.attempts /\ d.row = was /\ d.table = FALSE
    BY <1>3 DEF Unmarked, Absent
  <2>2. \A i \in Ids : i \notin DOMAIN d.attempts
    BY <1>0, <2>1
  <2>3. d.columns = Columns /\ d.indexes = {"wake_at", "lifecycle"} /\ Tables(d)
    BY <1>3 DEF Unmarked, Absent, Tables
  <2>4. d.columns \subseteq Columns /\ Legacy \subseteq d.columns /\ d.indexes \subseteq Indexes
    BY <2>3 DEF Columns, Legacy, Indexes
  <2>5. QED
    BY <2>1, <2>2, <2>3, <2>4 DEF Layout
<1>4. ASSUME d \in {Absent, Unmanaged}, \A i \in Ids : was[i] = Fresh
      PROVE  Layout(d) /\ "lifecycle_v2" \notin d.indexes
  <2>1. /\ Unmanaged.attempts = Absent.attempts /\ Unmanaged.row = [i \in Ids |-> Fresh]
        /\ Unmanaged.table = FALSE /\ Unmanaged.columns = Legacy /\ Unmanaged.indexes = {"run_at"}
    BY DEF Unmanaged, Absent
  <2>2. /\ d.attempts = Absent.attempts /\ d.row = [i \in Ids |-> Fresh] /\ d.table = FALSE
        /\ d.columns \in {{}, Legacy} /\ d.indexes \in {{}, {"run_at"}} /\ Tables(d)
    <3>1. CASE d = Unmanaged
      <4>1. Tables(d)
        BY <3>1 DEF Unmanaged, Absent, Tables
      <4>2. QED
        BY <2>1, <3>1, <4>1
    <3>2. CASE d = Absent
      <4>1. d.row = [i \in Ids |-> Fresh] /\ d.table = FALSE /\ d.columns = {} /\ d.indexes = {}
        BY <3>2 DEF Absent
      <4>2. Tables(d)
        BY <3>2 DEF Absent, Tables
      <4>3. QED
        BY <3>2, <4>1, <4>2
    <3>3. QED
      BY <1>4, <3>1, <3>2
  <2>3. \A i \in Ids : i \notin DOMAIN d.attempts
    BY <1>0, <2>2
  <2>4. d.row \in [Ids -> Histories] /\ \A i \in Ids : d.row[i] = was[i]
    BY <1>4, <2>2, HistoriesHold
  <2>5. d.columns \subseteq Columns /\ d.indexes \subseteq Indexes /\ "lifecycle_v2" \notin d.indexes
    BY <2>2 DEF Columns, Indexes
  <2>6. d.columns = {} \/ Legacy \subseteq d.columns
    BY <2>2
  <2>7. QED
    BY <2>2, <2>3, <2>4, <2>5, <2>6 DEF Layout
<1>5. CASE \A i \in Ids : was[i] = Fresh
  BY <1>1, <1>2, <1>3, <1>4, <1>5 DEF Published
<1>6. CASE ~ \A i \in Ids : was[i] = Fresh
  BY <1>1, <1>2, <1>3, <1>6 DEF Published
<1>7. QED
  BY <1>5, <1>6

LEMMA MigrationInitOK == ASSUME MigrationAssumption, MigrationInit PROVE MigrationIInv
<1>1. Layout(db) /\ "lifecycle_v2" \notin db.indexes
  BY PublishedLayouts DEF MigrationInit
<1>2. MigrationTypeOK
  <2>1. db.columns \subseteq Columns /\ db.indexes \subseteq Indexes /\ db.row \in [Ids -> Histories]
    BY <1>1 DEF Layout
  <2>2. was \in [Ids -> Histories] /\ pc = "idle" /\ managed = FALSE /\ starts = 0
    BY DEF MigrationInit
  <2>3. starts \in 0..MaxStarts
    BY <2>2 DEF MigrationAssumption
  <2>4. QED
    BY <2>1, <2>2, <2>3 DEF MigrationTypeOK
<1>3. Layout(saved)
  BY <1>1 DEF MigrationInit
<1>4. Reached
  BY DEF MigrationInit, Reached, Statements
<1>5. QED
  BY <1>1, <1>2, <1>3, <1>4 DEF MigrationIInv

-----------------------------------------------------------------------------
(* One statement at a time.                                                        *)

LEMMA StatementOK == ASSUME MigrationIInv, Migrate PROVE MigrationIInv'
<1> USE DEF MigrationIInv, Reached, Goes, Statements, Marked
<1>1. CASE Look
  BY <1>1 DEF Look, Finished, Layout, MigrationTypeOK
<1>2. CASE CreateTable
  BY <1>2 DEF CreateTable, Layout, Tables, MigrationTypeOK, Columns, Legacy, AttemptColumns
<1>3. CASE AddLifecycle
  BY <1>3 DEF AddLifecycle, Layout, Tables, MigrationTypeOK, Columns
<1>4. CASE AddWakeAt
  BY <1>4 DEF AddWakeAt, Layout, Tables, MigrationTypeOK, Columns
<1>5. ASSUME NEW c \in AttemptColumns, AddAttemptColumn(c) PROVE MigrationIInv'
  BY <1>5 DEF AddAttemptColumn, Layout, Tables, MigrationTypeOK, Columns
<1>6. CASE ColumnsAdded
  BY <1>6 DEF ColumnsAdded, Layout, MigrationTypeOK
<1>7. CASE CopyAttempts
  <2>1. db' = [db EXCEPT !.row = Copied] /\ UNCHANGED <<was, saved, managed, starts>>
    BY <1>7 DEF CopyAttempts
  <2>2. \A i \in Ids : Copied[i] = was[i]
    BY DEF Copied, Layout
  <2>3. Copied \in [Ids -> Histories]
    BY <2>2 DEF Copied, MigrationTypeOK
  <2> HIDE DEF Copied
  <2>4. db'.row = Copied /\ \A i \in Ids : db'.row[i] = was[i]
    BY <2>1, <2>2 DEF Layout, Tables
  <2>5. Layout(db)'
    BY <1>7, <2>1, <2>3, <2>4 DEF CopyAttempts, Layout, Tables
  <2>6. MigrationTypeOK' /\ Layout(saved)'
    BY <1>7, <2>1, <2>3, <2>4 DEF CopyAttempts, Layout, Tables, MigrationTypeOK
  <2>7. QED
    BY <1>7, <2>1, <2>4, <2>5, <2>6 DEF CopyAttempts, Layout
<1>8. CASE DropAttempts
  <2>1. db'.columns = db.columns /\ db'.row = db.row /\ db'.wake = db.wake /\ db'.table = FALSE
        /\ db'.attempts = <<>> /\ db'.indexes = db.indexes /\ Tables(db')
    BY <1>8 DEF DropAttempts, Layout, Tables
  <2>2. \A i \in Ids : i \notin DOMAIN db'.attempts
    BY <2>1
  <2>3. Layout(db)'
    BY <1>8, <2>1, <2>2 DEF DropAttempts, Layout
  <2>4. QED
    BY <1>8, <2>1, <2>3 DEF DropAttempts, Layout, MigrationTypeOK
<1>9. CASE UpdateWakes
  BY <1>9 DEF UpdateWakes, Wakes, Layout, Tables, MigrationTypeOK
<1>10. ASSUME NEW i \in Indexes, DropIndex(i) PROVE MigrationIInv'
  BY <1>10 DEF DropIndex, Stale, Layout, Tables, MigrationTypeOK
<1>11. CASE IndexesDropped
  BY <1>11 DEF IndexesDropped, Layout, MigrationTypeOK
<1>12. CASE CreateWakeIndex
  BY <1>12 DEF CreateWakeIndex, Layout, Tables, MigrationTypeOK, Indexes
<1>13. CASE CreateMarker
  BY <1>13 DEF CreateMarker, Finished, Layout, Tables, MigrationTypeOK, Columns, Indexes
<1>14. QED
  BY <1>1, <1>2, <1>3, <1>4, <1>5, <1>6, <1>7, <1>8, <1>9, <1>10, <1>11, <1>12, <1>13 DEF Migrate

\* Starts, ends and evictions.
LEMMA AroundOK ==
  ASSUME MigrationAssumption, MigrationIInv,
         Evict \/ (\E tx \in BOOLEAN : Begin(tx)) \/ (\E commits \in BOOLEAN : EndBody(commits))
  PROVE  MigrationIInv'
<1>1. CASE Evict
  BY <1>1 DEF Evict, RolledBack, MigrationIInv, Reached, Statements, Layout, Tables, MigrationTypeOK
<1>2. ASSUME NEW tx \in BOOLEAN, Begin(tx) PROVE MigrationIInv'
  BY <1>2 DEF MigrationAssumption, Begin, MigrationIInv, Reached, Statements, Layout, Tables, MigrationTypeOK
<1>3. ASSUME NEW commits \in BOOLEAN, EndBody(commits) PROVE MigrationIInv'
  BY <1>3 DEF EndBody, RolledBack, MigrationIInv, Reached, Marked, Statements, Layout, Tables, MigrationTypeOK
<1>4. QED
  BY <1>1, <1>2, <1>3

LEMMA MigrationInvariance == ASSUME MigrationAssumption PROVE MigrationSpec => []MigrationIInv
<1>1. ASSUME MigrationIInv, [MigrationNext]_migrationVars PROVE MigrationIInv'
  <2>1. CASE Migrate
    BY <1>1, <2>1, StatementOK
  <2>2. CASE Evict \/ (\E tx \in BOOLEAN : Begin(tx)) \/ (\E commits \in BOOLEAN : EndBody(commits))
    BY <1>1, <2>2, AroundOK
  <2>3. CASE UNCHANGED migrationVars
    BY <1>1, <2>3 DEF migrationVars, MigrationIInv, MigrationTypeOK, Layout, Tables, Reached, Marked
  <2>4. QED
    BY <1>1, <2>1, <2>2, <2>3 DEF MigrationNext, Done
<1>2. QED
  BY <1>1, MigrationInitOK, PTL DEF MigrationSpec

\* The variables stay within their sets.
THEOREM MigrationTypeCorrect == ASSUME MigrationAssumption PROVE MigrationSpec => []MigrationTypeOK
BY MigrationInvariance, PTL DEF MigrationIInv

\* Wherever the marker stands, all that the statements before it do has been done.
THEOREM MarkerComesLast == ASSUME MigrationAssumption PROVE MigrationSpec => []MarkerIsLast
<1>1. MigrationIInv => MarkerIsLast
  BY DEF MigrationIInv, Layout, MarkerIsLast
<1>2. QED
  BY MigrationInvariance, <1>1, PTL

\* An eviction between any two statements loses no attempts, however often.
THEOREM MigrationForgetsNothing == ASSUME MigrationAssumption PROVE MigrationSpec => []NothingForgotten
<1>1. MigrationIInv => NothingForgotten
  BY DEF MigrationIInv, Layout, NothingForgotten
<1>2. QED
  BY MigrationInvariance, <1>1, PTL

\* The scheduler reads and writes rows behind the marker only.
THEOREM ReadinessNeedsTheMarker == ASSUME MigrationAssumption PROVE MigrationSpec => []ReadyMeansMigrated
<1>1. MigrationIInv => ReadyMeansMigrated
  BY DEF MigrationIInv, Reached, Marked, ReadyMeansMigrated
<1>2. QED
  BY MigrationInvariance, <1>1, PTL

\* A transaction that does not commit leaves the layout it found.
THEOREM FailuresRollBack == ASSUME MigrationAssumption PROVE MigrationSpec => FailureRestores
<1>1. ASSUME [MigrationNext]_migrationVars PROVE [managed /\ pc' = "idle" => db' = saved]_migrationVars
  <2> SUFFICES ASSUME MigrationNext, managed, pc' = "idle", ~ UNCHANGED migrationVars PROVE db' = saved
    BY <1>1
  <2>1. ~ Migrate
    BY DEF Migrate, Look, CreateTable, AddLifecycle, AddWakeAt, AddAttemptColumn, ColumnsAdded,
           CopyAttempts, DropAttempts, UpdateWakes, DropIndex, IndexesDropped, CreateWakeIndex,
           CreateMarker, Goes, Finished
  <2>2. CASE Evict
    BY <2>2 DEF Evict, RolledBack
  <2>3. ASSUME NEW commits \in BOOLEAN, EndBody(commits) PROVE db' = saved
    BY <2>3 DEF EndBody, RolledBack
  <2>4. ASSUME NEW tx \in BOOLEAN, Begin(tx) PROVE FALSE
    BY <2>4 DEF Begin
  <2>5. QED
    BY <2>1, <2>2, <2>3, <2>4 DEF MigrationNext, Done
<1>2. QED
  BY <1>1, PTL DEF MigrationSpec, FailureRestores

----------------------------------------------------------------------------
(* Typed alarms over deployments. *)

\* A claim is of a manual row, which the pass still holds as manual or has left.
ClaimsAreManual ==
    \A a \in claimed : IsManual(row[a]) /\ (pass[a] # NotEnrolled => IsManual(pass[a]))

DefinedIInv == DefinedTypeOK /\ ClaimsAreManual

LEMMA RowsWait ==
  ASSUME NEW r \in EnrolledRows
  PROVE  r # NotEnrolled /\ Waiting(r) \in EnrolledRows /\ Waiting(r) # NotEnrolled /\ (IsManual(Waiting(r)) <=> IsManual(r))
<1>1. Waiting(r) \in EnrolledRows
  BY DEF EnrolledRows, Waiting
<1>2. Waiting(r).lifecycle = r.lifecycle
  BY DEF EnrolledRows, Waiting
<1>3. \A x \in EnrolledRows : x # NotEnrolled
  BY DEF EnrolledRows, NotEnrolled, Lifecycles
<1>4. QED
  BY <1>1, <1>2, <1>3 DEF IsManual

LEMMA DefinitionsHaveLifecycles ==
  ASSUME NEW d \in Definitions, d # Undefined
  PROVE  d.lifecycle \in Lifecycles /\ d.schema \in Schemas
BY DEF Definitions, Undefined, Lifecycles

LEMMA DefinedInitOK == ASSUME DefinitionAssumption, DefinedInit PROVE DefinedIInv
<1>1. deploys \in 0..MaxDeploys /\ calls \in 0..MaxCalls
  BY DEF DefinitionAssumption, DefinedInit
<1>2. /\ def \in [Alarms -> Definitions] /\ claimed = {} /\ passing = FALSE
      /\ row = [a \in Alarms |-> NotEnrolled] /\ pass = [a \in Alarms |-> NotEnrolled]
  BY DEF DefinedInit
<1>3. QED
  BY <1>1, <1>2 DEF DefinedIInv, DefinedTypeOK, ClaimsAreManual

(* The calls and the rest of the world.                                            *)
LEMMA OutsideOK ==
  ASSUME DefinitionAssumption, DefinedIInv, NEW a \in Alarms,
         \/ \E d \in Definitions : Deploy(a, d)
         \/ \E repeats \in BOOLEAN : Schedule(a, repeats)
         \/ Cancel(a) \/ TimePasses(a)
  PROVE  DefinedIInv'
<1>1. ASSUME NEW d \in Definitions, Deploy(a, d) PROVE DefinedIInv'
  <2>1. deploys' \in 0..MaxDeploys
    BY <1>1 DEF DefinitionAssumption, Deploy, DefinedIInv, DefinedTypeOK
  <2>2. /\ def' \in [Alarms -> Definitions] /\ claimed' = {} /\ passing' = FALSE
        /\ pass' = [b \in Alarms |-> NotEnrolled] /\ UNCHANGED <<row, calls>>
    BY <1>1 DEF Deploy, DefinedIInv, DefinedTypeOK
  <2>3. QED
    BY <2>1, <2>2 DEF DefinedIInv, DefinedTypeOK, ClaimsAreManual
<1>2. ASSUME NEW repeats \in BOOLEAN, Schedule(a, repeats) PROVE DefinedIInv'
  <2> DEFINE new == [lifecycle |-> def[a].lifecycle, schema |-> def[a].schema,
                     repeats |-> repeats, due |-> FALSE]
  <2>1. new \in EnrolledRows
    <3>1. def[a] \in Definitions /\ def[a] # Undefined
      BY <1>2 DEF Schedule, DefinedIInv, DefinedTypeOK
    <3>2. QED
      BY <3>1, DefinitionsHaveLifecycles DEF EnrolledRows
  <2>2. row' = [row EXCEPT ![a] = new] /\ claimed' = claimed \ {a}
    BY <1>2 DEF Schedule, StoredLifecycle
  <2> HIDE DEF new
  <2>3. calls' \in 0..MaxCalls
    BY <1>2 DEF DefinitionAssumption, Schedule, DefinedIInv, DefinedTypeOK
  <2>4. row' \in [Alarms -> EnrolledRows \cup {NotEnrolled}] /\ \A b \in claimed' : row'[b] = row[b]
    BY <2>1, <2>2 DEF DefinedIInv, DefinedTypeOK
  <2>5. QED
    BY <1>2, <2>2, <2>3, <2>4 DEF Schedule, DefinedIInv, DefinedTypeOK, ClaimsAreManual
<1>3. CASE Cancel(a)
  BY <1>3 DEF DefinitionAssumption, Cancel, DefinedIInv, DefinedTypeOK, ClaimsAreManual
<1>4. CASE TimePasses(a)
  <2> DEFINE new == [row[a] EXCEPT !.due = TRUE]
  <2>1. row[a] \in EnrolledRows
    BY <1>4 DEF TimePasses, DefinedIInv, DefinedTypeOK
  <2>2. new \in EnrolledRows /\ new.lifecycle = row[a].lifecycle
    BY <2>1 DEF EnrolledRows
  <2>3. IsManual(row[a]) => IsManual(new)
    BY <2>2, RowsWait DEF IsManual
  <2>4. row' = [row EXCEPT ![a] = new]
    BY <1>4 DEF TimePasses
  <2> HIDE DEF new
  <2>5. QED
    BY <1>4, <2>2, <2>3, <2>4 DEF TimePasses, DefinedIInv, DefinedTypeOK, ClaimsAreManual
<1>5. QED
  BY <1>1, <1>2, <1>3, <1>4

(* The pass: what it selects, and its end.                                         *)
LEMMA SelectOK == ASSUME DefinedIInv, Select PROVE DefinedIInv'
<1>1. \A a \in Due : a \in Alarms /\ row[a] \in EnrolledRows
  BY DEF Due, DefinedIInv, DefinedTypeOK
<1>2. claimed' \subseteq Due /\ \A a \in claimed' : IsManual(row[a])
  BY DEF Select
<1>3. row' \in [Alarms -> EnrolledRows \cup {NotEnrolled}] /\ \A a \in claimed' : IsManual(row'[a])
  BY <1>1, <1>2, RowsWait DEF Select, DefinedIInv, DefinedTypeOK
<1>4. pass' \in [Alarms -> EnrolledRows \cup {NotEnrolled}] /\ \A a \in claimed' : pass'[a] = row[a]
  BY <1>1, <1>2 DEF Select
<1>5. QED
  BY <1>1, <1>2, <1>3, <1>4 DEF Select, DefinedIInv, DefinedTypeOK, ClaimsAreManual

LEMMA EndPassOK == ASSUME DefinedIInv, EndPass PROVE DefinedIInv'
<1>1. \A a \in claimed : a \in Alarms /\ row[a] \in EnrolledRows
  BY DEF DefinedIInv, DefinedTypeOK, ClaimsAreManual, IsManual
<1>2. row' \in [Alarms -> EnrolledRows \cup {NotEnrolled}]
  BY <1>1, RowsWait DEF EndPass, DefinedIInv, DefinedTypeOK
<1>3. QED
  BY <1>2 DEF EndPass, DefinedIInv, DefinedTypeOK, ClaimsAreManual

(* The end of one row of the pass.                                                 *)
LEMMA CurrentIsRow ==
  ASSUME DefinedIInv, NEW a \in Alarms, pass[a] # NotEnrolled, Current(a)
  PROVE  row[a] \in EnrolledRows /\ (~ IsManual(pass[a]) => ~ IsManual(row[a]) /\ a \notin claimed)
BY DEF DefinedIInv, DefinedTypeOK, ClaimsAreManual, Current

LEMMA HandleOK == ASSUME DefinedIInv, NEW a \in Alarms, Handle(a) PROVE DefinedIInv'
<1>1. ASSUME NEW new \in EnrolledRows \cup {NotEnrolled}, row' = [row EXCEPT ![a] = new],
             claimed' \in {claimed, claimed \ {a}}, a \notin claimed',
             \A b \in Alarms : pass'[b] \in {pass[b], NotEnrolled}, pass' \in [Alarms -> EnrolledRows \cup {NotEnrolled}],
             UNCHANGED <<def, passing, deploys, calls>>
      PROVE  DefinedIInv'
  BY <1>1 DEF DefinedIInv, DefinedTypeOK, ClaimsAreManual
<1>2. CASE Overtaken(a)
  BY <1>2 DEF Overtaken, Leave, DefinedIInv, DefinedTypeOK, ClaimsAreManual
<1>3. CASE Succeeds(a)
  <2>1. row[a] \in EnrolledRows /\ a \notin claimed
    BY <1>3, CurrentIsRow DEF Succeeds
  <2>2. Acknowledged(a) \in EnrolledRows \cup {NotEnrolled}
    BY <2>1, RowsWait DEF Acknowledged
  <2>3. pass' \in [Alarms -> EnrolledRows \cup {NotEnrolled}] /\ \A b \in Alarms : pass'[b] \in {pass[b], NotEnrolled}
    BY <1>3 DEF Succeeds, Leave, DefinedIInv, DefinedTypeOK
  <2>4. QED
    BY <1>1, <1>3, <2>1, <2>2, <2>3 DEF Succeeds, Leave
<1>4. ASSUME NEW next \in {"keep", "reschedule", "cancel"}, ManualHandler(a, next) PROVE DefinedIInv'
  <2>1. row[a] \in EnrolledRows
    BY <1>4, CurrentIsRow DEF ManualHandler
  <2>2. pass' \in [Alarms -> EnrolledRows \cup {NotEnrolled}] /\ \A b \in Alarms : pass'[b] \in {pass[b], NotEnrolled}
    BY <1>4 DEF ManualHandler, Leave, DefinedIInv, DefinedTypeOK
  <2>3. CASE UNCHANGED <<row, claimed>>
    BY <1>4, <2>2, <2>3 DEF ManualHandler, Leave, DefinedIInv, DefinedTypeOK, ClaimsAreManual
  <2>4. CASE Runs(a) /\ next = "reschedule"
    <3> DEFINE new == [Waiting(row[a]) EXCEPT !.schema = def[a].schema]
    <3>1. Waiting(row[a]) \in EnrolledRows /\ def[a].schema \in Schemas
      BY <2>1, <2>4, RowsWait, DefinitionsHaveLifecycles DEF Runs, DefinedIInv, DefinedTypeOK
    <3>2. new \in EnrolledRows
      BY <3>1 DEF EnrolledRows
    <3>3. row' = [row EXCEPT ![a] = new] /\ claimed' = claimed \ {a}
      BY <1>4, <2>4 DEF ManualHandler
    <3> HIDE DEF new
    <3>4. QED
      BY <1>1, <1>4, <2>2, <3>2, <3>3 DEF ManualHandler, Leave
  <2>5. CASE Runs(a) /\ next = "cancel"
    BY <1>1, <1>4, <2>2, <2>5 DEF ManualHandler, Leave
  <2>6. QED
    BY <1>4, <2>3, <2>4, <2>5 DEF ManualHandler
<1>5. ASSUME NEW hook \in HookActions, Fails(a, hook) PROVE DefinedIInv'
  <2>1. row[a] \in EnrolledRows /\ a \notin claimed
    BY <1>5, CurrentIsRow DEF Fails
  <2>2. Acknowledged(a) \in EnrolledRows \cup {NotEnrolled} /\ Waiting(row[a]) \in EnrolledRows
    BY <2>1, RowsWait DEF Acknowledged
  <2>3. pass' \in [Alarms -> EnrolledRows \cup {NotEnrolled}] /\ \A b \in Alarms : pass'[b] \in {pass[b], NotEnrolled}
    BY <1>5 DEF Fails, DefinedIInv, DefinedTypeOK
  <2>4. \E new \in EnrolledRows \cup {NotEnrolled} : row' = [row EXCEPT ![a] = new]
    BY <1>5, <2>2 DEF Fails
  <2>5. QED
    BY <1>1, <1>5, <2>1, <2>3, <2>4 DEF Fails
<1>6. QED
  BY <1>2, <1>3, <1>4, <1>5 DEF Handle

LEMMA DefinedInvariance == ASSUME DefinitionAssumption PROVE DefinedSpec => []DefinedIInv
<1>1. ASSUME DefinedIInv, [DefinedNext]_definedVars PROVE DefinedIInv'
  <2>1. CASE UNCHANGED definedVars
    BY <1>1, <2>1 DEF definedVars, DefinedIInv, DefinedTypeOK, ClaimsAreManual, IsManual
  <2>2. CASE DefinedNext
    BY <1>1, <2>1, <2>2, OutsideOK, HandleOK, SelectOK, EndPassOK DEF DefinedNext, Idle
  <2>3. QED
    BY <1>1, <2>1, <2>2
<1>2. QED
  BY <1>1, DefinedInitOK, PTL DEF DefinedSpec

----------------------------------------------------------------------------
(* How a row disappears.                                                           *)
Ended(a) ==
    \/ last' = <<"called", a>>
    \/ /\ last' = <<"handled", a>> /\ Runs(a)
       /\ IsManual(row[a]) => def[a].lifecycle = "manual"
    \/ last' = <<"skipped", a>> /\ ~ IsManual(pass[a]) /\ ~ IsManual(row[a]) /\ SkipIsConfigured(a)

LEMMA SkipsAreConfigured ==
  ASSUME NEW a, NEW hook \in HookActions, Skips(a, hook)
  PROVE  SkipIsConfigured(a)
BY DEF Skips, onFailure, SkipIsConfigured

LEMMA RowsEnd ==
  ASSUME DefinedIInv, DefinedNext, NEW a \in Alarms, row[a] # NotEnrolled, row'[a] = NotEnrolled
  PROVE  Ended(a)
<1>1. row[a] \in EnrolledRows /\ row \in [Alarms -> EnrolledRows \cup {NotEnrolled}]
  BY DEF DefinedIInv, DefinedTypeOK
<1>2. ASSUME NEW b \in Alarms, NEW d \in Definitions, Deploy(b, d) PROVE FALSE
  BY <1>2 DEF Deploy
<1>3. ASSUME NEW b \in Alarms, NEW repeats \in BOOLEAN, Schedule(b, repeats) PROVE FALSE
  <2>1. def[b] \in Definitions /\ def[b] # Undefined
    BY <1>3 DEF Schedule, DefinedIInv, DefinedTypeOK
  <2>2. def[b].lifecycle \in Lifecycles
    BY <2>1, DefinitionsHaveLifecycles
  <2>3. \A x : x = NotEnrolled => x.lifecycle = "none"
    BY DEF NotEnrolled
  <2>4. a = b => row'[a].lifecycle = def[b].lifecycle
    BY <1>1, <1>3 DEF Schedule, StoredLifecycle
  <2>5. a # b => row'[a] = row[a]
    BY <1>1, <1>3 DEF Schedule
  <2>6. QED
    BY <2>2, <2>3, <2>4, <2>5 DEF Lifecycles
<1>4. ASSUME NEW b \in Alarms, Cancel(b) PROVE Ended(a)
  BY <1>1, <1>4 DEF Cancel, Ended
<1>5. ASSUME NEW b \in Alarms, TimePasses(b) PROVE FALSE
  <2>1. row[b] \in EnrolledRows
    BY <1>1, <1>5 DEF TimePasses
  <2>2. [row[b] EXCEPT !.due = TRUE] \in EnrolledRows
    BY <2>1 DEF EnrolledRows
  <2>3. QED
    BY <1>1, <1>5, <2>2, RowsWait DEF TimePasses
<1>6. ASSUME NEW b \in Alarms, Succeeds(b) PROVE Ended(a)
  <2>1. row[b] \in EnrolledRows /\ ~ IsManual(row[b])
    BY <1>6, CurrentIsRow DEF Succeeds
  <2>2. a = b
    BY <1>1, <1>6 DEF Succeeds
  <2>3. QED
    BY <1>6, <2>1, <2>2 DEF Succeeds, Ended
<1>7. ASSUME NEW b \in Alarms, NEW next \in {"keep", "reschedule", "cancel"}, ManualHandler(b, next)
      PROVE  Ended(a)
  <2>1. row[b] \in EnrolledRows
    BY <1>7, CurrentIsRow DEF ManualHandler
  <2>2. a = b
    BY <1>1, <1>7 DEF ManualHandler
  <2>3. CASE next = "cancel"
    <3>1. Runs(a) /\ IsManual(pass[a]) /\ last' = <<"handled", a>>
      BY <1>7, <2>2, <2>3 DEF ManualHandler
    <3>2. def[a].lifecycle = "manual"
      BY <3>1 DEF Runs, ManualTags
    <3>3. QED
      BY <3>1, <3>2 DEF Ended
  <2>4. CASE next = "reschedule"
    <3>1. Waiting(row[b]) \in EnrolledRows /\ def[b].schema \in Schemas
      BY <1>7, <2>1, <2>4, RowsWait, DefinitionsHaveLifecycles DEF ManualHandler, Runs, DefinedIInv, DefinedTypeOK
    <3>2. [Waiting(row[b]) EXCEPT !.schema = def[b].schema] \in EnrolledRows
      BY <3>1 DEF EnrolledRows
    <3>3. row'[b] = [Waiting(row[b]) EXCEPT !.schema = def[b].schema]
      BY <1>1, <1>7, <2>4 DEF ManualHandler
    <3>4. QED
      BY <2>2, <3>2, <3>3, RowsWait
  <2>5. CASE next = "keep"
    BY <1>7, <2>5 DEF ManualHandler
  <2>6. QED
    BY <2>3, <2>4, <2>5
<1>8. ASSUME NEW b \in Alarms, NEW hook \in HookActions, Fails(b, hook) PROVE Ended(a)
  <2>1. row[b] \in EnrolledRows /\ ~ IsManual(row[b]) /\ ~ IsManual(pass[b])
    BY <1>8, CurrentIsRow DEF Fails
  <2>2. a = b
    BY <1>1, <1>8 DEF Fails
  <2>3. CASE Skips(b, hook)
    <3>1. last' = <<"skipped", b>>
      BY <1>8, <2>3 DEF Fails
    <3>2. QED
      BY <2>1, <2>2, <2>3, <3>1, SkipsAreConfigured DEF Ended
  <2>4. CASE ~ Skips(b, hook)
    BY <1>1, <1>8, <2>1, <2>2, <2>4, RowsWait DEF Fails
  <2>5. QED
    BY <2>3, <2>4
<1>9. ASSUME Select \/ EndPass PROVE FALSE
  BY <1>1, <1>9, RowsWait DEF Select, EndPass
<1>10. ASSUME NEW b \in Alarms, Overtaken(b) PROVE FALSE
  BY <1>10 DEF Overtaken
<1>11. ASSUME NEW b \in Alarms, Handle(b) PROVE Ended(a)
  BY <1>6, <1>7, <1>8, <1>10, <1>11 DEF Handle
<1>12. CASE Idle
  BY <1>12 DEF Idle, definedVars
<1>13. QED
  BY <1>2, <1>3, <1>4, <1>5, <1>9, <1>11, <1>12 DEF DefinedNext

\* The variables of the typed alarms stay within their sets.
THEOREM DefinedTypeCorrect == ASSUME DefinitionAssumption PROVE DefinedSpec => []DefinedTypeOK
BY DefinedInvariance, PTL DEF DefinedIInv

\* Whatever deployments do to the definitions, a row ends by a handler that decoded
\* it, a configured skip or a caller.
THEOREM NothingIsLostSilently == ASSUME DefinitionAssumption PROVE DefinedSpec => NeverLostSilently
<1>1. ASSUME DefinedIInv, [DefinedNext]_definedVars
      PROVE  [\A a \in Alarms :
                row[a] # NotEnrolled /\ row'[a] = NotEnrolled =>
                  \/ last' = <<"called", a>>
                  \/ last' = <<"handled", a>> /\ def[a] # Undefined /\ def[a].schema = pass[a].schema
                  \/ last' = <<"skipped", a>> /\ ~ IsManual(pass[a]) /\ SkipIsConfigured(a)]_definedVars
  BY <1>1, RowsEnd DEF Ended, Runs
<1>2. QED
  BY <1>1, DefinedInvariance, PTL DEF DefinedSpec, NeverLostSilently

\* A row enrolled as manual is ended by its manual handler or a caller.
THEOREM ManualRowsStayManual == ASSUME DefinitionAssumption PROVE DefinedSpec => ManualStaysManual
<1>1. ASSUME DefinedIInv, [DefinedNext]_definedVars
      PROVE  [\A a \in Alarms :
                IsManual(row[a]) /\ row'[a] = NotEnrolled =>
                  \/ last' = <<"called", a>>
                  \/ last' = <<"handled", a>> /\ def[a].lifecycle = "manual"]_definedVars
  BY <1>1, RowsEnd DEF Ended, IsManual
<1>2. QED
  BY <1>1, DefinedInvariance, PTL DEF DefinedSpec, ManualStaysManual

\* A call enrolls an alarm with the lifecycle of its definition.
THEOREM CallsEnrollAsDefined == ASSUME DefinitionAssumption PROVE DefinedSpec => EnrolledAsDefined
<1>1. ASSUME DefinedIInv, DefinedNext, NEW a \in Alarms,
             calls' # calls, row'[a] # NotEnrolled, row'[a] # row[a]
      PROVE  row'[a].lifecycle = def[a].lifecycle
  <2>1. row \in [Alarms -> EnrolledRows \cup {NotEnrolled}]
    BY <1>1 DEF DefinedIInv, DefinedTypeOK
  <2>2. ~ \E b \in Alarms, d \in Definitions : Deploy(b, d)
    BY <1>1 DEF Deploy
  <2>3. ~ \E b \in Alarms : TimePasses(b) \/ Handle(b)
    BY <1>1 DEF TimePasses, Handle, Overtaken, Succeeds, ManualHandler, Fails, Leave
  <2>4. ~ Select /\ ~ EndPass /\ ~ Idle
    BY <1>1 DEF Select, EndPass, Idle, definedVars
  <2>5. ~ \E b \in Alarms : Cancel(b)
    BY <1>1, <2>1 DEF Cancel
  <2>6. PICK b \in Alarms, repeats \in BOOLEAN : Schedule(b, repeats)
    BY <1>1, <2>2, <2>3, <2>4, <2>5 DEF DefinedNext
  <2>7. QED
    BY <1>1, <2>1, <2>6 DEF Schedule, StoredLifecycle
<1>2. ASSUME DefinedIInv, [DefinedNext]_definedVars
      PROVE  [\A a \in Alarms :
                calls' # calls /\ row'[a] # NotEnrolled /\ row'[a] # row[a] =>
                  row'[a].lifecycle = def[a].lifecycle]_definedVars
  BY <1>1, <1>2
<1>3. QED
  BY <1>2, DefinedInvariance, PTL DEF DefinedSpec, EnrolledAsDefined

----------------------------------------------------------------------------
(* The events of a Durable Object. *)

\* Until the hook had its chance to block, the constructor's own gate is closed.
GatesOK ==
    /\ boot \in {"building", "hook", "ready", "reset"}
    /\ gates \subseteq {"constructor", "hook"}
    /\ boot \in {"building", "hook"} => "constructor" \in gates

\* Nothing waits for a dispatch but events that ended.
StagesOK ==
    /\ stage \in [Events -> Stages] /\ ok \in [Events -> BOOLEAN] /\ after \in [Events -> BOOLEAN]
    /\ prompt \in [Events -> {"none", "yielding", "joined", "done"}]
    /\ \A e \in Events : prompt[e] # "none" => stage[e] = "ended"

\* A failure handler runs for work that failed.
WorkOK ==
    /\ work \in [Events -> {"none", "running", "handler", "resolved", "rejected"}]
    /\ broken \in [Events -> BOOLEAN]
    /\ flush \in [Events -> {"none", "running", "hung", "settled"}]
    /\ \A e \in Events : work[e] = "handler" => broken[e]
    /\ WorkOnlyObserved

ArmedOK ==
    /\ alarmPass \in {"none", "opened", "dispatched"} /\ due \in BOOLEAN
    /\ nativeAlarm \in {"none", "due", "recovery"} /\ crashes \in 0..Crashes
    /\ DueIsArmed

EventsIInv == GatesOK /\ StagesOK /\ WorkOK /\ ArmedOK

LEMMA EventsInitOK == ASSUME EventsAssumption, EventsInit PROVE EventsIInv
<1>1. GatesOK
  BY DEF EventsInit, Boot, GatesOK
<1>2. StagesOK
  BY DEF EventsInit, Boot, StagesOK, Stages
<1>3. WorkOK
  BY DEF EventsInit, Boot, WorkOK, WorkOnlyObserved
<1>4. ArmedOK
  <2>1. crashes \in 0..Crashes
    BY DEF EventsAssumption, EventsInit
  <2>2. due = FALSE /\ alarmPass = "none" /\ nativeAlarm = "none"
    BY DEF EventsInit, Boot
  <2>3. QED
    BY Zenon, <2>1, <2>2 DEF ArmedOK, DueIsArmed
<1>5. QED
  BY <1>1, <1>2, <1>3, <1>4 DEF EventsIInv

\* The gate opens for the hook's synchronous part only, and closes with every crash.
LEMMA GatesStepOK == ASSUME EventsIInv, [EventsNext]_eventVars PROVE GatesOK'
<1>1. GatesOK
  BY DEF EventsIInv
<1>2. CASE InstanceSteps
  BY <1>1, <1>2 DEF GatesOK, InstanceSteps, LayerBuilt, HeldDuringHook, HookStarts, HookGateEnds
<1>3. CASE Crash
  BY <1>3 DEF GatesOK, Crash
<1>4. ASSUME NEW e \in Events, EventSteps(e) PROVE UNCHANGED instance
  BY <1>4 DEF EventSteps, BeginEvent, Acquire, EventHandlerEnds, FlushScheduled, ScopeCloses, ObserverEnds,
     WorkEnds, FailureHandled, FlushSettles, PromptDispatch
<1>5. ASSUME NEW e \in Events, Enroll(e) \/ Detach(e) PROVE UNCHANGED instance
  BY <1>5 DEF Enroll, Detach
<1>6. ASSUME PassSteps \/ PassFails \/ NativeDelivery PROVE UNCHANGED instance
  BY <1>6 DEF PassSteps, Dispatch, PassEnds, PassFails, NativeDelivery
<1>7. CASE UNCHANGED eventVars
  BY <1>1, <1>7 DEF GatesOK, eventVars
<1>8. ASSUME UNCHANGED instance PROVE GatesOK'
  BY <1>1, <1>8 DEF GatesOK, instance
<1>9. QED
  BY <1>2, <1>3, <1>4, <1>5, <1>6, <1>7, <1>8 DEF EventsNext

\* What settles an event: its last stage, and the dispatch that may follow.
LEMMA SettlesOK == ASSUME StagesOK, NEW e \in Events, SettleEvent(e), UNCHANGED <<ok, after>> PROVE StagesOK'
<1>1. stage' \in [Events -> Stages] /\ prompt' \in [Events -> {"none", "yielding", "joined", "done"}]
  BY DEF StagesOK, SettleEvent, Stages
<1>2. ASSUME NEW d \in Events, prompt'[d] # "none" PROVE stage'[d] = "ended"
  <2>1. CASE d = e
    BY <2>1 DEF StagesOK, SettleEvent
  <2>2. CASE d # e
    BY <1>2, <2>2 DEF StagesOK, SettleEvent
  <2>3. QED
    BY <2>1, <2>2
<1>3. QED
  BY <1>1, <1>2 DEF StagesOK

\* An event that moves on and is not settled yet has no dispatch waiting.
LEMMA MovesOK ==
  ASSUME StagesOK, NEW e \in Events, stage[e] # "ended", NEW s \in Stages, stage' = [stage EXCEPT ![e] = s],
         ok' \in [Events -> BOOLEAN], after' \in [Events -> BOOLEAN], UNCHANGED prompt
  PROVE  StagesOK'
<1>1. stage' \in [Events -> Stages]
  BY DEF StagesOK
<1>2. ASSUME NEW d \in Events, prompt'[d] # "none" PROVE stage'[d] = "ended"
  BY <1>2 DEF StagesOK
<1>3. QED
  BY <1>1, <1>2 DEF StagesOK

LEMMA StagesStepOK == ASSUME EventsIInv, [EventsNext]_eventVars PROVE StagesOK'
<1>1. StagesOK
  BY DEF EventsIInv
<1>2. ASSUME NEW e \in Events, BeginEvent(e) PROVE StagesOK'
  <2>1. stage[e] # "ended" /\ stage' = [stage EXCEPT ![e] = "layer"] /\ UNCHANGED <<ok, after, prompt>>
    BY <1>2 DEF BeginEvent, background
  <2>2. ok' \in [Events -> BOOLEAN] /\ after' \in [Events -> BOOLEAN]
    BY <1>1, <2>1 DEF StagesOK
  <2>3. QED
    BY <1>1, <2>1, <2>2, MovesOK DEF Stages
<1>3. ASSUME NEW e \in Events, Acquire(e) PROVE StagesOK'
  <2>1. ok' \in [Events -> BOOLEAN] /\ UNCHANGED <<after, prompt>>
    BY <1>1, <1>3 DEF Acquire, StagesOK, background
  <2>2. PICK s \in Stages : stage' = [stage EXCEPT ![e] = s]
    BY <1>3 DEF Acquire, Stages
  <2>3. stage[e] # "ended"
    BY <1>3 DEF Acquire
  <2>4. QED
    BY <1>1, <2>1, <2>2, <2>3, MovesOK DEF StagesOK
<1>4. ASSUME NEW e \in Events, EventHandlerEnds(e) PROVE StagesOK'
  <2>1. ok' \in [Events -> BOOLEAN] /\ after' \in [Events -> BOOLEAN]
    BY <1>1, <1>4 DEF EventHandlerEnds, StagesOK
  <2>2. stage[e] # "ended" /\ stage' = [stage EXCEPT ![e] = "exiting"] /\ UNCHANGED prompt
    BY <1>4 DEF EventHandlerEnds, UntouchedAtExit
  <2>3. QED
    BY <1>1, <2>1, <2>2, MovesOK DEF Stages
<1>5. ASSUME NEW e \in Events, FlushScheduled(e) PROVE StagesOK'
  BY <1>1, <1>5, MovesOK DEF FlushScheduled, StagesOK, Stages
<1>6. ASSUME NEW e \in Events, ScopeCloses(e) PROVE StagesOK'
  <2>1. UNCHANGED <<ok, after>> /\ stage[e] # "ended"
    BY <1>6 DEF ScopeCloses
  <2>2. CASE SettleEvent(e)
    BY <1>1, <2>1, <2>2, SettlesOK
  <2>3. CASE stage' = [stage EXCEPT ![e] = "observing"] /\ UNCHANGED prompt
    BY <1>1, <2>1, <2>3, MovesOK DEF StagesOK, Stages
  <2>4. QED
    BY <1>6, <2>2, <2>3 DEF ScopeCloses
<1>7. ASSUME NEW e \in Events, ObserverEnds(e) PROVE StagesOK'
  BY <1>1, <1>7, SettlesOK DEF ObserverEnds
<1>8. ASSUME NEW e \in Events, PromptDispatch(e) PROVE StagesOK'
  BY <1>1, <1>8 DEF PromptDispatch, event, StagesOK
<1>9. CASE PassEnds \/ PassFails
  BY <1>1, <1>9 DEF PassEnds, PassFails, event, StagesOK
<1>10. CASE Crash
  BY <1>1, <1>10 DEF Crash, StagesOK, Stages
<1>11. ASSUME NEW e \in Events, WorkEnds(e) \/ FailureHandled(e) \/ FlushSettles(e) \/ Enroll(e) \/ Detach(e)
       PROVE  UNCHANGED <<event, prompt>>
  BY <1>11 DEF WorkEnds, FailureHandled, FlushSettles, Enroll, Detach, background
<1>12. ASSUME InstanceSteps \/ Dispatch \/ NativeDelivery PROVE UNCHANGED <<event, prompt>>
  BY <1>12 DEF InstanceSteps, LayerBuilt, HookStarts, HookGateEnds, Dispatch, NativeDelivery, background
<1>13. CASE UNCHANGED eventVars
  BY <1>1, <1>13 DEF StagesOK, eventVars
<1>14. ASSUME UNCHANGED <<event, prompt>> PROVE StagesOK'
  BY <1>1, <1>14 DEF StagesOK, event
<1>15. QED
  BY <1>2, <1>3, <1>4, <1>5, <1>6, <1>7, <1>8, <1>9, <1>10, <1>11, <1>12, <1>13, <1>14
  DEF EventsNext, EventSteps, PassSteps

\* Background work comes to its end through its failure handler only after it failed.
LEMMA WorkStepOK == ASSUME EventsIInv, [EventsNext]_eventVars PROVE WorkOK'
<1>1. WorkOK
  BY DEF EventsIInv
<1>2. ASSUME NEW e \in Events, Detach(e) PROVE WorkOK'
  BY <1>1, <1>2 DEF Detach, WorkOK, WorkOnlyObserved
<1>3. ASSUME NEW e \in Events, WorkEnds(e) PROVE WorkOK'
  BY <1>1, <1>3 DEF WorkEnds, WorkOK, WorkOnlyObserved
<1>4. ASSUME NEW e \in Events, FailureHandled(e) PROVE WorkOK'
  BY <1>1, <1>4 DEF FailureHandled, Rejects, WorkOK, WorkOnlyObserved
<1>5. ASSUME NEW e \in Events, FlushScheduled(e) \/ FlushSettles(e) PROVE WorkOK'
  BY <1>1, <1>5 DEF FlushScheduled, FlushSettles, WorkOK, WorkOnlyObserved
<1>6. CASE Crash
  BY <1>6 DEF Crash, WorkOK, WorkOnlyObserved
<1>7. ASSUME NEW e \in Events, BeginEvent(e) \/ Acquire(e) \/ EventHandlerEnds(e) \/ ScopeCloses(e) \/ ObserverEnds(e)
      PROVE  UNCHANGED <<work, broken, flush>>
  BY <1>7 DEF BeginEvent, Acquire, EventHandlerEnds, ScopeCloses, ObserverEnds, background
<1>8. ASSUME NEW e \in Events, PromptDispatch(e) \/ Enroll(e) PROVE UNCHANGED <<work, broken, flush>>
  BY <1>8 DEF PromptDispatch, Enroll, background
<1>9. ASSUME InstanceSteps \/ PassSteps \/ PassFails \/ NativeDelivery PROVE UNCHANGED <<work, broken, flush>>
  BY <1>9 DEF InstanceSteps, LayerBuilt, HookStarts, HookGateEnds, PassSteps, Dispatch, PassEnds, PassFails,
     NativeDelivery, background
<1>10. CASE UNCHANGED eventVars
  BY <1>1, <1>10 DEF WorkOK, WorkOnlyObserved, eventVars
<1>11. ASSUME UNCHANGED <<work, broken, flush>> PROVE WorkOK'
  BY <1>1, <1>11 DEF WorkOK, WorkOnlyObserved
<1>12. QED
  BY <1>2, <1>3, <1>4, <1>5, <1>6, <1>7, <1>8, <1>9, <1>10, <1>11 DEF EventsNext, EventSteps

\* Whoever takes the native alarm opens a pass, and whoever ends a pass leaves an alarm.
LEMMA ArmedStepOK == ASSUME EventsAssumption, EventsIInv, [EventsNext]_eventVars PROVE ArmedOK'
<1>1. ArmedOK
  BY DEF EventsIInv
<1>2. ASSUME NEW e \in Events, Enroll(e) PROVE ArmedOK'
  <2>1. PICK response \in BOOLEAN : nativeAlarm' = Armed(response)
    BY <1>2 DEF Enroll, HandlerContext
  <2>2. nativeAlarm' \in {"due", "recovery"}
    BY <1>1, <2>1 DEF Armed, ArmedOK
  <2>3. UNCHANGED <<alarmPass, crashes>> /\ due' = TRUE
    BY <1>2 DEF Enroll
  <2>4. QED
    BY <1>1, <2>2, <2>3 DEF ArmedOK, DueIsArmed
<1>3. ASSUME NEW e \in Events, PromptDispatch(e) PROVE ArmedOK'
  BY <1>1, <1>3 DEF PromptDispatch, ArmedOK, DueIsArmed
<1>4. CASE NativeDelivery
  BY <1>1, <1>4 DEF NativeDelivery, ArmedOK, DueIsArmed
<1>5. CASE Dispatch
  BY <1>1, <1>5 DEF Dispatch, ArmedOK, DueIsArmed
<1>6. CASE PassEnds \/ PassFails
  <2>1. alarmPass' = "none" /\ due' = due /\ crashes' = crashes
    BY <1>6 DEF PassEnds, PassFails
  <2>2. nativeAlarm' \in {"none", "due", "recovery"} /\ (due => nativeAlarm' # "none")
    BY <1>6 DEF PassEnds, PassFails, Reconciled
  <2>3. QED
    BY <1>1, <2>1, <2>2 DEF ArmedOK, DueIsArmed
<1>7. CASE Crash
  <2>1. crashes' \in 0..Crashes
    BY <1>1, <1>7 DEF Crash, ArmedOK, EventsAssumption
  <2>2. QED
    BY <1>1, <1>7, <2>1 DEF Crash, ArmedOK, DueIsArmed
<1>8. ASSUME NEW e \in Events, BeginEvent(e) \/ Acquire(e) \/ EventHandlerEnds(e) \/ FlushScheduled(e)
      PROVE  UNCHANGED <<alarms, crashes>>
  BY <1>8 DEF BeginEvent, Acquire, EventHandlerEnds, FlushScheduled
<1>9. ASSUME NEW e \in Events, ScopeCloses(e) \/ ObserverEnds(e) \/ WorkEnds(e) \/ FailureHandled(e) \/ FlushSettles(e)
                 \/ Detach(e)
      PROVE  UNCHANGED <<alarms, crashes>>
  BY <1>9 DEF ScopeCloses, ObserverEnds, WorkEnds, FailureHandled, FlushSettles, Detach
<1>10. ASSUME InstanceSteps PROVE UNCHANGED <<alarms, crashes>>
  BY <1>10 DEF InstanceSteps, LayerBuilt, HookStarts, HookGateEnds
<1>11. CASE UNCHANGED eventVars
  BY <1>1, <1>11 DEF ArmedOK, DueIsArmed, eventVars
<1>12. ASSUME UNCHANGED <<alarms, crashes>> PROVE ArmedOK'
  BY <1>1, <1>12 DEF ArmedOK, DueIsArmed, alarms
<1>13. QED
  BY <1>2, <1>3, <1>4, <1>5, <1>6, <1>7, <1>8, <1>9, <1>10, <1>11, <1>12
  DEF EventsNext, EventSteps, PassSteps

LEMMA EventsInvariance == ASSUME EventsAssumption PROVE EventsSpec => []EventsIInv
<1>1. EventsInit => EventsIInv
  BY EventsInitOK
<1>2. EventsIInv /\ [EventsNext]_eventVars => EventsIInv'
  <2> SUFFICES ASSUME EventsIInv, [EventsNext]_eventVars PROVE EventsIInv'
    OBVIOUS
  <2>1. GatesOK' /\ StagesOK'
    BY GatesStepOK, StagesStepOK
  <2>2. WorkOK' /\ ArmedOK'
    BY WorkStepOK, ArmedStepOK
  <2>3. QED
    BY <2>1, <2>2 DEF EventsIInv
<1>3. QED
  BY <1>1, <1>2, PTL DEF EventsSpec

\* Only an event that is admitted leaves its first stage, and none is admitted early.
LEMMA EventsBeginAdmitted ==
  ASSUME EventsIInv, [EventsNext]_eventVars, NEW e \in Events, stage[e] = "new", stage'[e] = "layer"
  PROVE  boot = "ready" /\ "hook" \notin gates
<1>1. stage \in [Events -> Stages]
  BY DEF EventsIInv, StagesOK
<1>2. ASSUME NEW d \in Events, BeginEvent(d) PROVE boot = "ready" /\ "hook" \notin gates
  BY <1>2 DEF BeginEvent, Admits, EventsIInv, GatesOK
<1>3. ASSUME NEW d \in Events, Acquire(d) \/ EventHandlerEnds(d) \/ FlushScheduled(d) \/ ScopeCloses(d) \/ ObserverEnds(d)
      PROVE  FALSE
  BY <1>1, <1>3 DEF Acquire, EventHandlerEnds, FlushScheduled, ScopeCloses, ObserverEnds, SettleEvent
<1>4. ASSUME NEW d \in Events, WorkEnds(d) \/ FailureHandled(d) \/ FlushSettles(d) \/ PromptDispatch(d) \/ Enroll(d)
                 \/ Detach(d)
      PROVE  FALSE
  BY <1>4 DEF WorkEnds, FailureHandled, FlushSettles, PromptDispatch, Enroll, Detach, event
<1>5. ASSUME InstanceSteps \/ PassSteps \/ PassFails \/ NativeDelivery PROVE FALSE
  BY <1>5 DEF InstanceSteps, LayerBuilt, HookStarts, HookGateEnds, PassSteps, Dispatch, PassEnds, PassFails,
     NativeDelivery, event
<1>6. ~ Crash
  BY DEF Crash
<1>7. CASE UNCHANGED eventVars
  BY <1>7 DEF eventVars
<1>8. QED
  BY <1>2, <1>3, <1>4, <1>5, <1>6, <1>7 DEF EventsNext, EventSteps

\* The variables of an object's events stay within their sets.
LEMMA EventsTypeCorrect == ASSUME EventsIInv PROVE EventsTypeOK /\ DueIsArmed /\ WorkOnlyObserved
BY DEF EventsIInv, GatesOK, StagesOK, WorkOK, ArmedOK, EventsTypeOK

\* For any events, faults and evictions: no event runs before the constructor's hook had
\* its chance to block and is through; due work is armed or about to be dispatched, also
\* what finalizers and background work enroll; and background work fails its promise only
\* where that was asked for.
THEOREM EventsKeepOrder == ASSUME EventsAssumption PROVE EventsSpec => EventsRunInOrder
<1>1. EventsIInv => EventsTypeOK /\ DueIsArmed /\ WorkOnlyObserved
  BY EventsTypeCorrect
<1>2. ASSUME EventsIInv, [EventsNext]_eventVars
      PROVE  [\A e \in Events :
                stage[e] = "new" /\ stage'[e] = "layer" => boot = "ready" /\ "hook" \notin gates]_eventVars
  BY <1>2, EventsBeginAdmitted
<1>3. QED
  BY <1>1, <1>2, EventsInvariance, PTL DEF EventsSpec, EventsRunInOrder, NothingBeforeInitialize

----------------------------------------------------------------------------
(* The datagrams of a session. *)

Writing == {s \in Senders : send[s] = "writing"}
SendersOK ==
    /\ session \in {"open", "closed", "marked"} /\ writer \in BOOLEAN /\ out \in Nat
    /\ send \in [Senders -> {"idle", "waiting", "ready", "writing"}]
    /\ result \in [Senders -> {"none", "sent", "SessionClosed", "TooLarge", "WriteError"}]
    /\ IsFiniteSet(Writing) /\ out = Cardinality(Writing)
    /\ ClosedWithoutWriter

\* Whoever has the lock is reading, a datagram is in hand when a read resolved, and a
\* read only waits when nothing is buffered.
ReadersOK ==
    /\ buffer \in Seq(1..Incoming) /\ got \in Seq(1..Incoming) /\ lost \subseteq 1..Incoming
    /\ lock \in Readers \cup {Free} /\ read \in [Readers -> {"idle", "locked", "pending", "resolved", "ended"}]
    /\ inhand \in [Readers -> 0..Incoming] /\ arrived \in 0..Incoming
    /\ LockFollowsReader
    /\ \A r \in Readers : inhand[r] # 0 <=> read[r] = "resolved"
    /\ \A r \in Readers : read[r] = "pending" => buffer = <<>>

\* What the application got came before what is in hand, and that before the buffer.
Increasing(s) == \A i, j \in DOMAIN s : i < j => s[i] < s[j]
InOrder ==
    /\ Increasing(got) /\ Increasing(buffer)
    /\ \A i \in DOMAIN got : got[i] <= arrived /\ \A j \in DOMAIN buffer : got[i] < buffer[j]
    /\ \A j \in DOMAIN buffer : buffer[j] <= arrived
    /\ \A r \in Readers : inhand[r] # 0 =>
          /\ inhand[r] <= arrived
          /\ \A i \in DOMAIN got : got[i] < inhand[r]
          /\ \A j \in DOMAIN buffer : inhand[r] < buffer[j]

NoneMissing ==
    \A d \in 1..arrived : d \in ToSet(got) \cup ToSet(buffer) \cup lost \/ \E r \in Readers : inhand[r] = d

DatagramsIInv == SendersOK /\ ReadersOK /\ InOrder /\ NoneMissing

LEMMA DatagramsInitOK == ASSUME DatagramAssumption, DatagramsInit PROVE DatagramsIInv
<1>1. SendersOK
  <2>1. Writing = {}
    BY DEF DatagramsInit, Writing
  <2>2. IsFiniteSet(Writing) /\ Cardinality(Writing) = 0
    BY <2>1, FS_EmptySet
  <2>3. out \in Nat
    BY DEF DatagramsInit
  <2>4. QED
    BY <2>2, <2>3 DEF DatagramsInit, SendersOK, ClosedWithoutWriter
<1>2. ReadersOK
  BY DEF DatagramAssumption, DatagramsInit, ReadersOK, LockFollowsReader
<1>3. InOrder /\ NoneMissing
  BY DEF DatagramsInit, InOrder, Increasing, NoneMissing
<1>4. QED
  BY <1>1, <1>2, <1>3 DEF DatagramsIInv

\* A sender starts or stops writing: the queue counts it.
LEMMA WritingStarts ==
  ASSUME SendersOK, NEW s \in Senders, send[s] # "writing", send' = [send EXCEPT ![s] = "writing"]
  PROVE  IsFiniteSet(Writing') /\ Cardinality(Writing') = Cardinality(Writing) + 1
<1>1. Writing' = Writing \cup {s} /\ s \notin Writing
  BY DEF SendersOK, Writing
<1>2. QED
  BY <1>1, FS_AddElement DEF SendersOK

LEMMA WritingStops ==
  ASSUME SendersOK, NEW s \in Senders, NEW x \in {"idle", "waiting", "ready"}, send' = [send EXCEPT ![s] = x]
  PROVE  /\ IsFiniteSet(Writing')
         /\ Cardinality(Writing') = IF send[s] = "writing" THEN Cardinality(Writing) - 1 ELSE Cardinality(Writing)
<1>1. Writing' = Writing \ {s} /\ IsFiniteSet(Writing)
  BY DEF SendersOK, Writing
<1>2. CASE send[s] = "writing"
  <2>1. s \in Writing
    BY <1>2 DEF Writing
  <2>2. QED
    BY <1>1, <1>2, <2>1, FS_RemoveElement
<1>3. CASE send[s] # "writing"
  <2>1. Writing' = Writing
    BY <1>1, <1>3 DEF Writing
  <2>2. QED
    BY <1>1, <1>3, <2>1
<1>4. QED
  BY <1>2, <1>3

LEMMA SenderStepOK ==
  ASSUME DatagramAssumption, SendersOK, NEW s \in Senders,
         (\E fits \in BOOLEAN : SendDatagram(s, fits)) \/ Ready(s) \/ WriteDatagram(s) \/ Sent(s) \/ SendFails(s)
  PROVE  SendersOK' /\ UNCHANGED arrived /\ UNCHANGED reading
<1>1. UNCHANGED arrived /\ UNCHANGED reading /\ session' = session
  BY DEF SendDatagram, Ready, WriteDatagram, Sent, SendFails
<1>2. Cardinality(Writing) \in Nat /\ IsFiniteSet(Writing)
  BY FS_CardinalityType DEF SendersOK
<1>3. ASSUME NEW fits \in BOOLEAN, SendDatagram(s, fits) PROVE SendersOK'
  <2>1. PICK x \in {"idle", "waiting"} : send' = [send EXCEPT ![s] = x]
    BY <1>3 DEF SendDatagram, Ends
  <2>2. send[s] # "writing" /\ out' = out
    BY <1>3 DEF SendDatagram
  <2>3. IsFiniteSet(Writing') /\ Cardinality(Writing') = out'
    BY <2>1, <2>2, WritingStops DEF SendersOK
  <2>4. result' \in [Senders -> {"none", "sent", "SessionClosed", "TooLarge", "WriteError"}]
    BY <1>3 DEF SendDatagram, Ends, SendersOK
  <2>5. writer' \in BOOLEAN /\ ClosedWithoutWriter'
    <3>1. CASE MaySend
      <4>1. session' # "marked"
        BY <1>1, <3>1 DEF MaySend
      <4>2. writer' = writer \/ writer' = TRUE
        BY <1>3 DEF SendDatagram
      <4>3. QED
        BY <4>1, <4>2 DEF SendersOK, ClosedWithoutWriter
    <3>2. CASE ~ MaySend
      <4>1. writer' = writer
        BY <1>3, <3>2 DEF SendDatagram
      <4>2. QED
        BY <1>1, <4>1 DEF SendersOK, ClosedWithoutWriter
    <3>3. QED
      BY <3>1, <3>2
  <2>6. QED
    BY <1>1, <2>1, <2>2, <2>3, <2>4, <2>5 DEF SendersOK
<1>4. CASE Ready(s)
  <2>1. send' = [send EXCEPT ![s] = "ready"] /\ send[s] # "writing" /\ UNCHANGED <<writer, out, result>>
    BY <1>4 DEF Ready
  <2>2. IsFiniteSet(Writing') /\ Cardinality(Writing') = out'
    BY <2>1, WritingStops DEF SendersOK
  <2>3. QED
    BY <1>1, <2>1, <2>2 DEF SendersOK, ClosedWithoutWriter
<1>w. CASE WriteDatagram(s)
  <2>1. send' = [send EXCEPT ![s] = "writing"] /\ send[s] # "writing" /\ out' = out + 1
    BY <1>w DEF WriteDatagram
  <2>2. IsFiniteSet(Writing') /\ Cardinality(Writing') = Cardinality(Writing) + 1
    BY <2>1, WritingStarts
  <2>3. Cardinality(Writing') = out' /\ out' \in Nat
    BY <1>2, <2>1, <2>2 DEF SendersOK
  <2>4. UNCHANGED <<writer, result>>
    BY <1>w DEF WriteDatagram
  <2>5. QED
    BY <1>1, <2>1, <2>2, <2>3, <2>4 DEF SendersOK, ClosedWithoutWriter
<1>5. CASE Sent(s) \/ SendFails(s)
  <2>1. send' = [send EXCEPT ![s] = "idle"] /\ out' = (IF send[s] = "writing" THEN out - 1 ELSE out)
    BY <1>5 DEF Sent, SendFails, Ends
  <2>2. send[s] = "writing" => out # 0
    <3>1. ASSUME send[s] = "writing" PROVE Writing # {}
      BY <3>1 DEF Writing
    <3>2. QED
      BY <1>2, <3>1, FS_EmptySet DEF SendersOK
  <2>3. IsFiniteSet(Writing') /\ Cardinality(Writing') = out'
    BY <2>1, WritingStops DEF SendersOK
  <2>4. out' \in Nat
    BY <1>2, <2>1, <2>2 DEF SendersOK
  <2>5. UNCHANGED writer /\ result' \in [Senders -> {"none", "sent", "SessionClosed", "TooLarge", "WriteError"}]
    BY <1>5 DEF Sent, SendFails, Ends, SendersOK
  <2>6. QED
    BY <1>1, <2>1, <2>3, <2>4, <2>5 DEF SendersOK, ClosedWithoutWriter
<1>6. QED
  BY <1>1, <1>3, <1>4, <1>w, <1>5

\* The session ends; the readers that wait learn of it.
LEMMA SessionStepOK ==
  ASSUME DatagramsIInv, Close \/ MarkClosed PROVE DatagramsIInv'
<1>1. SendersOK'
  <2>1. UNCHANGED <<out, send, result>> /\ Writing' = Writing
    BY DEF Close, MarkClosed, sending, Writing
  <2>2. session' \in {"closed", "marked"} /\ writer' \in BOOLEAN /\ ClosedWithoutWriter'
    BY DEF Close, MarkClosed, sending, DatagramsIInv, SendersOK, ClosedWithoutWriter
  <2>3. QED
    BY <2>1, <2>2 DEF DatagramsIInv, SendersOK
<1>2. ReadersOK'
  BY DEF Close, MarkClosed, reading, DatagramsIInv, ReadersOK, LockFollowsReader
<1>3. UNCHANGED <<buffer, got, lost, inhand, arrived>>
  BY DEF Close, MarkClosed, reading
<1>4. InOrder' /\ NoneMissing'
  BY <1>3 DEF DatagramsIInv, InOrder, Increasing, NoneMissing
<1>5. QED
  BY <1>1, <1>2, <1>4 DEF DatagramsIInv

\* What is in a sequence, at its ends.
LEMMA AppendedOnce ==
  ASSUME NEW S, NEW s \in Seq(S), NEW x \in S
  PROVE  /\ Len(s) \in Nat /\ DOMAIN s = 1..Len(s) /\ DOMAIN Append(s, x) = 1..(Len(s) + 1)
         /\ Append(s, x)[Len(s) + 1] = x /\ \A i \in 1..Len(s) : Append(s, x)[i] = s[i]
OBVIOUS

LEMMA InAppended ==
  ASSUME NEW S, NEW s \in Seq(S), NEW x \in S
  PROVE  ToSet(Append(s, x)) = ToSet(s) \cup {x}
<1>1. /\ Len(s) \in Nat /\ DOMAIN s = 1..Len(s) /\ DOMAIN Append(s, x) = 1..(Len(s) + 1)
      /\ Append(s, x)[Len(s) + 1] = x /\ \A i \in 1..Len(s) : Append(s, x)[i] = s[i]
  BY AppendedOnce
<1>2. ASSUME NEW y \in ToSet(Append(s, x)) PROVE y \in ToSet(s) \cup {x}
  <2>1. PICK i \in 1..(Len(s) + 1) : y = Append(s, x)[i]
    BY <1>1, <1>2 DEF ToSet
  <2>2. CASE i = Len(s) + 1
    BY <1>1, <2>1, <2>2
  <2>3. CASE i # Len(s) + 1
    <3>1. i \in 1..Len(s)
      BY <1>1, <2>3
    <3>2. QED
      BY <1>1, <2>1, <3>1 DEF ToSet
  <2>4. QED
    BY <2>2, <2>3
<1>3. ASSUME NEW y \in ToSet(s) PROVE y \in ToSet(Append(s, x))
  <2>1. PICK i \in 1..Len(s) : y = s[i]
    BY <1>1, <1>3 DEF ToSet
  <2>2. i \in 1..(Len(s) + 1)
    BY <1>1
  <2>3. QED
    BY <1>1, <2>1, <2>2 DEF ToSet
<1>4. x \in ToSet(Append(s, x))
  <2>1. Len(s) + 1 \in 1..(Len(s) + 1)
    BY <1>1
  <2>2. QED
    BY <1>1, <2>1 DEF ToSet
<1>5. QED
  BY <1>2, <1>3, <1>4

LEMMA InTail ==
  ASSUME NEW S, NEW s \in Seq(S), s # <<>>
  PROVE  /\ Head(s) = s[1] /\ Tail(s) \in Seq(S) /\ Len(Tail(s)) = Len(s) - 1 /\ Len(s) \in Nat \ {0}
         /\ \A i \in 1..Len(Tail(s)) : Tail(s)[i] = s[i + 1]
         /\ ToSet(s) \subseteq ToSet(Tail(s)) \cup {Head(s)}
<1>1. /\ Head(s) = s[1] /\ Tail(s) \in Seq(S) /\ Len(Tail(s)) = Len(s) - 1 /\ Len(s) \in Nat \ {0}
      /\ \A i \in 1..Len(Tail(s)) : Tail(s)[i] = s[i + 1]
  OBVIOUS
<1>2. ASSUME NEW i \in 1..Len(s), i # 1 PROVE s[i] \in ToSet(Tail(s))
  <2>1. i - 1 \in 1..Len(Tail(s)) /\ (i - 1) + 1 = i
    BY <1>1, <1>2
  <2>2. Tail(s)[i - 1] = s[(i - 1) + 1]
    BY <1>1, <2>1
  <2>3. DOMAIN Tail(s) = 1..Len(Tail(s)) /\ Tail(s)[i - 1] = s[i]
    BY <1>1, <2>1, <2>2
  <2>4. QED
    BY <2>1, <2>3 DEF ToSet
<1>3. ToSet(s) \subseteq ToSet(Tail(s)) \cup {Head(s)}
  BY <1>1, <1>2 DEF ToSet
<1>4. QED
  BY <1>1, <1>3

\* Only the reader with the lock has anything in hand.
LEMMA OneInHand ==
  ASSUME ReadersOK, NEW r \in Readers, read[r] # "idle", NEW q \in Readers, q # r
  PROVE  read[q] = "idle" /\ inhand[q] = 0
BY DEF ReadersOK, LockFollowsReader

\* getReader.
LEMMA LockOK ==
  ASSUME DatagramAssumption, DatagramsIInv, NEW r \in Readers, Lock(r) PROVE DatagramsIInv'
<1>1. UNCHANGED <<session, writer, out, send, result, buffer, inhand, got, lost, arrived>>
  BY DEF Lock, sending
<1>2. ReadersOK'
  BY <1>1 DEF Lock, Unlocked, DatagramAssumption, DatagramsIInv, ReadersOK, LockFollowsReader
<1>3. SendersOK'
  BY <1>1 DEF DatagramsIInv, SendersOK, Writing, ClosedWithoutWriter
<1>4. InOrder' /\ NoneMissing'
  BY <1>1 DEF DatagramsIInv, InOrder, Increasing, NoneMissing
<1>5. QED
  BY <1>2, <1>3, <1>4 DEF DatagramsIInv


\* reader.read.
LEMMA ReadOK ==
  ASSUME DatagramAssumption, DatagramsIInv, NEW r \in Readers, Read(r) PROVE DatagramsIInv'
<1>1. UNCHANGED <<session, writer, out, send, result, lock, got, lost, arrived>> /\ read[r] = "locked"
  BY DEF Read, sending
<1>2. SendersOK'
  BY <1>1 DEF DatagramsIInv, SendersOK, Writing, ClosedWithoutWriter
<1>3. CASE buffer = <<>>
  <2>1. UNCHANGED <<buffer, inhand>> /\ read' = [read EXCEPT ![r] = IF session = "open" THEN "pending" ELSE "ended"]
    BY <1>3 DEF Read
  <2>2. ReadersOK'
    BY <1>1, <1>3, <2>1 DEF DatagramsIInv, ReadersOK, LockFollowsReader
  <2>3. InOrder' /\ NoneMissing'
    BY <1>1, <2>1 DEF DatagramsIInv, InOrder, Increasing, NoneMissing
  <2>4. QED
    BY <1>2, <2>2, <2>3 DEF DatagramsIInv
<1>4. CASE buffer # <<>>
  <2>1. /\ read' = [read EXCEPT ![r] = "resolved"] /\ buffer' = Tail(buffer)
        /\ inhand' = [inhand EXCEPT ![r] = Head(buffer)]
    BY <1>4 DEF Read
  <2>2. /\ Head(buffer) = buffer[1] /\ buffer' \in Seq(1..Incoming) /\ Len(buffer') = Len(buffer) - 1
        /\ Len(buffer) \in Nat \ {0} /\ \A i \in 1..Len(buffer') : buffer'[i] = buffer[i + 1]
        /\ ToSet(buffer) \subseteq ToSet(buffer') \cup {Head(buffer)}
    BY <1>4, <2>1, InTail DEF DatagramsIInv, ReadersOK
  <2>3. 1 \in DOMAIN buffer /\ Head(buffer) \in 1..Incoming /\ DOMAIN buffer' = 1..Len(buffer')
    <3> DEFINE S == 1..Incoming
    <3>1. buffer \in Seq(S) /\ buffer' \in Seq(S) /\ Head(buffer) = buffer[1] /\ Len(buffer) \in Nat \ {0}
      BY <2>2 DEF DatagramsIInv, ReadersOK
    <3> HIDE DEF S
    <3>2. DOMAIN buffer = 1..Len(buffer) /\ DOMAIN buffer' = 1..Len(buffer')
      BY <3>1
    <3>3. 1 \in DOMAIN buffer /\ buffer[1] \in S
      BY <3>1, <3>2
    <3>4. QED
      BY <3>1, <3>2, <3>3 DEF S
  <2>4. \A q \in Readers \ {r} : read[q] = "idle" /\ inhand[q] = 0
    BY <1>1, OneInHand DEF DatagramsIInv
  <2>5. /\ inhand' \in [Readers -> 0..Incoming] /\ inhand[r] = 0 /\ inhand'[r] = Head(buffer)
        /\ \A q \in Readers \ {r} : inhand'[q] = 0 /\ read'[q] = "idle"
        /\ read' \in [Readers -> {"idle", "locked", "pending", "resolved", "ended"}] /\ read'[r] = "resolved"
    BY <1>1, <2>1, <2>3, <2>4 DEF DatagramsIInv, ReadersOK
  <2>6. ReadersOK'
    <3>1. \A q \in Readers : inhand'[q] # 0 <=> read'[q] = "resolved"
      BY <2>3, <2>5
    <3>2. LockFollowsReader' /\ \A q \in Readers : read'[q] # "pending"
      BY <1>1, <2>5 DEF DatagramsIInv, ReadersOK, LockFollowsReader
    <3>3. QED
      BY <1>1, <2>2, <2>5, <3>1, <3>2 DEF DatagramsIInv, ReadersOK
  <2>7. \A i \in DOMAIN buffer' : i + 1 \in DOMAIN buffer /\ buffer'[i] = buffer[i + 1] /\ 1 < i + 1
    BY <2>2, <2>3 DEF DatagramsIInv, ReadersOK
  <2>8. InOrder'
    <3>1. Increasing(got)' /\ Increasing(buffer)'
      BY <1>1, <2>2, <2>3, <2>7 DEF DatagramsIInv, InOrder, Increasing
    <3>2. /\ \A i \in DOMAIN got : got[i] <= arrived /\ \A j \in DOMAIN buffer' : got[i] < buffer'[j]
          /\ \A j \in DOMAIN buffer' : buffer'[j] <= arrived
      BY <2>7 DEF DatagramsIInv, InOrder
    <3>3. /\ Head(buffer) <= arrived /\ \A i \in DOMAIN got : got[i] < Head(buffer)
          /\ \A j \in DOMAIN buffer' : Head(buffer) < buffer'[j]
      BY <2>2, <2>3, <2>7 DEF DatagramsIInv, InOrder, Increasing
    <3>4. QED
      BY <1>1, <2>5, <3>1, <3>2, <3>3 DEF InOrder
  <2>9. NoneMissing'
    <3>1. \A d \in 1..arrived : d \in ToSet(got) \cup ToSet(buffer) \cup lost \/ \E q \in Readers : inhand[q] = d
      BY DEF DatagramsIInv, NoneMissing
    <3>2. \A q \in Readers : inhand[q] = 0
      BY <2>4, <2>5
    <3>3. \A d \in 1..arrived : d # 0
      BY DEF DatagramsIInv, ReadersOK
    <3>4. \A d \in 1..arrived : d \in ToSet(got) \cup ToSet(buffer') \cup lost \/ inhand'[r] = d
      BY <2>2, <2>5, <3>1, <3>2, <3>3
    <3>5. QED
      BY <1>1, <3>4 DEF NoneMissing
  <2>10. QED
    BY <1>2, <2>6, <2>8, <2>9 DEF DatagramsIInv
<1>5. QED
  BY <1>3, <1>4

\* A datagram reaches the application: it follows all that did.
LEMMA HandOverOK ==
  ASSUME DatagramAssumption, DatagramsIInv, NEW r \in Readers, DeliverDatagram(r) PROVE DatagramsIInv'
<1>1. UNCHANGED <<session, writer, out, send, result, buffer, lost, arrived>> /\ read[r] = "resolved"
  BY DEF DeliverDatagram, sending
<1>2. SendersOK'
  BY <1>1 DEF DatagramsIInv, SendersOK, Writing, ClosedWithoutWriter
<1>3. \A q \in Readers \ {r} : read[q] = "idle" /\ inhand[q] = 0
  BY <1>1, OneInHand DEF DatagramsIInv
<1>4. inhand[r] \in 1..Incoming /\ got \in Seq(1..Incoming) /\ lock = r /\ arrived \in 0..Incoming
  BY <1>1 DEF DatagramsIInv, ReadersOK, LockFollowsReader, DatagramAssumption
<1>5. got' = Append(got, inhand[r]) /\ inhand' = [inhand EXCEPT ![r] = 0]
  BY DEF DeliverDatagram
<1>6. inhand' \in [Readers -> 0..Incoming] /\ \A q \in Readers : inhand'[q] = 0
  BY <1>3, <1>5, DatagramsIInv DEF DatagramsIInv, ReadersOK, DatagramAssumption
<1>7. ReadersOK'
  <2>1. \/ read' = [read EXCEPT ![r] = "idle"] /\ lock' = Free
        \/ read' = [read EXCEPT ![r] = "locked"] /\ lock' = lock
    BY <1>4 DEF DeliverDatagram, Released
  <2>2. /\ read' \in [Readers -> {"idle", "locked", "pending", "resolved", "ended"}] /\ lock' \in Readers \cup {Free}
        /\ LockFollowsReader' /\ \A q \in Readers : read'[q] \notin {"resolved", "pending"}
    <3>1. Free \notin Readers /\ read \in [Readers -> {"idle", "locked", "pending", "resolved", "ended"}]
      BY DEF DatagramsIInv, ReadersOK, DatagramAssumption
    <3>2. CASE read' = [read EXCEPT ![r] = "idle"] /\ lock' = Free
      BY <1>3, <1>4, <3>1, <3>2 DEF LockFollowsReader
    <3>3. CASE read' = [read EXCEPT ![r] = "locked"] /\ lock' = lock
      BY <1>3, <1>4, <3>1, <3>3 DEF LockFollowsReader
    <3>4. QED
      BY <2>1, <3>2, <3>3
  <2>3. got' \in Seq(1..Incoming)
    BY <1>4, <1>5
  <2>4. QED
    BY <1>1, <1>6, <2>2, <2>3 DEF DatagramsIInv, ReadersOK
<1>8. /\ Len(got) \in Nat /\ DOMAIN got = 1..Len(got) /\ DOMAIN got' = 1..(Len(got) + 1)
      /\ got'[Len(got) + 1] = inhand[r] /\ \A i \in 1..Len(got) : got'[i] = got[i] /\ got[i] \in 1..Incoming
  <2> DEFINE x == inhand[r]
             S == 1..Incoming
  <2>1. got \in Seq(S) /\ x \in S /\ got' = Append(got, x)
    BY <1>4, <1>5
  <2> HIDE DEF x, S
  <2>2. Len(got) \in Nat /\ DOMAIN got = 1..Len(got) /\ \A i \in 1..Len(got) : got[i] \in S
    BY <2>1
  <2>3. /\ DOMAIN Append(got, x) = 1..(Len(got) + 1) /\ Append(got, x)[Len(got) + 1] = x
        /\ \A i \in 1..Len(got) : Append(got, x)[i] = got[i]
    BY <2>1, AppendedOnce
  <2>4. QED
    BY <2>1, <2>2, <2>3 DEF x, S
<1>9. /\ inhand[r] <= arrived /\ \A i \in 1..Len(got) : got[i] < inhand[r]
      /\ \A j \in DOMAIN buffer : inhand[r] < buffer[j]
  BY <1>4, <1>8 DEF DatagramsIInv, InOrder
<1>10. Increasing(got)'
  <2>1. ASSUME NEW i \in 1..(Len(got) + 1), NEW j \in 1..(Len(got) + 1), i < j PROVE got'[i] < got'[j]
    <3>1. i \in 1..Len(got)
      BY <1>8, <2>1
    <3>2. CASE j = Len(got) + 1
      BY <1>8, <1>9, <3>1, <3>2
    <3>3. CASE j # Len(got) + 1
      <4>1. j \in 1..Len(got)
        BY <1>8, <3>3
      <4>2. got[i] < got[j]
        BY <1>8, <2>1, <3>1, <4>1 DEF DatagramsIInv, InOrder, Increasing
      <4>3. QED
        BY <1>8, <3>1, <4>1, <4>2
    <3>4. QED
      BY <3>2, <3>3
  <2>2. QED
    BY <1>8, <2>1 DEF Increasing
<1>11. \A i \in DOMAIN got' : got'[i] <= arrived /\ \A j \in DOMAIN buffer : got'[i] < buffer[j]
  <2>1. ASSUME NEW i \in DOMAIN got' PROVE got'[i] <= arrived /\ \A j \in DOMAIN buffer : got'[i] < buffer[j]
    <3>1. CASE i = Len(got) + 1
      BY <1>8, <1>9, <3>1
    <3>2. CASE i # Len(got) + 1
      <4>1. i \in 1..Len(got)
        BY <1>8, <2>1, <3>2
      <4>2. QED
        BY <1>8, <4>1 DEF DatagramsIInv, InOrder
    <3>3. QED
      BY <3>1, <3>2
  <2>2. QED
    BY <2>1
<1>12. InOrder'
  BY <1>1, <1>6, <1>10, <1>11 DEF DatagramsIInv, InOrder, Increasing
<1>13. NoneMissing'
  <2>1. ToSet(got') = ToSet(got) \cup {inhand[r]}
    <3> DEFINE x == inhand[r]
               S == 1..Incoming
    <3>1. got \in Seq(S) /\ x \in S /\ got' = Append(got, x)
      BY <1>4, <1>5
    <3> HIDE DEF x, S
    <3>2. ToSet(Append(got, x)) = ToSet(got) \cup {x}
      BY <3>1, InAppended
    <3>3. QED
      BY <3>1, <3>2 DEF x
  <2>2. \A q \in Readers : q = r \/ inhand[q] = 0
    BY <1>3
  <2>3. \A d \in 1..arrived : d # 0
    BY <1>4
  <2>4. QED
    BY <1>1, <2>1, <2>2, <2>3 DEF DatagramsIInv, NoneMissing
<1>14. QED
  BY <1>2, <1>7, <1>12, <1>13 DEF DatagramsIInv

\* A reader gives its lock back; what it held is lost, what is buffered stays.
LEMMA EndReadOK ==
  ASSUME DatagramAssumption, DatagramsIInv, NEW r \in Readers, EndRead(r) PROVE DatagramsIInv'
<1>1. /\ UNCHANGED <<session, writer, out, send, result, buffer, got, arrived>> /\ read[r] # "idle"
      /\ read' = [read EXCEPT ![r] = "idle"] /\ lock' = Released(r) /\ inhand' = [inhand EXCEPT ![r] = 0]
      /\ lost' = IF inhand[r] # 0 THEN lost \cup {inhand[r]} ELSE lost
  BY DEF EndRead, sending, QueueAfterStream
<1>2. SendersOK'
  BY <1>1 DEF DatagramsIInv, SendersOK, Writing, ClosedWithoutWriter
<1>3. \A q \in Readers \ {r} : read[q] = "idle" /\ inhand[q] = 0
  BY <1>1, OneInHand DEF DatagramsIInv
<1>4. lock' = Free
  BY <1>1 DEF DatagramsIInv, ReadersOK, LockFollowsReader, Released
<1>5. /\ inhand' \in [Readers -> 0..Incoming] /\ \A q \in Readers : inhand'[q] = 0
      /\ read' \in [Readers -> {"idle", "locked", "pending", "resolved", "ended"}] /\ \A q \in Readers : read'[q] = "idle"
  BY <1>1, <1>3 DEF DatagramsIInv, ReadersOK, DatagramAssumption
<1>6. inhand[r] # 0 => inhand[r] \in 1..Incoming
  BY DEF DatagramsIInv, ReadersOK, DatagramAssumption
<1>7. ReadersOK'
  <2>1. lost' \subseteq 1..Incoming
    BY <1>1, <1>6 DEF DatagramsIInv, ReadersOK
  <2>2. QED
    BY <1>1, <1>4, <1>5, <2>1 DEF DatagramsIInv, ReadersOK, LockFollowsReader, DatagramAssumption
<1>8. InOrder'
  BY <1>1, <1>5 DEF DatagramsIInv, InOrder, Increasing
<1>9. NoneMissing'
  <2>1. \A d \in 1..arrived : d # 0
    BY DEF DatagramsIInv, ReadersOK
  <2>2. \A q \in Readers : inhand[q] # 0 => (q = r /\ inhand[q] \in lost')
    BY <1>1, <1>3
  <2>3. lost \subseteq lost'
    BY <1>1
  <2>4. QED
    BY <1>1, <2>1, <2>2, <2>3 DEF DatagramsIInv, NoneMissing
<1>10. QED
  BY <1>2, <1>7, <1>8, <1>9 DEF DatagramsIInv

\* A datagram arrives: it is later than all the others.
LEMMA ArriveOK ==
  ASSUME DatagramAssumption, DatagramsIInv, Arrive PROVE DatagramsIInv'
<1>1. UNCHANGED <<session, writer, out, send, result, lock, got>> /\ arrived < Incoming /\ arrived' = arrived + 1
  BY DEF Arrive, sending
<1>2. SendersOK'
  BY <1>1 DEF DatagramsIInv, SendersOK, Writing, ClosedWithoutWriter
<1>3. arrived \in 0..Incoming /\ arrived' \in 1..Incoming /\ arrived' # 0 /\ Incoming \in Nat
  BY <1>1 DEF DatagramAssumption, DatagramsIInv, ReadersOK
<1>4. /\ \A i \in DOMAIN got : got[i] <= arrived' /\ got[i] < arrived'
      /\ \A j \in DOMAIN buffer : buffer[j] <= arrived' /\ buffer[j] < arrived'
      /\ \A r \in Readers : inhand[r] # 0 => (inhand[r] <= arrived' /\ inhand[r] < arrived')
  BY <1>1, <1>3 DEF DatagramsIInv, ReadersOK, InOrder
<1>5. \A d \in 1..arrived' : d \in 1..arrived \/ d = arrived'
  BY <1>1, <1>3
<1>6. CASE lock # Free /\ read[lock] = "pending"
  <2>1. PICK r \in Readers : r = lock
    BY <1>6 DEF DatagramsIInv, ReadersOK
  <2>2. /\ read' = [read EXCEPT ![r] = "resolved"] /\ inhand' = [inhand EXCEPT ![r] = arrived']
        /\ UNCHANGED <<buffer, lost>> /\ buffer = <<>> /\ read[r] = "pending"
    BY <1>6, <2>1 DEF Arrive, DatagramsIInv, ReadersOK
  <2>3. \A q \in Readers \ {r} : read[q] = "idle" /\ inhand[q] = 0
    BY <2>2, OneInHand DEF DatagramsIInv
  <2>4. /\ inhand' \in [Readers -> 0..Incoming] /\ inhand[r] = 0 /\ inhand'[r] = arrived' /\ read'[r] = "resolved"
        /\ \A q \in Readers \ {r} : inhand'[q] = 0 /\ read'[q] = "idle"
        /\ read' \in [Readers -> {"idle", "locked", "pending", "resolved", "ended"}]
    BY <1>3, <2>2, <2>3 DEF DatagramsIInv, ReadersOK
  <2>5. ReadersOK'
    <3>1. \A q \in Readers : inhand'[q] # 0 <=> read'[q] = "resolved"
      BY <1>3, <2>4
    <3>2. LockFollowsReader' /\ \A q \in Readers : read'[q] # "pending"
      BY <1>1, <2>1, <2>4 DEF DatagramsIInv, ReadersOK, LockFollowsReader
    <3>3. QED
      BY <1>1, <1>3, <2>2, <2>4, <3>1, <3>2 DEF DatagramsIInv, ReadersOK
  <2>6. InOrder'
    <3>1. DOMAIN buffer' = {}
      BY <2>2
    <3>2. QED
      BY <1>1, <1>3, <1>4, <2>4, <3>1 DEF DatagramsIInv, InOrder, Increasing
  <2>7. NoneMissing'
    <3>1. \A d \in 1..arrived : d \in ToSet(got) \cup ToSet(buffer) \cup lost \/ \E q \in Readers : inhand[q] = d
      BY DEF DatagramsIInv, NoneMissing
    <3>2. \A d \in 1..arrived : d # 0
      BY <1>3
    <3>3. \A d \in 1..arrived : d \in ToSet(got) \cup ToSet(buffer) \cup lost
      BY <2>3, <2>4, <3>1, <3>2
    <3>4. QED
      BY <1>1, <1>5, <2>2, <2>4, <3>3 DEF NoneMissing
  <2>8. QED
    BY <1>2, <2>5, <2>6, <2>7 DEF DatagramsIInv
<1>7. CASE ~ (lock # Free /\ read[lock] = "pending")
  <2>1. UNCHANGED <<read, inhand>>
    BY <1>7 DEF Arrive
  <2>2. \A r \in Readers : read[r] # "pending"
    BY <1>7 DEF DatagramsIInv, ReadersOK, LockFollowsReader, DatagramAssumption
  <2>3. CASE Len(buffer) < HighWater
    <3>1. buffer' = Append(buffer, arrived') /\ lost' = lost
      BY <1>7, <2>3 DEF Arrive
    <3>2. buffer \in Seq(1..Incoming) /\ buffer' \in Seq(1..Incoming)
      BY <1>3, <3>1 DEF DatagramsIInv, ReadersOK
    <3>3. /\ Len(buffer) \in Nat /\ DOMAIN buffer = 1..Len(buffer) /\ DOMAIN buffer' = 1..(Len(buffer) + 1)
          /\ buffer'[Len(buffer) + 1] = arrived' /\ \A i \in 1..Len(buffer) : buffer'[i] = buffer[i]
      BY <3>1, <3>2, <1>3
    <3>4. ReadersOK'
      BY <1>1, <1>3, <2>1, <2>2, <3>1, <3>2 DEF DatagramsIInv, ReadersOK, LockFollowsReader
    <3>5. \A j \in DOMAIN buffer' : j \in DOMAIN buffer \/ j = Len(buffer) + 1
      BY <3>3
    <3>6. Increasing(buffer)'
      <4>1. ASSUME NEW i \in DOMAIN buffer', NEW j \in DOMAIN buffer', i < j PROVE buffer'[i] < buffer'[j]
        <5>1. i \in DOMAIN buffer /\ buffer'[i] = buffer[i]
          BY <3>3, <4>1
        <5>2. CASE j = Len(buffer) + 1
          BY <1>4, <3>3, <5>1, <5>2
        <5>3. CASE j \in DOMAIN buffer
          <6>1. buffer[i] < buffer[j]
            BY <4>1, <5>1, <5>3 DEF DatagramsIInv, InOrder, Increasing
          <6>2. QED
            BY <3>3, <5>1, <5>3, <6>1
        <5>4. QED
          BY <3>5, <5>2, <5>3
      <4>2. QED
        BY <4>1 DEF Increasing
    <3>7. \A j \in DOMAIN buffer' :
             /\ buffer'[j] <= arrived' /\ \A i \in DOMAIN got : got[i] < buffer'[j]
             /\ \A r \in Readers : inhand[r] # 0 => inhand[r] < buffer'[j]
      <4>1. ASSUME NEW j \in DOMAIN buffer'
            PROVE  /\ buffer'[j] <= arrived' /\ \A i \in DOMAIN got : got[i] < buffer'[j]
                   /\ \A r \in Readers : inhand[r] # 0 => inhand[r] < buffer'[j]
        <5>1. CASE j = Len(buffer) + 1
          BY <1>3, <1>4, <3>3, <5>1
        <5>2. CASE j \in DOMAIN buffer
          <6>1. buffer'[j] = buffer[j]
            BY <3>3, <5>2
          <6>2. QED
            BY <1>4, <5>2, <6>1 DEF DatagramsIInv, InOrder
        <5>3. QED
          BY <3>5, <5>1, <5>2
      <4>2. QED
        BY <4>1
    <3>8. InOrder'
      BY <1>1, <1>4, <2>1, <3>6, <3>7 DEF DatagramsIInv, InOrder, Increasing
    <3>9. NoneMissing'
      <4>1. ToSet(buffer') = ToSet(buffer) \cup {arrived'}
        BY <1>3, <3>1, <3>2, InAppended
      <4>2. QED
        BY <1>1, <1>5, <2>1, <3>1, <4>1 DEF DatagramsIInv, NoneMissing
    <3>10. QED
      BY <1>2, <3>4, <3>8, <3>9 DEF DatagramsIInv
  <2>4. CASE ~ (Len(buffer) < HighWater)
    <3>1. lost' = lost \cup {arrived'} /\ buffer' = buffer
      BY <1>7, <2>4 DEF Arrive
    <3>2. ReadersOK'
      BY <1>1, <1>3, <2>1, <2>2, <3>1 DEF DatagramsIInv, ReadersOK, LockFollowsReader
    <3>3. InOrder'
      BY <1>1, <1>4, <2>1, <3>1 DEF DatagramsIInv, InOrder, Increasing
    <3>4. NoneMissing'
      BY <1>1, <1>5, <2>1, <3>1 DEF DatagramsIInv, NoneMissing
    <3>5. QED
      BY <1>2, <3>2, <3>3, <3>4 DEF DatagramsIInv
  <2>5. QED
    BY <2>3, <2>4
<1>8. QED
  BY <1>6, <1>7

LEMMA DatagramsStutter ==
  ASSUME DatagramsIInv, UNCHANGED datagramVars PROVE DatagramsIInv'
<1>1. UNCHANGED <<session, writer, out, send, result, buffer, lock, read, inhand, got, lost, arrived>>
  BY DEF datagramVars
<1>2. SendersOK' /\ ReadersOK'
  BY <1>1 DEF DatagramsIInv, SendersOK, ReadersOK, Writing, ClosedWithoutWriter, LockFollowsReader
<1>3. InOrder' /\ NoneMissing'
  BY <1>1 DEF DatagramsIInv, InOrder, Increasing, NoneMissing
<1>4. QED
  BY <1>2, <1>3 DEF DatagramsIInv

LEMMA SendingKeepsDatagrams ==
  ASSUME DatagramAssumption, DatagramsIInv, NEW s \in Senders,
         (\E fits \in BOOLEAN : SendDatagram(s, fits)) \/ Ready(s) \/ WriteDatagram(s) \/ Sent(s) \/ SendFails(s)
  PROVE  DatagramsIInv'
<1>1. SendersOK' /\ UNCHANGED arrived /\ UNCHANGED reading
  BY SenderStepOK DEF DatagramsIInv
<1>2. UNCHANGED <<buffer, lock, read, inhand, got, lost, arrived>>
  BY <1>1 DEF reading
<1>3. ReadersOK'
  BY <1>2 DEF DatagramsIInv, ReadersOK, LockFollowsReader
<1>4. InOrder' /\ NoneMissing'
  BY <1>2 DEF DatagramsIInv, InOrder, Increasing, NoneMissing
<1>5. QED
  BY <1>1, <1>3, <1>4 DEF DatagramsIInv

LEMMA DatagramsInvariance ==
  ASSUME DatagramAssumption, DatagramsIInv, [DatagramsNext]_datagramVars PROVE DatagramsIInv'
<1>1. ASSUME NEW s \in Senders,
             (\E fits \in BOOLEAN : SendDatagram(s, fits)) \/ Ready(s) \/ WriteDatagram(s) \/ Sent(s) \/ SendFails(s)
      PROVE  DatagramsIInv'
  BY <1>1, SendingKeepsDatagrams
<1>2. ASSUME NEW r \in Readers, Lock(r) \/ Read(r) \/ DeliverDatagram(r) \/ EndRead(r) PROVE DatagramsIInv'
  BY <1>2, LockOK, ReadOK, HandOverOK, EndReadOK
<1>3. CASE Close \/ MarkClosed
  BY <1>3, SessionStepOK
<1>4. CASE Arrive
  BY <1>4, ArriveOK
<1>5. CASE Rests \/ UNCHANGED datagramVars
  BY <1>5, DatagramsStutter DEF Rests
<1>6. QED
  BY <1>1, <1>2, <1>3, <1>4, <1>5 DEF DatagramsNext

LEMMA DatagramsMean == ASSUME DatagramAssumption, DatagramsIInv PROVE DatagramsKeepOrder
<1>0. out \in 0..Cardinality(Senders)
  <2>1. Cardinality(Writing) <= Cardinality(Senders) /\ Cardinality(Senders) \in Nat
    BY FS_Subset, FS_CardinalityType DEF Writing, DatagramAssumption
  <2>2. QED
    BY <2>1 DEF DatagramsIInv, SendersOK
<1>1. DatagramsTypeOK /\ LockFollowsReader /\ ClosedWithoutWriter
  BY <1>0 DEF DatagramsIInv, SendersOK, ReadersOK, DatagramsTypeOK
<1>2. \A i, j \in 1..Len(got) : i < j => got[i] < got[j]
  <2>1. DOMAIN got = 1..Len(got)
    BY DEF DatagramsIInv, ReadersOK
  <2>2. QED
    BY <2>1 DEF DatagramsIInv, InOrder, Increasing
<1>3. DeliveredOnceInOrder
  BY <1>2 DEF DatagramsIInv, NoneMissing, DeliveredOnceInOrder
<1>4. QED
  BY <1>1, <1>3 DEF DatagramsKeepOrder

\* Whatever number of senders and takers, and whatever the capacities of the queues:
\* datagrams reach the application once and in order, one reader has the readable, and
\* after markClosed nobody holds the writer.
THEOREM DatagramsArriveInOrder == ASSUME DatagramAssumption PROVE DatagramsSpec => []DatagramsKeepOrder
<1>1. DatagramsInit => DatagramsIInv
  BY DatagramsInitOK
<1>2. DatagramsIInv /\ [DatagramsNext]_datagramVars => DatagramsIInv'
  BY DatagramsInvariance
<1>3. DatagramsIInv => DatagramsKeepOrder
  BY DatagramsMean
<1>4. QED
  BY <1>1, <1>2, <1>3, PTL DEF DatagramsSpec

----------------------------------------------------------------------------
(* The bounded JSON writer, an instance with variables of its own. *)

CONSTANTS JsonNodes, JsonMembers, KeyBytes, LeafBytes, MaxBytes, MaxDepth, MaxValues
VARIABLES json_value, json_stack, json_ancestors, json_values, json_bytes, json_result

Json == INSTANCE SpanJson WITH
    N <- JsonNodes, MaxMembers <- JsonMembers, value <- json_value, stack <- json_stack,
    ancestors <- json_ancestors, values <- json_values, bytes <- json_bytes, result <- json_result

JsonAssumption == Json!SizesAssumption /\ Json!LimitsAssumption

Frames == [node : Json!Nodes, next : 1..(JsonMembers + 1)]

\* A container is open once, and the set of the code has those that are.
OpenOnce ==
    /\ json_stack \in Seq(Frames)
    /\ json_ancestors = {json_stack[i].node : i \in DOMAIN json_stack}
    /\ \A i, j \in DOMAIN json_stack : json_stack[i].node = json_stack[j].node => i = j
    /\ json_values = 0 => json_stack = <<>>

\* While it visits, and when it has encoded, what was written fits.
Bounded ==
    /\ Len(json_stack) <= MaxDepth
    /\ json_values \in Nat /\ json_bytes \in Nat /\ json_values <= MaxValues + 1
    /\ json_result # "dropped" => json_values <= MaxValues /\ json_bytes <= MaxBytes

JsonIInv ==
    /\ json_value \in [Json!Nodes -> Json!Shapes] /\ json_result \in {"visiting", "encoded", "dropped"}
    /\ OpenOnce /\ Bounded

\* What stands when the writer says that it has encoded a value.
WhatIsEncodedFits == json_result = "encoded" => json_values <= MaxValues /\ json_bytes <= MaxBytes

LEMMA JsonNumbers ==
  ASSUME JsonAssumption
  PROVE  /\ JsonNodes \in Nat \ {0} /\ JsonMembers \in Nat /\ KeyBytes \in Nat /\ LeafBytes \in Nat
         /\ MaxBytes \in Nat /\ MaxDepth \in Nat /\ MaxValues \in Nat
BY DEF JsonAssumption, Json!SizesAssumption, Json!LimitsAssumption

LEMMA JsonMembersFit ==
  ASSUME JsonAssumption, JsonIInv, NEW n \in Json!Nodes
  PROVE  /\ json_value[n].members \in Seq(Json!Nodes) /\ Len(json_value[n].members) <= JsonMembers
         /\ Len(json_value[n].members) \in Nat
<1> DEFINE s == json_value[n]
<1>1. s \in Json!Shapes
  BY DEF JsonIInv
<1>2. s.members = <<>> \/ s.members \in Json!Members
  BY <1>1 DEF Json!Shapes
<1>3. ASSUME NEW k \in 0..JsonMembers, NEW m \in [1..k -> Json!Nodes]
      PROVE  m \in Seq(Json!Nodes) /\ Len(m) = k
  BY JsonNumbers
<1>4. CASE s.members \in Json!Members
  <2>1. PICK k \in 0..JsonMembers : s.members \in [1..k -> Json!Nodes]
    BY <1>4 DEF Json!Members
  <2>2. s.members \in Seq(Json!Nodes) /\ Len(s.members) = k
    BY <1>3, <2>1
  <2>3. QED
    BY <2>2, JsonNumbers
<1>5. CASE s.members = <<>>
  BY <1>5, JsonNumbers
<1>6. QED
  BY <1>2, <1>4, <1>5

LEMMA JsonInitOK == ASSUME JsonAssumption, Json!Init PROVE JsonIInv
BY JsonNumbers DEF Json!Init, JsonIInv, OpenOnce, Bounded, Frames

\* visit adds at most the container that it opens; rest is what stays open below.
LEMMA VisitOK ==
  ASSUME JsonAssumption, JsonIInv, json_result = "visiting", NEW n \in Json!Nodes, NEW before \in Nat, NEW rest \in Seq(Frames),
         Len(rest) = Len(json_stack), \A i \in DOMAIN json_stack : rest[i].node = json_stack[i].node,
         UNCHANGED json_value, Json!Visit(n, Len(rest), before, rest)
  PROVE  JsonIInv'
<1>1. /\ MaxBytes \in Nat /\ MaxDepth \in Nat /\ MaxValues \in Nat /\ LeafBytes \in Nat /\ JsonMembers \in Nat
      /\ json_values \in Nat /\ json_bytes \in Nat /\ json_values <= MaxValues /\ json_bytes <= MaxBytes
      /\ Len(json_stack) <= MaxDepth /\ json_stack \in Seq(Frames) /\ Len(json_stack) \in Nat /\ OpenOnce
      /\ DOMAIN json_stack = 1..Len(json_stack) /\ DOMAIN rest = 1..Len(json_stack)
  BY JsonNumbers DEF JsonIInv, Bounded, OpenOnce
<1>2. json_values' = json_values + 1 /\ json_values' # 0
  BY <1>1 DEF Json!Visit
<1>3. CASE json_bytes + before > MaxBytes \/ Json!TooMany(n) \/ ~ Json!Visitable(n, Len(rest))
  <2>1. json_result' = "dropped" /\ json_bytes' = json_bytes + before /\ UNCHANGED <<json_stack, json_ancestors>>
    BY <1>3 DEF Json!Visit
  <2>2. OpenOnce'
    BY <1>1, <1>2, <2>1 DEF OpenOnce
  <2>3. Bounded'
    BY <1>1, <1>2, <2>1 DEF Bounded
  <2>4. QED
    BY <2>1, <2>2, <2>3 DEF JsonIInv
<1>4. CASE ~ (json_bytes + before > MaxBytes \/ Json!TooMany(n) \/ ~ Json!Visitable(n, Len(rest)))
  <2>1. json_values' <= MaxValues
    BY <1>1, <1>2, <1>4 DEF Json!TooMany
  <2>2. CASE json_value[n].kind = "scalar"
    <3>1. /\ json_bytes' = json_bytes + before + LeafBytes /\ json_stack' = rest /\ UNCHANGED json_ancestors
          /\ json_result' = IF json_bytes' > MaxBytes THEN "dropped" ELSE "visiting"
      BY <1>1, <1>4, <2>2 DEF Json!Visit, Json!Write
    <3>2. OpenOnce'
      <4>1. DOMAIN json_stack' = DOMAIN json_stack /\ \A i \in DOMAIN json_stack : json_stack'[i].node = json_stack[i].node
        BY <1>1, <3>1
      <4>2. {json_stack[i].node : i \in DOMAIN json_stack} = {json_stack'[i].node : i \in DOMAIN json_stack'}
        BY <4>1
      <4>3. \A i, j \in DOMAIN json_stack' : json_stack'[i].node = json_stack'[j].node => i = j
        BY <1>1, <4>1 DEF OpenOnce
      <4>4. json_stack' \in Seq(Frames) /\ json_ancestors' = {json_stack'[i].node : i \in DOMAIN json_stack'}
        BY <1>1, <3>1, <4>2 DEF OpenOnce
      <4>5. QED
        BY <1>2, <4>3, <4>4 DEF OpenOnce
    <3>3. Bounded'
      BY <1>1, <1>2, <2>1, <3>1 DEF Bounded
    <3>4. QED
      BY <3>1, <3>2, <3>3 DEF JsonIInv
  <2>3. CASE json_value[n].kind # "scalar"
    <3> DEFINE f == [node |-> n, next |-> 1]
               m == Len(rest) + 1
    <3>1. /\ json_bytes' = json_bytes + before + 1 /\ json_stack' = Append(rest, f)
          /\ json_ancestors' = json_ancestors \union {n}
          /\ json_result' = IF json_bytes' > MaxBytes THEN "dropped" ELSE "visiting"
      BY <1>1, <1>4, <2>3 DEF Json!Visit, Json!Write
    <3>2. n \notin json_ancestors /\ Len(rest) < MaxDepth
      BY <1>4, <2>3 DEF Json!Visitable
    <3>3. f \in Frames /\ f.node = n
      BY <1>1 DEF Frames
    <3> HIDE DEF f
    <3>4. /\ json_stack' \in Seq(Frames) /\ Len(json_stack') = m /\ DOMAIN json_stack' = 1..m /\ json_stack'[m] = f
          /\ \A i \in 1..Len(rest) : json_stack'[i] = rest[i]
      BY <1>1, <3>1, <3>3
    <3>5. m = Len(json_stack) + 1 /\ \A i \in DOMAIN json_stack : json_stack'[i].node = json_stack[i].node
      BY <1>1, <3>4
    <3>6. DOMAIN json_stack' = DOMAIN json_stack \union {m} /\ json_stack'[m].node = n
      BY <1>1, <3>3, <3>4, <3>5
    <3> HIDE DEF m
    <3>7. OpenOnce'
      <4>1. json_ancestors' = {json_stack'[i].node : i \in DOMAIN json_stack'}
        <5>1. {json_stack'[i].node : i \in DOMAIN json_stack'} = {json_stack[i].node : i \in DOMAIN json_stack} \union {n}
          BY <3>5, <3>6
        <5>2. json_ancestors = {json_stack[i].node : i \in DOMAIN json_stack}
          BY <1>1 DEF OpenOnce
        <5>3. QED
          BY <3>1, <5>1, <5>2
      <4>2. ASSUME NEW i \in DOMAIN json_stack', NEW j \in DOMAIN json_stack', json_stack'[i].node = json_stack'[j].node
            PROVE  i = j
        <5>1. \A k \in DOMAIN json_stack : json_stack'[k].node # n
          BY <1>1, <3>2, <3>5 DEF OpenOnce
        <5>2. QED
          BY <1>1, <3>5, <3>6, <4>2, <5>1 DEF OpenOnce
      <4>3. QED
        BY <1>2, <3>4, <4>1, <4>2 DEF OpenOnce
    <3>8. Bounded'
      BY <1>1, <1>2, <2>1, <3>1, <3>2, <3>4, <3>5 DEF Bounded
    <3>9. QED
      BY <3>1, <3>7, <3>8 DEF JsonIInv
  <2>4. QED
    BY <2>2, <2>3
<1>5. QED
  BY <1>3, <1>4

LEMMA JsonRootOK == ASSUME JsonAssumption, JsonIInv, Json!Root PROVE JsonIInv'
<1>1. json_result = "visiting" /\ json_stack = <<>> /\ UNCHANGED json_value /\ Json!Visit(1, 0, 0, <<>>)
  BY DEF Json!Root, JsonIInv, OpenOnce
<1>2. 1 \in Json!Nodes
  BY JsonNumbers DEF Json!Nodes
<1>3. Len(<<>>) = 0 /\ <<>> \in Seq(Frames) /\ DOMAIN json_stack = {}
  BY <1>1
<1>4. QED
  BY <1>1, <1>2, <1>3, VisitOK

LEMMA JsonMemberOK == ASSUME JsonAssumption, JsonIInv, Json!Member PROVE JsonIInv'
<1> DEFINE k == Len(json_stack)
           top == json_stack[k]
           m == json_value[top.node].members
           frame == [top EXCEPT !.next = @ + 1]
           rest == Append(SubSeq(json_stack, 1, k - 1), frame)
<1>1. /\ json_stack \in Seq(Frames) /\ k \in Nat \ {0} /\ DOMAIN json_stack = 1..k /\ top \in Frames
  BY DEF Json!Member, JsonIInv, OpenOnce
<1>2. Json!Last(json_stack) = top /\ Json!Front(json_stack) = SubSeq(json_stack, 1, k - 1)
  BY DEF Json!Last, Json!Front
<1>3. /\ json_result = "visiting" /\ UNCHANGED json_value /\ top.next <= Len(m)
      /\ Json!Visit(m[top.next], k, Json!Prefix(top), rest)
  BY <1>2 DEF Json!Member
<1>4. /\ top.node \in Json!Nodes /\ top.next \in 1..(JsonMembers + 1)
  BY <1>1 DEF Frames
<1>5. m \in Seq(Json!Nodes) /\ Len(m) <= JsonMembers /\ Len(m) \in Nat
  BY <1>4, JsonMembersFit
<1>6. m[top.next] \in Json!Nodes /\ top.next + 1 \in 1..(JsonMembers + 1)
  <2> HIDE DEF m, top
  <2>1. top.next \in 1..Len(m) /\ JsonMembers \in Nat
    BY <1>3, <1>4, <1>5, JsonNumbers
  <2>2. m[top.next] \in Json!Nodes
    BY <1>5, <2>1
  <2>3. QED
    BY <1>5, <2>1, <2>2
<1>7. Json!Prefix(top) \in Nat
  <2>1. (IF top.next > 1 THEN 1 ELSE 0) \in Nat
    OBVIOUS
  <2>2. (IF Json!IsArray(top.node) THEN 0 ELSE KeyBytes) \in Nat
    BY JsonNumbers
  <2>3. \A a, b \in Nat : a + b \in Nat
    OBVIOUS
  <2>4. QED
    BY <2>1, <2>2, <2>3 DEF Json!Prefix
<1>8. frame \in Frames /\ frame.node = top.node
  BY <1>1, <1>6 DEF Frames
<1> HIDE DEF frame
<1>9. /\ rest \in Seq(Frames) /\ Len(rest) = k /\ rest[k] = frame /\ \A i \in 1..(k - 1) : rest[i] = json_stack[i]
  <2> DEFINE front == SubSeq(json_stack, 1, k - 1)
  <2>1. front \in Seq(Frames) /\ Len(front) = k - 1 /\ \A i \in 1..(k - 1) : front[i] = json_stack[i]
    BY <1>1
  <2> HIDE DEF front
  <2>2. /\ Append(front, frame) \in Seq(Frames) /\ Len(Append(front, frame)) = k /\ Append(front, frame)[k] = frame
        /\ \A i \in 1..(k - 1) : Append(front, frame)[i] = front[i]
    <3>1. Append(front, frame) \in Seq(Frames) /\ Len(Append(front, frame)) = Len(front) + 1
      BY <1>8, <2>1
    <3>2. Append(front, frame)[Len(front) + 1] = frame
      BY <1>8, <2>1
    <3>3. \A i \in 1..Len(front) : Append(front, frame)[i] = front[i]
      BY <1>8, <2>1
    <3>4. k - 1 + 1 = k
      BY <1>1
    <3>5. QED
      BY <2>1, <3>1, <3>2, <3>3, <3>4
  <2>3. QED
    BY <2>1, <2>2 DEF front
<1>10. \A i \in DOMAIN json_stack : rest[i].node = json_stack[i].node
  <2> HIDE DEF rest
  <2>1. \A i \in DOMAIN json_stack : i = k \/ i \in 1..(k - 1)
    BY <1>1
  <2>2. rest[k].node = json_stack[k].node
    BY <1>8, <1>9
  <2>3. \A i \in 1..(k - 1) : rest[i].node = json_stack[i].node
    BY <1>9
  <2>4. QED
    BY <2>1, <2>2, <2>3
<1> HIDE DEF rest, m
<1>11. QED
  BY <1>3, <1>6, <1>7, <1>9, <1>10, VisitOK

LEMMA JsonCloseOK == ASSUME JsonAssumption, JsonIInv, Json!Close PROVE JsonIInv'
<1> DEFINE k == Len(json_stack)
           top == json_stack[k]
           front == SubSeq(json_stack, 1, k - 1)
<1>1. /\ json_stack \in Seq(Frames) /\ k \in Nat \ {0} /\ DOMAIN json_stack = 1..k /\ OpenOnce /\ Bounded
      /\ json_result = "visiting"
  BY DEF Json!Close, JsonIInv, OpenOnce
<1>2. Json!Last(json_stack) = top /\ Json!Front(json_stack) = front
  BY DEF Json!Last, Json!Front
<1>3. /\ json_ancestors' = json_ancestors \ {top.node} /\ json_stack' = front /\ UNCHANGED <<json_value, json_values>>
      /\ json_bytes' = json_bytes + 1 /\ json_result' = IF json_bytes + 1 > MaxBytes THEN "dropped" ELSE "visiting"
  BY <1>2 DEF Json!Close, Json!Write, Json!LeavesAncestors
<1>4. /\ front \in Seq(Frames) /\ Len(front) = k - 1 /\ DOMAIN front = 1..(k - 1)
      /\ \A i \in 1..(k - 1) : front[i] = json_stack[i]
  BY <1>1
<1> HIDE DEF front
<1>5. OpenOnce'
  <2>1. \A i, j \in DOMAIN front : front[i].node = front[j].node => i = j
    BY <1>1, <1>4 DEF OpenOnce
  <2>2. DOMAIN json_stack = DOMAIN front \union {k} /\ k \notin DOMAIN front
    BY <1>1, <1>4
  <2>3. \A i \in DOMAIN front : front[i] = json_stack[i] /\ front[i].node # top.node
    BY <1>1, <1>4, <2>2 DEF OpenOnce
  <2>4. json_ancestors \ {top.node} = {front[i].node : i \in DOMAIN front}
    <3>1. json_ancestors = {json_stack[i].node : i \in DOMAIN json_stack}
      BY <1>1 DEF OpenOnce
    <3>2. {json_stack[i].node : i \in DOMAIN json_stack} = {json_stack[i].node : i \in DOMAIN front} \union {top.node}
      BY <2>2, Zenon
    <3>3. {json_stack[i].node : i \in DOMAIN front} = {front[i].node : i \in DOMAIN front}
      BY <2>3
    <3>4. top.node \notin {front[i].node : i \in DOMAIN front}
      BY <2>3
    <3> DEFINE below == {front[i].node : i \in DOMAIN front}
    <3>5. json_ancestors = below \union {top.node} /\ top.node \notin below
      BY <3>1, <3>2, <3>3, <3>4
    <3> HIDE DEF below, top
    <3>6. json_ancestors \ {top.node} = below
      BY <3>5
    <3>7. QED
      BY <3>6 DEF below
  <2>5. json_values # 0
    BY <1>1 DEF OpenOnce
  <2>6. QED
    BY <1>3, <1>4, <2>1, <2>4, <2>5 DEF OpenOnce
<1>6. Bounded'
  BY <1>1, <1>3, <1>4, JsonNumbers DEF Bounded
<1>7. QED
  BY <1>3, <1>5, <1>6 DEF JsonIInv

\* Work is bounded whatever the value, a container is open once, and what is encoded fits:
\* for any limits and any value, with members that are shared or contain themselves.
THEOREM JsonWriterIsBounded ==
  ASSUME JsonAssumption
  PROVE  Json!Spec => [](Json!TypeOK /\ Json!WorkIsBounded /\ OpenOnce /\ WhatIsEncodedFits)
<1>1. Json!Init => JsonIInv
  BY JsonInitOK
<1>2. JsonIInv /\ [Json!Next]_Json!vars => JsonIInv'
  <2>1. ASSUME JsonIInv, Json!Done \/ UNCHANGED Json!vars PROVE JsonIInv'
    BY <2>1 DEF Json!Done, Json!vars, JsonIInv, OpenOnce, Bounded
  <2>2. QED
    BY <2>1, JsonRootOK, JsonMemberOK, JsonCloseOK DEF Json!Next, Json!Finished
<1>3. JsonIInv => Json!TypeOK /\ Json!WorkIsBounded /\ OpenOnce /\ WhatIsEncodedFits
  BY DEF JsonIInv, OpenOnce, Bounded, Frames, Json!TypeOK, Json!WorkIsBounded, WhatIsEncodedFits
<1>4. QED
  BY <1>1, <1>2, <1>3, PTL DEF Json!Spec

----------------------------------------------------------------------------
(* The import of orders. *)

CONSTANTS ImportOrders, NotAnOrder, Catalog, ReportMonths, ReportCustomers, MaxOrderErrors, TopCustomers, MaxRecords
VARIABLES order_batch, order_next, order_ids, order_accepted, order_summary, order_report

Ordering == INSTANCE OrderBatch WITH
    Orders <- ImportOrders, Months <- ReportMonths, Customers <- ReportCustomers, MaxErrors <- MaxOrderErrors,
    Top <- TopCustomers, batch <- order_batch, next <- order_next, ids <- order_ids, accepted <- order_accepted,
    summary <- order_summary, report <- order_report

SummaryFields == {"totalRecords", "acceptedRecords", "rejectedRecords", "acceptedLines", "totalUnits",
                  "subtotalCents", "discountCents", "taxCents", "shippingCents", "totalCents", "errors"}
Issues == {"invalid-json", "invalid-order", "duplicate-order", "unknown-sku", "price-mismatch", "total-mismatch"}
KeptErrors == [index : Int, code : Issues]

\* What the summary s counts of records that were validated, of which some were accepted.
Counts(s, accepts, records) ==
    /\ DOMAIN s = SummaryFields
    /\ s.acceptedRecords = accepts /\ s.rejectedRecords \in Nat /\ accepts + s.rejectedRecords = records
    /\ s.errors \in Seq(KeptErrors) /\ Len(s.errors) <= MaxOrderErrors

\* The records before position n that are orders.
ReadBefore(n) == {j \in DOMAIN order_batch : j < n /\ order_batch[j] # NotAnOrder}

\* Record j is the first of its id.
FirstOfItsId(j) ==
    /\ order_batch[j] # NotAnOrder
    /\ \A k \in DOMAIN order_batch : k < j /\ order_batch[k] # NotAnOrder => order_batch[k].id # order_batch[j].id

OrderIInv ==
    /\ order_batch \in Seq(ImportOrders) /\ order_accepted \in Seq(ImportOrders)
    /\ order_next \in 0..(Len(order_batch) + 1)
    /\ order_next = 0 => order_accepted = <<>>
    /\ Counts(order_summary, Len(order_accepted), IF order_next = 0 THEN 0 ELSE order_next - 1)
    /\ order_ids = {order_batch[j].id : j \in ReadBefore(order_next)}
    /\ \A i \in DOMAIN order_accepted : \E j \in ReadBefore(order_next) : order_accepted[i] = order_batch[j] /\ FirstOfItsId(j)
    /\ \A i, k \in DOMAIN order_accepted : order_accepted[i].id = order_accepted[k].id => i = k

LEMMA ZeroCounts ==
  ASSUME Ordering!OrderAssumption
  PROVE  /\ Counts(Ordering!Zero, 0, 0)
         /\ \A n : Counts([Ordering!Zero EXCEPT !.totalRecords = n], 0, 0)
         /\ Counts([Ordering!Zero EXCEPT !.errors = <<[index |-> -1, code |-> "invalid-json"]>>], 0, 0)
<1> DEFINE z == Ordering!Zero
<1>1. /\ DOMAIN z = SummaryFields /\ z.acceptedRecords = 0 /\ z.rejectedRecords = 0 /\ z.errors = <<>>
  BY DEF Ordering!Zero, SummaryFields
<1> HIDE DEF z
<1>2. MaxOrderErrors \in Nat \ {0} /\ "errors" \in SummaryFields /\ "acceptedRecords" \in SummaryFields
      /\ "rejectedRecords" \in SummaryFields
  BY DEF Ordering!OrderAssumption, SummaryFields
<1>3. Counts(z, 0, 0)
  BY <1>1, <1>2 DEF Counts
<1>4. ASSUME NEW n PROVE Counts([z EXCEPT !.totalRecords = n], 0, 0)
  <2> DEFINE t == [z EXCEPT !.totalRecords = n]
  <2>1. DOMAIN t = DOMAIN z /\ t.acceptedRecords = 0 /\ t.rejectedRecords = 0 /\ t.errors = z.errors
    BY <1>1, <1>2
  <2> HIDE DEF t
  <2>2. Counts(t, 0, 0)
    BY <1>3, <2>1 DEF Counts
  <2>3. QED
    BY <2>2 DEF t
<1>5. Counts([z EXCEPT !.errors = <<[index |-> -1, code |-> "invalid-json"]>>], 0, 0)
  <2> DEFINE e == [index |-> -1, code |-> "invalid-json"]
  <2>1. e \in KeptErrors
    BY DEF KeptErrors, Issues
  <2> HIDE DEF e
  <2>2. <<e>> \in Seq(KeptErrors) /\ Len(<<e>>) = 1
    BY <2>1
  <2> DEFINE es == <<e>>
  <2> HIDE DEF es
  <2>3. Counts([z EXCEPT !.errors = es], 0, 0)
    BY <1>1, <1>2, <2>2 DEF Counts, es
  <2>4. QED
    BY <2>3 DEF es, e
<1>6. QED
  BY <1>3, <1>4, <1>5 DEF z

LEMMA AcceptCounts ==
  ASSUME NEW s, NEW a \in Nat, NEW n \in Nat, Counts(s, a, n), NEW o
  PROVE  Counts(Ordering!Accept(s, o), a + 1, n + 1)
<1> DEFINE t == Ordering!Accept(s, o)
<1>1. /\ DOMAIN t = DOMAIN s /\ t.acceptedRecords = s.acceptedRecords + 1 /\ t.rejectedRecords = s.rejectedRecords
      /\ t.errors = s.errors
  BY DEF Counts, SummaryFields, Ordering!Accept
<1> HIDE DEF t
<1>2. QED
  BY <1>1 DEF Counts, t

LEMMA RejectCounts ==
  ASSUME Ordering!OrderAssumption, NEW s, NEW a \in Nat, NEW n \in Nat, Counts(s, a, n), NEW e \in KeptErrors
  PROVE  Counts(Ordering!Reject(s, e), a, n + 1)
<1> DEFINE t == Ordering!Reject(s, e)
<1>1. /\ DOMAIN t = DOMAIN s /\ t.acceptedRecords = s.acceptedRecords /\ t.rejectedRecords = s.rejectedRecords + 1
      /\ t.errors = IF Len(s.errors) < MaxOrderErrors THEN Append(s.errors, e) ELSE s.errors
  BY DEF Counts, SummaryFields, Ordering!Reject
<1> HIDE DEF t
<1>2. s.errors \in Seq(KeptErrors) /\ Len(s.errors) \in Nat
  BY DEF Counts
<1>3. Append(s.errors, e) \in Seq(KeptErrors) /\ Len(Append(s.errors, e)) = Len(s.errors) + 1
  BY <1>2
<1>4. t.errors \in Seq(KeptErrors) /\ Len(t.errors) <= MaxOrderErrors
  <2>1. CASE Len(s.errors) < MaxOrderErrors
    <3>1. MaxOrderErrors \in Nat
      BY DEF Ordering!OrderAssumption
    <3>2. QED
      BY <1>1, <1>2, <1>3, <2>1, <3>1
  <2>2. CASE ~ (Len(s.errors) < MaxOrderErrors)
    BY <1>1, <2>2 DEF Counts
  <2>3. QED
    BY <2>1, <2>2
<1>5. QED
  BY <1>1, <1>4 DEF Counts, t

LEMMA IssuesAreNamed == ASSUME NEW o, NEW known PROVE Ordering!Issue(o, known) \in Issues \union {"none"}
<1>1. Ordering!LineIssue(o) \in {"none", "unknown-sku", "price-mismatch"}
  BY DEF Ordering!LineIssue
<1>2. QED
  BY <1>1 DEF Ordering!Issue, Issues

LEMMA OrderInitOK == ASSUME Ordering!OrderAssumption, Ordering!Init PROVE OrderIInv
<1>1. order_batch = <<>> /\ order_next = 0 /\ order_ids = {} /\ order_accepted = <<>> /\ order_summary = Ordering!Zero
  BY DEF Ordering!Init
<1>2. ReadBefore(order_next) = {}
  BY <1>1 DEF ReadBefore
<1>3. QED
  BY <1>1, <1>2, ZeroCounts DEF OrderIInv

\* A batch is read, or is not even one.
LEMMA ImportOK ==
  ASSUME Ordering!OrderAssumption, OrderIInv, Ordering!Malformed \/ \E b \in Ordering!Batches : Ordering!Import(b)
  PROVE  OrderIInv'
<1>1. /\ order_next = 0 /\ order_next' = 1 /\ order_accepted = <<>> /\ UNCHANGED <<order_ids, order_accepted>>
      /\ order_ids = {order_batch[j].id : j \in ReadBefore(0)} /\ order_batch \in Seq(ImportOrders)
  BY DEF OrderIInv, Ordering!Malformed, Ordering!Import
<1>2. order_batch' \in Seq(ImportOrders)
  <2>1. CASE Ordering!Malformed
    BY <1>1, <2>1 DEF Ordering!Malformed
  <2>2. ASSUME NEW b \in Ordering!Batches, Ordering!Import(b) PROVE order_batch' \in Seq(ImportOrders)
    <3>1. PICK n \in Nat : b \in [1..n -> ImportOrders]
      BY DEF Ordering!Batches, Ordering!SeqOf, Ordering!OrderAssumption
    <3>2. QED
      BY <2>2, <3>1 DEF Ordering!Import
  <2>3. QED
    BY <2>1, <2>2
<1>3. Counts(order_summary', 0, 0)
  BY ZeroCounts DEF Ordering!Malformed, Ordering!Import
<1>4. DOMAIN order_batch = 1..Len(order_batch) /\ DOMAIN order_batch' = 1..Len(order_batch') /\ Len(order_batch') \in Nat
  BY <1>1, <1>2
<1>5. ReadBefore(0) = {} /\ ReadBefore(order_next)' = {}
  BY <1>1, <1>4 DEF ReadBefore
<1>6. order_ids' = {} /\ Len(order_accepted') = 0 /\ DOMAIN order_accepted' = {}
  BY <1>1, <1>5
<1>7. order_ids' = {order_batch'[j].id : j \in ReadBefore(order_next)'}
  BY <1>5, <1>6
<1>8. order_accepted' = <<>> /\ order_accepted' \in Seq(ImportOrders) /\ order_next' \in 0..(Len(order_batch') + 1)
  BY <1>1, <1>4
<1>9. Counts(order_summary', Len(order_accepted'), IF order_next' = 0 THEN 0 ELSE order_next' - 1)
  BY <1>1, <1>3, <1>6
<1>10. QED
  BY <1>2, <1>6, <1>7, <1>8, <1>9 DEF OrderIInv

LEMMA RecordOK ==
  ASSUME Ordering!OrderAssumption, OrderIInv, Ordering!Record
  PROVE  OrderIInv'
<1> DEFINE n == order_next
           o == order_batch[n]
           issue == Ordering!Issue(o, order_ids)
<1>1. /\ n \in DOMAIN order_batch /\ order_next' = n + 1 /\ UNCHANGED order_batch
      /\ order_ids' = order_ids \union Ordering!Taken(o)
      /\ IF issue = "none"
         THEN order_accepted' = Append(order_accepted, o) /\ order_summary' = Ordering!Accept(order_summary, o)
         ELSE /\ order_summary' = Ordering!Reject(order_summary, [index |-> n - 1, code |-> issue])
              /\ UNCHANGED order_accepted
  BY DEF Ordering!Record
<1>2. /\ order_batch \in Seq(ImportOrders) /\ DOMAIN order_batch = 1..Len(order_batch) /\ Len(order_batch) \in Nat
      /\ order_accepted \in Seq(ImportOrders) /\ Len(order_accepted) \in Nat
      /\ n \in Nat \ {0} /\ o \in ImportOrders
      /\ Counts(order_summary, Len(order_accepted), n - 1) /\ order_ids = {order_batch[j].id : j \in ReadBefore(n)}
      /\ \A i \in DOMAIN order_accepted : \E j \in ReadBefore(n) : order_accepted[i] = order_batch[j] /\ FirstOfItsId(j)
      /\ \A i, k \in DOMAIN order_accepted : order_accepted[i].id = order_accepted[k].id => i = k
  BY <1>1 DEF OrderIInv
<1>3. /\ ReadBefore(n) \subseteq ReadBefore(n + 1) /\ ReadBefore(n + 1) = ReadBefore(n) \union (IF o = NotAnOrder THEN {} ELSE {n})
      /\ ReadBefore(order_next)' = ReadBefore(n + 1)
  BY <1>1, <1>2 DEF ReadBefore
<1>4. order_ids' = {order_batch'[j].id : j \in ReadBefore(order_next)'}
  BY <1>1, <1>2, <1>3 DEF Ordering!Taken
<1>5. \A j : FirstOfItsId(j)' <=> FirstOfItsId(j)
  BY <1>1 DEF FirstOfItsId
<1>6. order_next' \in 0..(Len(order_batch') + 1) /\ order_next' # 0 /\ order_next' - 1 = n - 1 + 1
  <2>1. n \in 1..Len(order_batch) /\ order_next' = n + 1 /\ order_batch' = order_batch
    BY <1>1, <1>2
  <2>2. Len(order_batch) \in Nat /\ n \in Nat
    BY <1>2
  <2> HIDE DEF n
  <2>3. n + 1 \in 0..(Len(order_batch) + 1) /\ n + 1 # 0 /\ n + 1 - 1 = n - 1 + 1
    BY <2>1, <2>2
  <2>4. QED
    BY <2>1, <2>3
<1>7. CASE issue # "none"
  <2>1. [index |-> n - 1, code |-> issue] \in KeptErrors
    <3>1. issue \in Issues
      BY <1>7, IssuesAreNamed
    <3> HIDE DEF issue
    <3>2. QED
      BY <1>2, <3>1 DEF KeptErrors
  <2>2. Counts(order_summary', Len(order_accepted'), order_next' - 1)
    <3>1. n - 1 \in Nat
      BY <1>2
    <3>2. Counts(order_summary', Len(order_accepted), n - 1 + 1)
      BY <1>1, <1>2, <1>7, <2>1, <3>1, RejectCounts
    <3>3. QED
      BY <1>1, <1>6, <1>7, <3>2
  <2>3. \A i \in DOMAIN order_accepted : \E j \in ReadBefore(n + 1) : order_accepted[i] = order_batch[j] /\ FirstOfItsId(j)
    BY <1>2, <1>3
  <2>4. QED
    BY <1>1, <1>2, <1>3, <1>4, <1>5, <1>6, <1>7, <2>2, <2>3 DEF OrderIInv
<1>8. CASE issue = "none"
  <2>1. o # NotAnOrder /\ o.id \notin order_ids
    BY <1>8 DEF Ordering!Issue
  <2>2. FirstOfItsId(n)
    BY <1>2, <2>1 DEF FirstOfItsId, ReadBefore
  <2>3. order_accepted' = Append(order_accepted, o) /\ order_summary' = Ordering!Accept(order_summary, o)
    BY <1>1, <1>8
  <2> DEFINE m == Len(order_accepted) + 1
  <2> HIDE DEF o
  <2>4. /\ order_accepted' \in Seq(ImportOrders) /\ Len(order_accepted') = m /\ order_accepted'[m] = o
        /\ \A i \in DOMAIN order_accepted : order_accepted'[i] = order_accepted[i]
        /\ DOMAIN order_accepted' = DOMAIN order_accepted \union {m}
    BY <1>2, <2>3
  <2>5. Counts(order_summary', Len(order_accepted'), order_next' - 1)
    <3>1. n - 1 \in Nat
      BY <1>2
    <3>2. Counts(order_summary', Len(order_accepted) + 1, n - 1 + 1)
      BY <1>2, <2>3, <3>1, AcceptCounts
    <3>3. QED
      BY <1>6, <2>4, <3>2
  <2> HIDE DEF m
  <2>6. n \in ReadBefore(n + 1)
    BY <1>3, <2>1
  <2>7. \A i \in DOMAIN order_accepted' : \E j \in ReadBefore(n + 1) : order_accepted'[i] = order_batch[j] /\ FirstOfItsId(j)
    BY <1>2, <1>3, <2>2, <2>4, <2>6 DEF o
  <2>8. \A i \in DOMAIN order_accepted : order_accepted[i].id # o.id
    BY <1>2, <2>1
  <2>9. \A i, k \in DOMAIN order_accepted' : order_accepted'[i].id = order_accepted'[k].id => i = k
    BY <1>2, <2>4, <2>8
  <2>10. QED
    <3>1. \A i \in DOMAIN order_accepted' :
            \E j \in ReadBefore(order_next)' : order_accepted'[i] = order_batch'[j] /\ FirstOfItsId(j)'
      BY <1>1, <1>3, <1>5, <2>7
    <3>2. order_batch' \in Seq(ImportOrders)
      BY <1>1, <1>2
    <3>3. QED
      BY <1>4, <1>6, <2>4, <2>5, <2>9, <3>1, <3>2 DEF OrderIInv
<1>9. QED
  BY <1>7, <1>8

\* The first record of an id decides: what was accepted is the first record of its id.
LEMMA OrderIInvGives ==
  ASSUME Ordering!OrderAssumption, OrderIInv PROVE Ordering!TypeOK /\ Ordering!FirstRecordDecides
<1>1. Ordering!TypeOK
  <2>1. order_next > 1 => order_batch # <<>>
    BY DEF OrderIInv
  <2>2. QED
    BY <2>1 DEF OrderIInv, Counts, Ordering!TypeOK
<1>2. ASSUME NEW i \in DOMAIN order_accepted
      PROVE  LET id == order_accepted[i].id
                 named == {j \in DOMAIN order_batch : order_batch[j] # NotAnOrder /\ order_batch[j].id = id}
             IN /\ order_accepted[i] = order_batch[CHOOSE j \in named : \A k \in named : j <= k]
                /\ \A k \in DOMAIN order_accepted : order_accepted[k].id = id => k = i
  <2> DEFINE id == order_accepted[i].id
             named == {j \in DOMAIN order_batch : order_batch[j] # NotAnOrder /\ order_batch[j].id = id}
  <2>1. PICK j \in ReadBefore(order_next) : order_accepted[i] = order_batch[j] /\ FirstOfItsId(j)
    BY DEF OrderIInv
  <2>2. j \in named
    BY <2>1 DEF ReadBefore
  <2>3. named \subseteq Nat
    BY DEF OrderIInv
  <2>4. \A k \in named : j <= k
    BY <2>1, <2>2, <2>3 DEF FirstOfItsId
  <2>5. \A k \in named : (\A l \in named : k <= l) => k = j
    BY <2>2, <2>3, <2>4
  <2> HIDE DEF named
  <2>6. (CHOOSE k \in named : \A l \in named : k <= l) = j
    BY <2>2, <2>4, <2>5
  <2>7. \A k \in DOMAIN order_accepted : order_accepted[k].id = id => k = i
    BY DEF OrderIInv
  <2>8. QED
    BY <2>1, <2>6, <2>7 DEF named
<1>3. QED
  BY <1>1, <1>2 DEF Ordering!FirstRecordDecides

\* Of the records with one id at most the first is accepted, and every record is counted once:
\* for any batch.
THEOREM OrdersCountOnce ==
  ASSUME Ordering!OrderAssumption
  PROVE  Ordering!Spec => [](Ordering!TypeOK /\ Ordering!FirstRecordDecides)
<1>1. Ordering!Init => OrderIInv
  BY OrderInitOK
<1>2. OrderIInv /\ [Ordering!Next]_Ordering!vars => OrderIInv'
  <2>1. ASSUME OrderIInv, Ordering!Summarize \/ UNCHANGED Ordering!vars PROVE OrderIInv'
    <3>1. UNCHANGED <<order_batch, order_next, order_ids, order_accepted, order_summary>>
      BY <2>1 DEF Ordering!Summarize, Ordering!vars
    <3>2. ReadBefore(order_next)' = ReadBefore(order_next) /\ \A j : FirstOfItsId(j)' <=> FirstOfItsId(j)
      BY <3>1 DEF ReadBefore, FirstOfItsId
    <3>3. QED
      BY <2>1, <3>1, <3>2 DEF OrderIInv
  <2>2. QED
    BY <2>1, ImportOK, RecordOK DEF Ordering!Next
<1>3. OrderIInv => Ordering!TypeOK /\ Ordering!FirstRecordDecides
  BY OrderIInvGives
<1>4. QED
  BY <1>1, <1>2, <1>3, PTL DEF Ordering!Spec

----------------------------------------------------------------------------
(* Analytics Engine. *)

CONSTANTS Writers, DataPoints, PointLists, maxBlobs, maxDoubles, maxIndexes, maxBlobBytes, maxIndexBytes,
    maxDataPointsPerInvocation, ApiRows, BadRow, MaxApiCalls
VARIABLES ae_dataset, ae_call, ae_at, ae_answer, ae_exit, ae_calls

Analytics == INSTANCE AnalyticsEngine WITH
    Fibers <- Writers, Points <- DataPoints, Batches <- PointLists, Rows <- ApiRows, MaxCalls <- MaxApiCalls,
    dataset <- ae_dataset, call <- ae_call, at <- ae_at, answer <- ae_answer, exit <- ae_exit, calls <- ae_calls

CallFields == {"op", "given", "onInvalid", "left", "sent"}

\* The batch of a write is within the limit, and all of it is valid.
BatchIsValid(c) == Len(c.given) <= maxDataPointsPerInvocation /\ \A i \in DOMAIN c.given : Analytics!Valid(c.given[i])

\* Under "error" nothing is sent, and no native write begins, before the whole batch was found valid.
WriteCallFits(c, step, ended) ==
    /\ DOMAIN c = CallFields /\ Len(c.given) \in Nat /\ step \in {"idle", "validate", "write"} /\ c.onInvalid \in {"error", "drop"}
    /\ step = "validate" => c.left = c.given /\ c.sent = <<>>
    /\ c.onInvalid = "error" /\ (step = "write" \/ c.sent # <<>>) => BatchIsValid(c)
    /\ ended = Analytics!Idle \/ ended.kind \in Analytics!WriteErrors \union {"written"}
    /\ c.onInvalid = "drop" => ended.kind # "validation"

\* What the code of a query may end with.
QueryKinds(c) ==
    Analytics!QueryErrors \union (IF c.op \in {"raw", "queryText"} THEN {"response", "body"} ELSE {Analytics!SchemaError, "rows"})

\* A query reads the body of a success only, and what it returns is from that response.
QueryCallFits(c, step, response, ended) ==
    /\ c.op \in Analytics!QueryOperations /\ step \in {"idle", "request", "error body", "body"}
    /\ step = "body" => response[1].ok /\ c.op # "raw"
    /\ ended = Analytics!Idle \/ ended.kind \in QueryKinds(c)
    /\ ended.kind \in {"rows", "body", "response"} => response[1].ok
    /\ ended.kind = "rows" /\ c.op # "query" => BadRow \notin Analytics!ToSet(response[1].rows)

CallFits(c, step, response, ended) ==
    /\ step # "idle" => ended = Analytics!Idle
    /\ \/ c = Analytics!NoCall /\ step = "idle" /\ ended = Analytics!Idle
       \/ c.op \in {"write", "writes"} /\ WriteCallFits(c, step, ended)
       \/ QueryCallFits(c, step, response, ended)

AnalyticsIInv ==
    /\ DOMAIN ae_call = Writers /\ DOMAIN ae_at = Writers /\ DOMAIN ae_answer = Writers /\ DOMAIN ae_exit = Writers
    /\ \A f \in Writers : CallFits(ae_call[f], ae_at[f], ae_answer[f], ae_exit[f])

\* What one fiber does leaves the calls of the others alone.
OthersRest(f) ==
    /\ DOMAIN ae_call' = Writers /\ DOMAIN ae_at' = Writers /\ DOMAIN ae_answer' = Writers /\ DOMAIN ae_exit' = Writers
    /\ \A g \in Writers \ {f} :
         ae_call'[g] = ae_call[g] /\ ae_at'[g] = ae_at[g] /\ ae_answer'[g] = ae_answer[g] /\ ae_exit'[g] = ae_exit[g]

LEMMA IdleHasNoKind == Analytics!Idle.kind = "none"
BY DEF Analytics!Idle

LEMMA AnalyticsInitOK == ASSUME Analytics!Init PROVE AnalyticsIInv
BY DEF Analytics!Init, AnalyticsIInv, CallFits

\* A write begins.
LEMMA BeginWriteOK ==
  ASSUME AnalyticsIInv, NEW f \in Writers, NEW points, Len(points) \in Nat, NEW op \in {"write", "writes"}, NEW d \in Analytics!Policies, NEW o \in Analytics!Policies,
         Analytics!Begin(f, [op |-> op, given |-> points, onInvalid |-> Analytics!Policy(d, o), left |-> points,
                             sent |-> <<>>], "validate"),
         UNCHANGED <<ae_dataset, ae_answer>>
  PROVE  AnalyticsIInv'
<1> DEFINE c == [op |-> op, given |-> points, onInvalid |-> Analytics!Policy(d, o), left |-> points, sent |-> <<>>]
<1>1. /\ c.op = op /\ c.given = points /\ c.onInvalid = Analytics!Policy(d, o) /\ c.left = points /\ c.sent = <<>>
      /\ DOMAIN c = CallFields
  BY DEF CallFields
<1>2. Analytics!Policy(d, o) \in {"error", "drop"}
  BY DEF Analytics!Policy, Analytics!Policies
<1> HIDE DEF c
<1>3. /\ ae_call' = [ae_call EXCEPT ![f] = c] /\ ae_at' = [ae_at EXCEPT ![f] = "validate"]
      /\ ae_exit' = [ae_exit EXCEPT ![f] = Analytics!Idle]
  BY DEF Analytics!Begin, c
<1>4. OthersRest(f) /\ ae_call'[f] = c /\ ae_at'[f] = "validate" /\ ae_exit'[f] = Analytics!Idle
  BY <1>3 DEF AnalyticsIInv, OthersRest
<1>5. WriteCallFits(c, "validate", Analytics!Idle)
  BY <1>1, <1>2, IdleHasNoKind DEF WriteCallFits, Analytics!WriteErrors
<1>6. CallFits(ae_call'[f], ae_at'[f], ae_answer'[f], ae_exit'[f])
  BY <1>1, <1>4, <1>5 DEF CallFits
<1>7. QED
  BY <1>4, <1>6 DEF AnalyticsIInv, OthersRest

LEMMA BeginQueryOK ==
  ASSUME AnalyticsIInv, NEW f \in Writers, NEW op \in Analytics!QueryOperations, Analytics!Query(f, op)
  PROVE  AnalyticsIInv'
<1> DEFINE c == [op |-> op]
<1>1. c.op = op
  OBVIOUS
<1>2. /\ ae_call' = [ae_call EXCEPT ![f] = c] /\ ae_at' = [ae_at EXCEPT ![f] = "request"]
      /\ ae_exit' = [ae_exit EXCEPT ![f] = Analytics!Idle] /\ ae_answer' = [ae_answer EXCEPT ![f] = <<>>]
  BY DEF Analytics!Query, Analytics!Begin
<1> HIDE DEF c
<1>3. OthersRest(f) /\ ae_call'[f] = c /\ ae_at'[f] = "request" /\ ae_exit'[f] = Analytics!Idle
  BY <1>2 DEF AnalyticsIInv, OthersRest
<1>4. QueryCallFits(c, "request", ae_answer'[f], Analytics!Idle)
  BY <1>1, IdleHasNoKind DEF QueryCallFits
<1>5. CallFits(ae_call'[f], ae_at'[f], ae_answer'[f], ae_exit'[f])
  BY <1>3, <1>4 DEF CallFits
<1>6. QED
  BY <1>3, <1>5 DEF AnalyticsIInv, OthersRest

LEMMA WriteStepOK ==
  ASSUME Analytics!BatchesAssumption, AnalyticsIInv, NEW f \in Writers, Analytics!Validate(f) \/ Analytics!Write(f) \/ Analytics!Wrote(f)
  PROVE  AnalyticsIInv'
<1> DEFINE c == ae_call[f]
<1>1. ae_at[f] \in {"validate", "write"} /\ UNCHANGED ae_answer
  BY DEF Analytics!Validate, Analytics!Write, Analytics!Wrote
<1>2. c.op \in {"write", "writes"} /\ WriteCallFits(c, ae_at[f], ae_exit[f]) /\ ae_exit[f] = Analytics!Idle
  BY <1>1 DEF AnalyticsIInv, CallFits, QueryCallFits
<1>3. ASSUME NEW x, NEW step, NEW ended, OthersRest(f), ae_call'[f] = x, ae_at'[f] = step, ae_exit'[f] = ended,
             x.op = c.op, step # "idle" => ended = Analytics!Idle, WriteCallFits(x, step, ended)
      PROVE  AnalyticsIInv'
  <2>1. CallFits(ae_call'[f], ae_at'[f], ae_answer'[f], ae_exit'[f])
    BY <1>2, <1>3 DEF CallFits
  <2>2. QED
    BY <1>3, <2>1 DEF AnalyticsIInv, OthersRest
<1>4. CASE Analytics!Validate(f) /\ Analytics!Rejected(c.left, c.onInvalid)
  <2> DEFINE e == Analytics!Fail("validation")
  <2>1. UNCHANGED ae_call /\ ae_at' = [ae_at EXCEPT ![f] = "idle"] /\ ae_exit' = [ae_exit EXCEPT ![f] = e]
    BY <1>4 DEF Analytics!Validate, Analytics!Finish
  <2>2. e.kind = "validation"
    BY DEF Analytics!Fail
  <2> HIDE DEF e
  <2>3. OthersRest(f) /\ ae_call'[f] = c /\ ae_at'[f] = "idle" /\ ae_exit'[f] = e
    BY <1>1, <2>1 DEF AnalyticsIInv, OthersRest
  <2>4. c.onInvalid = "error" /\ ae_at[f] = "validate"
    BY <1>4 DEF Analytics!Rejected, Analytics!Validate
  <2>5. WriteCallFits(c, "idle", e)
    BY <1>2, <2>2, <2>4 DEF WriteCallFits, Analytics!WriteErrors
  <2>6. QED
    BY <1>3, <2>3, <2>5
<1>5. CASE Analytics!Validate(f) /\ ~ Analytics!Rejected(c.left, c.onInvalid)
  <2> DEFINE kept == Analytics!Accepted(c.left, c.onInvalid)
             x == [c EXCEPT !.left = kept]
  <2>1. ae_call' = [ae_call EXCEPT ![f] = x] /\ ae_at' = [ae_at EXCEPT ![f] = "write"] /\ UNCHANGED ae_exit
    BY <1>5 DEF Analytics!Validate
  <2> HIDE DEF kept
  <2>2. /\ DOMAIN x = CallFields /\ x.op = c.op /\ x.given = c.given /\ x.onInvalid = c.onInvalid /\ x.sent = c.sent
    BY <1>2 DEF WriteCallFits, CallFields
  <2> HIDE DEF x
  <2>3. OthersRest(f) /\ ae_call'[f] = x /\ ae_at'[f] = "write" /\ ae_exit'[f] = ae_exit[f]
    BY <1>1, <2>1 DEF AnalyticsIInv, OthersRest
  <2>4. c.left = c.given /\ c.onInvalid \in {"error", "drop"}
    BY <1>2, <1>5 DEF WriteCallFits, Analytics!Validate
  <2>5. c.onInvalid = "error" => BatchIsValid(x)
    <3>1. ASSUME c.onInvalid = "error" PROVE ~ (Len(c.given) > maxDataPointsPerInvocation) /\ \A i \in DOMAIN c.given : Analytics!Valid(c.given[i])
      BY <1>5, <2>4, <3>1 DEF Analytics!Rejected
    <3>2. QED
      BY <1>2, <2>2, <3>1 DEF BatchIsValid, WriteCallFits, Analytics!BatchesAssumption
  <2>6. WriteCallFits(x, "write", ae_exit[f])
    BY <1>2, <2>2, <2>5 DEF WriteCallFits
  <2>7. QED
    BY <1>2, <1>3, <2>2, <2>3, <2>6
<1>6. CASE Analytics!Write(f) \/ Analytics!Wrote(f)
  <2>1. ae_at[f] = "write"
    BY <1>6 DEF Analytics!Write, Analytics!Wrote
  <2>2. ASSUME NEW e, e.kind \in {"operation", "written"}, Analytics!Finish(f, e), UNCHANGED ae_call PROVE AnalyticsIInv'
    <3>1. OthersRest(f) /\ ae_call'[f] = c /\ ae_at'[f] = "idle" /\ ae_exit'[f] = e
      BY <1>1, <2>2 DEF AnalyticsIInv, OthersRest, Analytics!Finish
    <3>2. WriteCallFits(c, "idle", e)
      BY <1>2, <2>1, <2>2 DEF WriteCallFits, Analytics!WriteErrors
    <3>3. QED
      BY <1>3, <3>1, <3>2
  <2>3. CASE ae_call' = [ae_call EXCEPT ![f].left = Tail(@), ![f].sent = Append(@, Head(ae_call[f].left))] /\ UNCHANGED <<ae_at, ae_exit>>
    <3> DEFINE left == Tail(c.left)
               sentNow == Append(c.sent, Head(c.left))
               x == [c EXCEPT !.left = left, !.sent = sentNow]
    <3>1. ae_call' = [ae_call EXCEPT ![f] = x]
      BY <2>3
    <3> HIDE DEF left, sentNow
    <3>2. DOMAIN x = CallFields /\ x.op = c.op /\ x.given = c.given /\ x.onInvalid = c.onInvalid
      BY <1>2 DEF WriteCallFits, CallFields
    <3> HIDE DEF x
    <3>3. OthersRest(f) /\ ae_call'[f] = x /\ ae_at'[f] = "write" /\ ae_exit'[f] = ae_exit[f]
      BY <1>1, <2>1, <2>3, <3>1 DEF AnalyticsIInv, OthersRest
    <3>4. WriteCallFits(x, "write", ae_exit[f])
      BY <1>2, <2>1, <3>2 DEF WriteCallFits, BatchIsValid
    <3>5. QED
      BY <1>2, <1>3, <3>2, <3>3, <3>4
  <2>4. [kind |-> "written"].kind = "written" /\ Analytics!Fail("operation").kind = "operation"
    BY DEF Analytics!Fail
  <2>5. CASE Analytics!Write(f)
    <3>1. CASE Analytics!Finish(f, Analytics!Fail("operation")) /\ UNCHANGED <<ae_dataset, ae_call>>
      <4>1. UNCHANGED ae_call
        BY <3>1
      <4>2. QED
        BY <2>2, <2>4, <3>1, <4>1
    <3>2. QED
      BY <2>3, <2>5, <3>1, Zenon DEF Analytics!Write
  <2>6. CASE Analytics!Wrote(f)
    <3>1. Analytics!Finish(f, [kind |-> "written"]) /\ UNCHANGED ae_call
      BY <2>6 DEF Analytics!Wrote
    <3>2. QED
      BY <2>2, <2>4, <3>1
  <2>7. QED
    BY <1>6, <2>5, <2>6
<1>7. QED
  BY <1>4, <1>5, <1>6 DEF Analytics!Validate

LEMMA QueryStepOK ==
  ASSUME AnalyticsIInv, NEW f \in Writers, Analytics!Execute(f) \/ Analytics!ErrorBody(f) \/ Analytics!Body(f)
  PROVE  AnalyticsIInv'
<1> DEFINE c == ae_call[f]
<1>1. ae_at[f] \in {"request", "error body", "body"} /\ UNCHANGED ae_call
  BY DEF Analytics!Execute, Analytics!ErrorBody, Analytics!Body
<1>2. /\ c.op \in Analytics!QueryOperations /\ ae_exit[f] = Analytics!Idle
      /\ ae_at[f] = "body" => ae_answer[f][1].ok /\ c.op # "raw"
  BY <1>1 DEF AnalyticsIInv, CallFits, QueryCallFits, WriteCallFits
<1> HIDE DEF c
<1>3. ASSUME NEW step, NEW response, NEW ended, OthersRest(f), ae_at'[f] = step, ae_answer'[f] = response, ae_exit'[f] = ended,
             step # "idle" => ended = Analytics!Idle, QueryCallFits(c, step, response, ended)
      PROVE  AnalyticsIInv'
  <2>1. CallFits(ae_call'[f], ae_at'[f], ae_answer'[f], ae_exit'[f])
    BY <1>1, <1>3 DEF CallFits, c
  <2>2. QED
    BY <1>3, <2>1 DEF AnalyticsIInv, OthersRest
<1>4. ASSUME NEW e, UNCHANGED ae_answer, Analytics!Finish(f, e), e.kind \in QueryKinds(c),
             e.kind \in {"rows", "body", "response"} => ae_answer[f][1].ok,
             e.kind = "rows" /\ c.op # "query" => BadRow \notin Analytics!ToSet(ae_answer[f][1].rows)
      PROVE  AnalyticsIInv'
  <2>1. OthersRest(f) /\ ae_at'[f] = "idle" /\ ae_answer'[f] = ae_answer[f] /\ ae_exit'[f] = e
    BY <1>1, <1>4 DEF AnalyticsIInv, OthersRest, Analytics!Finish
  <2>2. QueryCallFits(c, "idle", ae_answer[f], e)
    BY <1>2, <1>4 DEF QueryCallFits, QueryKinds
  <2>3. QED
    BY <1>3, <2>1, <2>2
<1>5. ASSUME NEW kind \in Analytics!QueryErrors, UNCHANGED ae_answer, Analytics!Finish(f, Analytics!Fail(kind)) PROVE AnalyticsIInv'
  <2>1. Analytics!Fail(kind).kind = kind
    BY DEF Analytics!Fail
  <2>2. kind \in QueryKinds(c) /\ kind \notin {"rows", "body", "response"}
    BY DEF QueryKinds, Analytics!QueryErrors
  <2>3. QED
    BY <1>4, <1>5, <2>1, <2>2
<1>6. CASE Analytics!Execute(f)
  <2>1. ASSUME NEW good \in BOOLEAN, NEW rows \in ApiRows, ae_answer' = [ae_answer EXCEPT ![f] = <<[ok |-> good, rows |-> rows]>>],
               IF good /\ c.op = "raw" THEN Analytics!Finish(f, [kind |-> "response"])
               ELSE ae_at' = [ae_at EXCEPT ![f] = IF good THEN "body" ELSE "error body"] /\ UNCHANGED ae_exit
        PROVE  AnalyticsIInv'
    <3> DEFINE r == <<[ok |-> good, rows |-> rows]>>
               e == [kind |-> "response"]
    <3>1. r[1].ok = good /\ e.kind = "response"
      OBVIOUS
    <3> HIDE DEF r, e
    <3>2. ae_answer' = [ae_answer EXCEPT ![f] = r]
      BY <2>1 DEF r
    <3>3. CASE good /\ c.op = "raw"
      <4>1. OthersRest(f) /\ ae_at'[f] = "idle" /\ ae_answer'[f] = r /\ ae_exit'[f] = e
        BY <1>1, <2>1, <3>2, <3>3 DEF AnalyticsIInv, OthersRest, Analytics!Finish, e
      <4>2. QueryCallFits(c, "idle", r, e)
        BY <1>2, <3>1, <3>3 DEF QueryCallFits, QueryKinds
      <4>3. QED
        BY <1>3, <4>1, <4>2
    <3>4. CASE ~ (good /\ c.op = "raw")
      <4> DEFINE step == IF good THEN "body" ELSE "error body"
      <4>1. OthersRest(f) /\ ae_at'[f] = step /\ ae_answer'[f] = r /\ ae_exit'[f] = Analytics!Idle
        BY <1>1, <1>2, <2>1, <3>2, <3>4 DEF AnalyticsIInv, OthersRest
      <4>2. QueryCallFits(c, step, r, Analytics!Idle)
        BY <1>2, <3>1, <3>4, IdleHasNoKind DEF QueryCallFits
      <4>3. QED
        BY <1>3, <4>1, <4>2
    <3>5. QED
      BY <3>3, <3>4
  <2>2. {"url", "request"} \subseteq Analytics!QueryErrors
    BY DEF Analytics!QueryErrors
  <2>3. QED
    BY <1>5, <1>6, <2>1, <2>2 DEF Analytics!Execute, Analytics!queryRequest, c
<1>7. CASE Analytics!ErrorBody(f)
  <2>1. UNCHANGED ae_answer /\ \E kind \in {"queryErrorBody", "status"} : Analytics!Finish(f, Analytics!Fail(kind))
    BY <1>7 DEF Analytics!ErrorBody, Analytics!responseText
  <2>2. {"queryErrorBody", "status"} \subseteq Analytics!QueryErrors
    BY DEF Analytics!QueryErrors
  <2>3. QED
    BY <1>5, <2>1, <2>2
<1>8. CASE Analytics!Body(f)
  <2>1. UNCHANGED ae_answer /\ ae_at[f] = "body" /\ ae_answer[f][1].ok /\ c.op # "raw"
    BY <1>2, <1>8 DEF Analytics!Body
  <2>2. {"text", "json"} \subseteq Analytics!QueryErrors
    BY DEF Analytics!QueryErrors
  <2>3. CASE c.op = "queryText"
    <3>1. PICK e \in {Analytics!Fail("text"), [kind |-> "body"]} : Analytics!Finish(f, e)
      BY <1>8, <2>3 DEF Analytics!Body, Analytics!responseText, c
    <3>2. CASE e = Analytics!Fail("text")
      BY <1>5, <2>1, <2>2, <3>1, <3>2
    <3>3. CASE e = [kind |-> "body"]
      <4>1. e.kind = "body" /\ "body" \in QueryKinds(c)
        BY <2>3, <3>3 DEF QueryKinds
      <4>2. QED
        BY <1>4, <2>1, <3>1, <4>1
    <3>4. QED
      BY <3>1, <3>2, <3>3
  <2>4. CASE c.op # "queryText"
    <3> DEFINE d == Analytics!Decoded(c.op, ae_answer[f][1].rows)
    <3>1. PICK e \in {Analytics!Fail("json"), Analytics!Fail(Analytics!SchemaError), d} : Analytics!Finish(f, e)
      BY <1>8, <2>4 DEF Analytics!Body, c
    <3>2. Analytics!Fail(Analytics!SchemaError).kind = "schema" /\ {"schema", "rows"} \subseteq QueryKinds(c)
      BY <2>1, <2>4 DEF Analytics!Fail, Analytics!SchemaError, QueryKinds
    <3>3. d.kind \in {"schema", "rows"}
      BY <3>2 DEF Analytics!Decoded
    <3>4. d.kind = "rows" /\ c.op # "query" => BadRow \notin Analytics!ToSet(ae_answer[f][1].rows)
      BY <3>2 DEF Analytics!Decoded
    <3> HIDE DEF d
    <3>5. CASE e = Analytics!Fail("json")
      BY <1>5, <2>1, <2>2, <3>1, <3>5
    <3>6. CASE e = Analytics!Fail(Analytics!SchemaError)
      BY <1>4, <2>1, <3>1, <3>2, <3>6
    <3>7. CASE e = d
      BY <1>4, <2>1, <3>1, <3>2, <3>3, <3>4, <3>7
    <3>8. QED
      BY <3>1, <3>5, <3>6, <3>7
  <2>5. QED
    BY <2>3, <2>4
<1>9. QED
  BY <1>6, <1>7, <1>8

\* Under "error" an invalid or a surplus point keeps the whole batch from being written; a query
\* returns rows of a success, all of which decoded; and a call ends in its own kind: for any
\* fibers, batches, limits and answers.
THEOREM PoliciesAreKept ==
  ASSUME Analytics!BatchesAssumption
  PROVE  Analytics!Spec => [](Analytics!ErrorWritesNothing /\ Analytics!RowsAreTrue /\ Analytics!CallsEndInTheirKind)
<1>1. Analytics!Init => AnalyticsIInv
  BY AnalyticsInitOK
<1>2. AnalyticsIInv /\ [Analytics!Next]_Analytics!vars => AnalyticsIInv'
  <2>1. ASSUME AnalyticsIInv, UNCHANGED Analytics!vars PROVE AnalyticsIInv'
    BY <2>1 DEF Analytics!vars, AnalyticsIInv
  <2>2. ASSUME AnalyticsIInv, NEW f \in Writers, NEW d \in Analytics!Policies, NEW o \in Analytics!Policies, NEW points \in PointLists,
               Analytics!writeDataPoints(f, points, d, o) PROVE AnalyticsIInv'
    <3>1. Len(points) \in Nat
      BY DEF Analytics!BatchesAssumption
    <3>2. QED
      BY <2>2, <3>1, BeginWriteOK DEF Analytics!writeDataPoints
  <2>3. ASSUME AnalyticsIInv, NEW f \in Writers, NEW d \in Analytics!Policies, NEW o \in Analytics!Policies, NEW p,
               Analytics!writeDataPoint(f, p, d, o) PROVE AnalyticsIInv'
    <3>1. Len(<<p>>) = 1
      OBVIOUS
    <3>2. QED
      BY <2>3, <3>1, BeginWriteOK DEF Analytics!writeDataPoint
  <2>4. QED
    BY <2>1, <2>2, <2>3, BeginQueryOK, WriteStepOK, QueryStepOK DEF Analytics!Next
<1>3. AnalyticsIInv => Analytics!ErrorWritesNothing /\ Analytics!RowsAreTrue /\ Analytics!CallsEndInTheirKind
  <2> SUFFICES ASSUME AnalyticsIInv, NEW f \in Writers
               PROVE  /\ Analytics!IsWrite(f) /\ ae_call[f].onInvalid = "error" /\ ae_call[f].sent # <<>> => BatchIsValid(ae_call[f])
                      /\ ae_exit[f].kind \in {"rows", "body", "response"} =>
                           /\ ae_answer[f][1].ok
                           /\ (ae_exit[f].kind = "rows" /\ ae_call[f].op # "query") => BadRow \notin Analytics!ToSet(ae_answer[f][1].rows)
                      /\ ae_exit[f] # Analytics!Idle =>
                           IF Analytics!IsWrite(f)
                           THEN /\ ae_exit[f].kind \in Analytics!WriteErrors \union {"written"}
                                /\ ae_call[f].onInvalid = "drop" => ae_exit[f].kind # "validation"
                           ELSE ae_exit[f].kind \in QueryKinds(ae_call[f])
    BY DEF Analytics!ErrorWritesNothing, Analytics!RowsAreTrue, Analytics!CallsEndInTheirKind, BatchIsValid, QueryKinds
  <2>1. CallFits(ae_call[f], ae_at[f], ae_answer[f], ae_exit[f])
    BY DEF AnalyticsIInv
  <2>2. CASE ae_call[f] = Analytics!NoCall /\ ae_exit[f] = Analytics!Idle
    BY <2>2, IdleHasNoKind DEF Analytics!IsWrite, Analytics!NoCall
  <2>3. CASE ae_call[f].op \in {"write", "writes"} /\ WriteCallFits(ae_call[f], ae_at[f], ae_exit[f])
    BY <2>3, IdleHasNoKind DEF WriteCallFits, Analytics!IsWrite, Analytics!WriteErrors
  <2>4. CASE QueryCallFits(ae_call[f], ae_at[f], ae_answer[f], ae_exit[f])
    BY <2>4, IdleHasNoKind DEF QueryCallFits, Analytics!IsWrite, Analytics!QueryOperations
  <2>5. QED
    BY <2>1, <2>2, <2>3, <2>4 DEF CallFits
<1>4. QED
  BY <1>1, <1>2, <1>3, PTL DEF Analytics!Spec

=============================================================================
