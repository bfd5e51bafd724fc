------------------------------ MODULE AnalyticsEngine ------------------------------
(* Writes to an Analytics Engine dataset and queries of its SQL API, by fibers of *)
(* one Worker invocation.  A write validates its points, under the policy of the  *)
(* call, before the first native write; the native dataset may refuse any write.  *)
(* A point is what its validation reads of it: whether it decodes, the byte sizes *)
(* of its blobs and indexes (0 for null) and the number of its doubles.           *)
EXTENDS Naturals, Sequences, SequencesExt, FiniteSetsExt

CONSTANTS Fibers, Points,
          Batches,     \* the point lists that writeDataPoints is called with
          maxBlobs, maxDoubles, maxIndexes, maxBlobBytes, maxIndexBytes,
          maxDataPointsPerInvocation,
          Rows, BadRow, \* what the SQL API answers, and a row its codec refuses
          MaxCalls     \* bound: calls of one invocation

\* A limit is a number, and a batch an array.
BatchesAssumption == maxDataPointsPerInvocation \in Nat /\ \A ps \in Batches : Len(ps) \in Nat

VARIABLES dataset,  \* native writes, each with the fiber that made it
          call,     \* what each fiber runs
          at,       \* its step
          answer,   \* of a query: what the API gave it so far
          exit, calls

vars == <<dataset, call, at, answer, exit, calls>>

NoCall == [op |-> "none"]
Idle == [kind |-> "none"]
Fail(kind) == [kind |-> kind]
\* writeDataPoint() without a point: the native dataset is called without one, too.
NoPoint == [absent |-> TRUE]
\* AnalyticsEngineOperationError and AnalyticsEngineWriteValidationError, then the
\* occasions of an AnalyticsEngineQueryError; SchemaError is Effect's own.
WriteErrors == {"operation", "validation"}
QueryErrors == {"url", "request", "status", "queryErrorBody", "json", "text"}
SchemaError == "schema"

Init ==
  /\ dataset = <<>> /\ calls = 0
  /\ call = [f \in Fibers |-> NoCall] /\ at = [f \in Fibers |-> "idle"]
  /\ answer = [f \in Fibers |-> <<>>] /\ exit = [f \in Fibers |-> Idle]

-----------------------------------------------------------------------------
(* Validation. *)

Total(sizes) == FoldLeft(+, 0, sizes)

BlobLimit(p) == Total(p.blobs) > maxBlobBytes

Violates(p) ==
  \/ Len(p.blobs) > maxBlobs \/ p.doubles > maxDoubles \/ Len(p.indexes) > maxIndexes
  \/ BlobLimit(p)
  \/ \E i \in DOMAIN p.indexes : p.indexes[i] > maxIndexBytes
Valid(p) == p = NoPoint \/ (p.decodes /\ ~Violates(p))

(* A batch over the limit fails under "error" and is cut to the limit, before its *)
(* points are looked at, under "drop".                                            *)
Considered(points, onInvalid) ==
  IF onInvalid = "drop" /\ Len(points) > maxDataPointsPerInvocation
  THEN SubSeq(points, 1, maxDataPointsPerInvocation) ELSE points
\* A mutant: a batch one longer than the limit goes through.
RejectedLate(points, onInvalid) ==
  onInvalid = "error" /\ (Len(points) > maxDataPointsPerInvocation + 1 \/ \E i \in DOMAIN points : ~Valid(points[i]))
Rejected(points, onInvalid) ==
  onInvalid = "error" /\ (Len(points) > maxDataPointsPerInvocation \/ \E i \in DOMAIN points : ~Valid(points[i]))

\* A mutant: "drop" stops at the first invalid point.
AcceptedUpTo(points, onInvalid) ==
  LET ps == Considered(points, onInvalid)
      bad == {i \in DOMAIN ps : ~Valid(ps[i])}
  IN IF bad = {} THEN ps ELSE SubSeq(ps, 1, Min(bad) - 1)
Accepted(points, onInvalid) == SelectSeq(Considered(points, onInvalid), Valid)

Policy(defaults, options) == IF options # "none" THEN options ELSE IF defaults # "none" THEN defaults ELSE "error"

-----------------------------------------------------------------------------
(* Writes. *)

Begin(f, c, step) ==
  /\ at[f] = "idle" /\ calls < MaxCalls /\ calls' = calls + 1
  /\ call' = [call EXCEPT ![f] = c]
  /\ at' = [at EXCEPT ![f] = step]
  /\ exit' = [exit EXCEPT ![f] = Idle]

Finish(f, e) == at' = [at EXCEPT ![f] = "idle"] /\ exit' = [exit EXCEPT ![f] = e]

writeDataPoints(f, points, defaults, options) ==
  /\ Begin(f, [op |-> "writes", given |-> points, onInvalid |-> Policy(defaults, options), left |-> points, sent |-> <<>>], "validate")
  /\ UNCHANGED <<dataset, answer>>

(* A single point that violates is dropped in silence, or fails. *)
writeDataPoint(f, point, defaults, options) ==
  /\ Begin(f, [op |-> "write", given |-> <<point>>, onInvalid |-> Policy(defaults, options), left |-> <<point>>, sent |-> <<>>], "validate")
  /\ UNCHANGED <<dataset, answer>>

Validate(f) ==
  /\ at[f] = "validate"
  /\ IF Rejected(call[f].left, call[f].onInvalid)
     THEN Finish(f, Fail("validation")) /\ UNCHANGED call
     ELSE /\ call' = [call EXCEPT ![f].left = Accepted(call[f].left, call[f].onInvalid)]
          /\ at' = [at EXCEPT ![f] = "write"]
          /\ UNCHANGED exit
  /\ UNCHANGED <<dataset, answer, calls>>

\* A mutant: a refused point is passed over.
WritePast(f) ==
  /\ at[f] = "write" /\ call[f].left # <<>>
  /\ call' = [call EXCEPT ![f].left = Tail(@), ![f].sent = Append(@, Head(call[f].left))]
  /\ dataset' \in {dataset, Append(dataset, <<f, Head(call[f].left)>>)}
  /\ UNCHANGED <<at, answer, exit, calls>>
(* writeChunks: one native write after the other, up to the first that throws. *)
Write(f) ==
  /\ at[f] = "write" /\ call[f].left # <<>>
  /\ \/ /\ dataset' = Append(dataset, <<f, Head(call[f].left)>>)
        /\ call' = [call EXCEPT ![f].left = Tail(@), ![f].sent = Append(@, Head(call[f].left))]
        /\ UNCHANGED <<at, exit>>
     \/ Finish(f, Fail("operation")) /\ UNCHANGED <<dataset, call>>
  /\ UNCHANGED <<answer, calls>>
Wrote(f) ==
  /\ at[f] = "write" /\ call[f].left = <<>>
  /\ Finish(f, [kind |-> "written"])
  /\ UNCHANGED <<dataset, call, answer, calls>>

-----------------------------------------------------------------------------
(* Queries: an operation wants the response, its text, its JSON or decoded rows. *)

QueryOperations == {"raw", "query", "queryResult", "queryRows", "queryOne", "queryText"}

Query(f, op) ==
  /\ Begin(f, [op |-> op], "request")
  /\ answer' = [answer EXCEPT ![f] = <<>>]
  /\ UNCHANGED dataset

\* queryRequest: the base URL of the definition may be no URL.
queryRequest(f) == Finish(f, Fail("url")) /\ UNCHANGED answer

\* responseText: a body that breaks off is an error of its own.
responseText(unread, Read) == {Fail(unread)} \cup Read

(* executeQueryRequest: the URL, the request and the status, in this order. *)
Execute(f) ==
  /\ at[f] = "request"
  /\ \/ queryRequest(f)
     \/ Finish(f, Fail("request")) /\ UNCHANGED answer
     \/ \E ok \in BOOLEAN, rows \in Rows :
          /\ answer' = [answer EXCEPT ![f] = <<[ok |-> ok, rows |-> rows]>>]
          /\ IF ok /\ call[f].op = "raw"
             THEN Finish(f, [kind |-> "response"])
             ELSE at' = [at EXCEPT ![f] = IF ok THEN "body" ELSE "error body"] /\ UNCHANGED exit
  /\ UNCHANGED <<dataset, call, calls>>

(* A refusal is reported with its status and text, or as an unreadable body. *)
ErrorBody(f) ==
  /\ at[f] = "error body"
  /\ \E e \in responseText("queryErrorBody", {Fail("status")}) : Finish(f, e)
  /\ UNCHANGED <<dataset, call, answer, calls>>

\* A mutant: queryOne decodes the row it wants only.
DecodedLazily(op, rows) ==
  IF op = "query" THEN [kind |-> "rows", rows |-> rows]
  ELSE IF BadRow \in ToSet(IF op = "queryOne" /\ rows # <<>> THEN <<Head(rows)>> ELSE rows) THEN Fail(SchemaError)
  ELSE [kind |-> "rows", rows |-> IF op = "queryOne" /\ rows # <<>> THEN <<Head(rows)>> ELSE rows]
(* The response is decoded, then every row of it: one that does not decode fails  *)
(* the query, also when queryOne only wants the first.                            *)
Decoded(op, rows) ==
  IF op = "query" THEN [kind |-> "rows", rows |-> rows]
  ELSE IF BadRow \in ToSet(rows) THEN Fail(SchemaError)
  ELSE [kind |-> "rows", rows |-> IF op = "queryOne" /\ rows # <<>> THEN <<Head(rows)>> ELSE rows]

Body(f) ==
  /\ at[f] = "body"
  /\ \E e \in IF call[f].op = "queryText" THEN responseText("text", {[kind |-> "body"]})
             ELSE {Fail("json"), Fail(SchemaError), Decoded(call[f].op, answer[f][1].rows)} :
       Finish(f, e)
  /\ UNCHANGED <<dataset, call, answer, calls>>

Policies == {"none", "error", "drop"}
Next ==
  \E f \in Fibers :
    \/ \E d, o \in Policies :
         \/ \E ps \in Batches : writeDataPoints(f, ps, d, o)
         \/ \E p \in Points \cup {NoPoint} : writeDataPoint(f, p, d, o)
    \/ \E op \in QueryOperations : Query(f, op)
    \/ Validate(f) \/ Write(f) \/ Wrote(f) \/ Execute(f) \/ ErrorBody(f) \/ Body(f)

Spec == Init /\ [][Next]_vars

-----------------------------------------------------------------------------
IsWrite(f) == call[f].op \in {"write", "writes"}
WithinLimits(p) == p = NoPoint \/
  /\ p.decodes /\ Len(p.blobs) <= maxBlobs /\ p.doubles <= maxDoubles /\ Len(p.indexes) <= maxIndexes
  /\ Total(p.blobs) <= maxBlobBytes /\ \A i \in DOMAIN p.indexes : p.indexes[i] <= maxIndexBytes

(* A call ends with a result or an error of its own kind, and a write under       *)
(* "drop" never with a validation error.                                          *)
CallsEndInTheirKind ==
  \A f \in Fibers : exit[f] # Idle =>
    IF IsWrite(f)
    THEN /\ exit[f].kind \in WriteErrors \cup {"written"}
         /\ call[f].onInvalid = "drop" => exit[f].kind # "validation"
    ELSE exit[f].kind \in QueryErrors \cup
           (IF call[f].op \in {"raw", "queryText"} THEN {"response", "body"} ELSE {SchemaError, "rows"})

(* The dataset never gets a point that one of Cloudflare's limits forbids.        *)
TypeOK ==
  /\ at \in [Fibers -> {"idle", "validate", "write", "request", "error body", "body"}]
  /\ calls \in 0..MaxCalls
  /\ CallsEndInTheirKind
  /\ \A i \in DOMAIN dataset : dataset[i][1] \in Fibers /\ WithinLimits(dataset[i][2])

(* Under "error", an invalid point or a surplus one anywhere in a batch keeps the *)
(* whole batch from being written.                                                *)
ErrorWritesNothing ==
  \A f \in Fibers :
    (IsWrite(f) /\ call[f].onInvalid = "error" /\ call[f].sent # <<>>) =>
      Len(call[f].given) <= maxDataPointsPerInvocation /\ \A i \in DOMAIN call[f].given : Valid(call[f].given[i])

(* Under "drop", a write that succeeds has sent every valid point of the part of  *)
(* its batch that is within the limit, in order, however many invalid points lie  *)
(* between them; and it does not fail validation.                                 *)
DropSkipsOnlyInvalid ==
  \A f \in Fibers :
    (IsWrite(f) /\ at[f] = "idle" /\ call[f].onInvalid = "drop") =>
      /\ exit[f].kind # "validation"
      /\ exit[f].kind = "written" =>
           LET n == IF Len(call[f].given) < maxDataPointsPerInvocation THEN Len(call[f].given) ELSE maxDataPointsPerInvocation
           IN call[f].sent = SelectSeq(SubSeq(call[f].given, 1, n), WithinLimits)

(* What a caller is told it sent is what its own writes put into the dataset, in  *)
(* order, whoever else writes in between: a failed write stopped right there.     *)
SentIsWritten ==
  \A f \in Fibers : IsWrite(f) =>
    LET mine == SelectSeq(dataset, LAMBDA e : e[1] = f)
        n == Len(call[f].sent)
    IN /\ n <= Len(mine)
       /\ \A i \in 1..n : mine[Len(mine) - n + i][2] = call[f].sent[i]
       /\ (exit[f].kind = "written" /\ at[f] = "idle") => call[f].left = <<>>

(* What a query returns comes from a response the API called a success, and a     *)
(* caller that asked for rows of its codec gets some only if all of them decoded. *)
RowsAreTrue ==
  \A f \in Fibers : exit[f].kind \in {"rows", "body", "response"} =>
    /\ answer[f][1].ok
    /\ (exit[f].kind = "rows" /\ call[f].op # "query") => BadRow \notin ToSet(answer[f][1].rows)
=============================================================================
