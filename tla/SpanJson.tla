------------------------------ MODULE SpanJson ------------------------------
(***************************************************************************)
(* The bounded JSON writer of CloudflareTracer.ts (encodeJson): a depth-first *)
(* visit of a value that may share members, contain itself or be far too       *)
(* large, with limits on bytes, depth and values.  A value is a graph of       *)
(* nodes; the recursion of visit is a stack of containers.                     *)
(***************************************************************************)
EXTENDS Naturals, Sequences, FiniteSets, FiniteSetsExt, SequencesExt

CONSTANTS
    N,          \* bound: nodes of a value; node 1 is the value itself
    MaxMembers, \* bound: members of a container
    KeyBytes,   \* the bytes of a key and its colon
    LeafBytes,  \* the bytes of a scalar
    MaxBytes,   \* maxBytes
    MaxDepth,   \* 4
    MaxValues   \* 64

SizesAssumption == N \in Nat \ {0} /\ MaxMembers \in Nat
LimitsAssumption == {KeyBytes, LeafBytes, MaxBytes, MaxDepth, MaxValues} \subseteq Nat

Nodes == 1..N
Members == UNION {[1..n -> Nodes] : n \in 0..MaxMembers}

\* Accessors, bigints, class instances, non-finite numbers and so on are "bad".
Shapes == [kind : {"scalar", "bad"}, members : {<<>>}] \union [kind : {"array", "object"}, members : Members]

VARIABLES
    value,     \* node -> its shape
    stack,     \* containers being visited: [node, next]
    ancestors, \* the set of the code
    values, bytes,
    result     \* "visiting", "encoded", "dropped"

vars == <<value, stack, ancestors, values, bytes, result>>

Init ==
    /\ value \in [Nodes -> Shapes]
    /\ stack = <<>> /\ ancestors = {} /\ values = 0 /\ bytes = 0 /\ result = "visiting"

IsArray(n) == value[n].kind = "array"

\* What visit refuses before it writes anything of the value.
Visitable(n, depth) ==
    \/ value[n].kind = "scalar"
    \/ /\ value[n].kind \in {"array", "object"}
       /\ depth < MaxDepth /\ n \notin ancestors
       /\ IsArray(n) => Len(value[n].members) <= MaxValues - (values + 1)

\* append: bytes grow even when the part does not fit any more.
Write(size) ==
    /\ bytes' = bytes + size
    /\ result' = IF bytes + size > MaxBytes THEN "dropped" ELSE "visiting"

\* Mutant: the count is looked at for containers only.
CountsContainers(n) == value[n].kind # "scalar" /\ values + 1 > MaxValues

\* ++values > 64
TooMany(n) == values + 1 > MaxValues

\* Mutant: separators are free.
Unseparated(frame) == IF IsArray(frame.node) THEN 0 ELSE KeyBytes

\* A comma before every member but the first, and its key in an object.
Prefix(frame) ==
    (IF frame.next > 1 THEN 1 ELSE 0) + (IF IsArray(frame.node) THEN 0 ELSE KeyBytes)

\* visit of node n at this depth; before is what was written to get to it.
Visit(n, depth, before, rest) ==
    /\ values' = values + 1
    /\ IF bytes + before > MaxBytes \/ TooMany(n) \/ ~ Visitable(n, depth)
       THEN /\ result' = "dropped" /\ bytes' = bytes + before
            /\ UNCHANGED <<stack, ancestors>>
       ELSE IF value[n].kind = "scalar"
       THEN Write(before + LeafBytes) /\ stack' = rest /\ UNCHANGED ancestors
       ELSE /\ Write(before + 1)
            /\ ancestors' = ancestors \union {n}
            /\ stack' = Append(rest, [node |-> n, next |-> 1])

Root ==
    /\ result = "visiting" /\ values = 0
    /\ Visit(1, 0, 0, <<>>)
    /\ UNCHANGED value

Member ==
    /\ result = "visiting" /\ stack # <<>>
    /\ LET top == Last(stack) IN
       /\ top.next <= Len(value[top.node].members)
       /\ Visit(value[top.node].members[top.next], Len(stack), Prefix(top),
                Append(Front(stack), [top EXCEPT !.next = @ + 1]))
    /\ UNCHANGED value

LeavesAncestors(n) == ancestors \ {n}

\* ancestors.delete, then the closing bracket.
Close ==
    /\ result = "visiting" /\ stack # <<>>
    /\ LET top == Last(stack) IN
       /\ top.next > Len(value[top.node].members)
       /\ ancestors' = LeavesAncestors(top.node)
    /\ Write(1) /\ stack' = Front(stack)
    /\ UNCHANGED <<value, values>>

\* visit(value, 0) returned true
Done ==
    /\ result = "visiting" /\ values > 0 /\ stack = <<>>
    /\ result' = "encoded"
    /\ UNCHANGED <<value, stack, ancestors, values, bytes>>

Finished == result # "visiting" /\ UNCHANGED vars

Next == Root \/ Member \/ Close \/ Done \/ Finished

Spec == Init /\ [][Next]_vars

----------------------------------------------------------------------------
TypeOK ==
    /\ value \in [Nodes -> Shapes] /\ values \in Nat /\ bytes \in Nat
    /\ result \in {"visiting", "encoded", "dropped"}
    /\ stack \in Seq([node : Nodes, next : 1..(MaxMembers + 1)])
    /\ ancestors = {stack[i].node : i \in DOMAIN stack}

Total(s) == FoldLeft(+, 0, s)

\* The tree a value unfolds to, seen from a depth: what it takes, or that it is
\* not to be written at all.  Beyond the deepest container nothing is good.
Unfolded ==
    LET Too == [good |-> FALSE, values |-> 0, bytes |-> 0]
        At(n, below) ==
            LET s == value[n]  m == s.members  parts == [i \in DOMAIN m |-> below[m[i]]] IN
            IF s.kind = "bad" \/ \E i \in DOMAIN m : ~ parts[i].good THEN Too
            ELSE IF s.kind = "scalar" THEN [good |-> TRUE, values |-> 1, bytes |-> LeafBytes]
            ELSE [good |-> TRUE,
                  values |-> 1 + Total([i \in DOMAIN m |-> parts[i].values]),
                  bytes |-> 2 + Total([i \in DOMAIN m |-> parts[i].bytes])
                            + (IF m = <<>> THEN 0 ELSE Len(m) - 1)
                            + (IF s.kind = "object" THEN Len(m) * KeyBytes ELSE 0)]
        levels[d \in 0..MaxDepth] ==
            [n \in Nodes |->
                IF d = 0 THEN (IF value[n].kind = "scalar" THEN At(n, <<>>) ELSE Too)
                ELSE At(n, levels[d - 1])]
    IN levels[MaxDepth][1]

\* A value is written exactly when its unfolding is acyclic, shallow, small and
\* good throughout: shared members count each time they are met, and no visit
\* drops a value that fits or writes one that does not.
ExactlyWhatFits ==
    result # "visiting" =>
        (result = "encoded" <=>
            Unfolded.good /\ Unfolded.values <= MaxValues /\ Unfolded.bytes <= MaxBytes)

\* Work is bounded whatever the value: one visit past the limit at most, and no
\* more open containers than levels.
WorkIsBounded == values <= MaxValues + 1 /\ Len(stack) <= MaxDepth
=============================================================================
