------------------------------ MODULE LintFlow ------------------------------
(***************************************************************************)
(* How the anti-slop lint rules (oxlint/plugin-anti-slop.js) follow a value:   *)
(* no-known-value-widening and no-widen-then-assert, from a binding back       *)
(* through constants to what it was made of, and no-chained-type-assertions    *)
(* through one expression; and what the rules about one place in a file read    *)
(* around it.  The searches are checked against fixpoints.                      *)
(***************************************************************************)
EXTENDS Naturals, Sequences, FiniteSets, FiniteSetsExt

CONSTANTS
    Files,   \* bound: the bindings and the assertion looked at
    Chains,  \* bound: expressions, from the outermost wrapper to the innermost
    Sites,   \* bound: calls, parameters, assertions, types and flows
    None

Broad == {"top", "object", "record"}

\* A file: [bindings, node].  A binding has
\*   kind  "const", "rewritten" (a write besides its initializer) or "let"
\*   note  its annotation, None or a type;  casts  types asserted around its value
\*   made  "known" (a literal, function, array...), "empty" ({}), "opaque", or a binding
\*   fn    the function it is declared in
\* node is the assertion met: [of, fn, type, after] (after the declaration's end).
VARIABLES file, chain, site, reports

vars == <<file, chain, site, reports>>

Bindings == DOMAIN file.bindings
At(v) == file.bindings[v]
IsBinding(x) == x \in Bindings

----------------------------------------------------------------------------
Stable(v) == At(v).kind = "const"

\* hasKnownEvidence: past every assertion, through constants not met before.
RECURSIVE HasEvidence(_, _)
HasEvidence(made, visited) ==
    \/ made \in {"known", "empty"}
    \/ /\ IsBinding(made) /\ made \notin visited /\ Stable(made)
       /\ HasEvidence(At(made).made, visited \union {made})

\* Mutant: any dictionary is an accumulator.
AnyDictionary(v) == At(v).note = "record"

\* An empty object that a dictionary starts from.
Accumulates(v) == At(v).note = "record" /\ At(v).made = "empty"

\* VariableDeclarator of no-known-value-widening: the kind of an annotation that
\* is too broad is its own name here.
ReportsWidening(v) ==
    At(v).note \in Broad /\ ~ Accumulates(v) /\ HasEvidence(At(v).made, {})

\* Mutant: the function a binding belongs to is not looked at.
AnyFunction(f, g) == TRUE

SameBoundary(f, g) == f = g

\* knownValueEvidence of a value under casts: the type it is known to have,
\* "syntax" if only its form is known, or None.
RECURSIVE Evidence(_, _, _, _)
Evidence(made, casts, fn, visited) ==
    IF casts # <<>> THEN (IF casts[1] \in Broad THEN None ELSE casts[1])
    ELSE IF made \in {"known", "empty"} THEN "syntax"
    ELSE IF ~ IsBinding(made) \/ made \in visited THEN None
    ELSE LET b == At(made) IN
         IF b.note # None
         THEN IF ~ SameBoundary(b.fn, fn) \/ b.note \in Broad THEN None ELSE b.note
         ELSE IF ~ Stable(made) \/ ~ SameBoundary(b.fn, fn) THEN None
         ELSE Evidence(b.made, b.casts, fn, visited \union {made})

\* Mutant: only an assertion widens.
ByCast(v) == IF At(v).casts # <<>> /\ At(v).casts[1] \in Broad THEN At(v).casts[1] ELSE None

\* The kind a binding was widened to: by its annotation, else by its outer cast.
WidenedTo(v) ==
    IF At(v).note \in Broad THEN At(v).note
    ELSE IF At(v).casts # <<>> /\ At(v).casts[1] \in Broad THEN At(v).casts[1] ELSE None

\* widenedBinding: evidence of what is under the cast that widens.
WidenedFrom(v) ==
    LET b == At(v)
        under == IF b.casts # <<>> /\ b.casts[1] \in Broad THEN Tail(b.casts) ELSE b.casts
    IN IF ~ Stable(v) \/ WidenedTo(v) = None THEN None ELSE Evidence(b.made, under, b.fn, {v})

\* assertionIsNarrower; types are told apart by their syntax.
Narrower(kind, evidence, type) ==
    /\ type \notin Broad
    /\ \/ kind = "top" \/ evidence = type
       \/ kind = "object" /\ type \in {"tuple", "members"}
       \/ kind = "record" /\ type = "members"


IsAfter(n) == n.after

\* checkAssertion of no-widen-then-assert
ReportsAssertion(n) ==
    /\ WidenedFrom(n.of) # None
    /\ IsAfter(n) /\ SameBoundary(At(n.of).fn, n.fn)
    /\ Narrower(WidenedTo(n.of), WidenedFrom(n.of), n.type)

----------------------------------------------------------------------------
\* Wrappers of an expression: "as", "const" (as const), "paren", "call".
IsAssertion(w) == w \in {"as", "const"}

RECURSIVE PastParens(_, _)
PastParens(c, i) == IF i > Len(c) \/ c[i] # "paren" THEN i ELSE PastParens(c, i + 1)

\* Mutant: the node's own parent only.
ParentOnly(c, i) == i = 1 \/ ~ IsAssertion(c[i - 1])

\* isOutermostAssertionInChain
Outermost(c, i) ==
    \A j \in 1..(i - 1) : IsAssertion(c[j]) => \E k \in (j + 1)..(i - 1) : c[k] # "paren"

\* isForbiddenAssertionChain: the assertions from i inwards.
RECURSIVE Inwards(_, _)
Inwards(c, i) ==
    IF i > Len(c) \/ ~ IsAssertion(c[i]) THEN <<>> ELSE <<c[i]>> \o Inwards(c, PastParens(c, i + 1))

ReportsChain(c, i) ==
    /\ IsAssertion(c[i]) /\ Outermost(c, i)
    /\ Len(Inwards(c, i)) > 1 /\ \E j \in DOMAIN Inwards(c, i) : Inwards(c, i)[j] = "as"

----------------------------------------------------------------------------
\* What a name means at a call.  Scopes go from the innermost to the outermost: a
\* function from their names to sets of definitions, an import being the module and
\* the name imported; the environment's names have no definition.
Declaring(scopes, n) == {i \in DOMAIN scopes : n \in DOMAIN scopes[i]}

\* Mutant: from the outermost scope inwards.
FromOutside(scopes, n) ==
    IF Declaring(scopes, n) = {} THEN {} ELSE scopes[Max(Declaring(scopes, n))][n]

\* resolveVariable: nothing for a name of the environment and for one nobody has.
Definitions(scopes, n) ==
    IF Declaring(scopes, n) = {} THEN {} ELSE scopes[Min(Declaring(scopes, n))][n]

\* isTestFrameworkObject: an import may give it another name here.
Frameworks == {"vi", "jest"}
TestImports == {<<"vitest", "vi">>, <<"@jest/globals", "jest">>}
IsTestFramework(c) ==
    LET defs == Definitions(c.scopes, c.object)
    IN  c.object # None /\ IF defs = {} THEN c.object \in Frameworks ELSE defs \cap TestImports # {}

IsGlobalReflect(c) == c.object = "Reflect" /\ Definitions(c.scopes, "Reflect") = {}

\* The method a callee names: in brackets by a literal, after a dot by an identifier.
Method(c) == IF c.property[1] = (IF c.computed THEN "literal" ELSE "name") THEN c.property[2] ELSE None

moduleMockMethods == {"doMock", "mock", "unstable_mockModule"}

\* no-module-mocking; the object of a callee is None if it is no identifier.
ReportsMock(c) == c.member /\ IsTestFramework(c) /\ Method(c) \in moduleMockMethods

\* no-reflect-apply and no-reflect-get
ReportsReflect(c, method) == c.member /\ IsGlobalReflect(c) /\ Method(c) = method

\* parameterAnnotation and parameterName: a parameter is [is, note, name, of].
RECURSIVE Annotation(_), ParameterName(_)
Annotation(p) ==
    CASE p.is = "property" -> Annotation(p.of)
      [] p.is = "rest" -> IF p.note # None THEN p.note ELSE Annotation(p.of)
      [] p.is = "default" -> IF p.note # None THEN p.note ELSE p.of.note
      [] OTHER -> p.note
ParameterName(p) == IF p.is \in {"property", "rest", "default"} THEN ParameterName(p.of) ELSE p.name

\* checkParameters of no-unknown-parameters
ReportsParameter(p) == Annotation(p) = "unknown" /\ ParameterName(p) # "cause"

\* hasSafetyComment: from the assertion outwards, up to a statement that owns comments
\* or the last node below the program; a node is [owner, safety].
RECURSIVE Justified(_, _)
Justified(path, i) ==
    path[i].safety \/ (~ path[i].owner /\ i < Len(path) /\ Justified(path, i + 1))

ReportsUnjustified(a) == ~ a.const /\ ~ Justified(a.path, 1)

\* Types around a type, from the innermost outwards: a node is [is, unsafe], and
\* "plain" the use of an alias without arguments.
Visited == {"plain", "reference", "literal", "mapped"}
TypeNodes == Visited \union {"paren", "list"}

\* shouldReportType, and TSIndexSignature
ReportsDictionary(path, i) ==
    LET outer == {path[j] : j \in (i + 1)..Len(path)}
    IN  /\ path[i].unsafe
        /\ \/ /\ path[i].is \in Visited
              /\ path[i].is = "plain" => \E n \in outer : n.is = "alias"
              /\ \A n \in outer : ~ (n.is \in TypeNodes /\ n.unsafe)
           \/ path[i].is = "index" /\ path[i + 1].is # "literal"

\* enclosingFunction: the return type of the innermost of the functions around.
EnclosingReturn(s) == IF s.functions = <<>> THEN None ELSE Head(s.functions)

\* Where no-known-value-widening meets a value: the annotation it flows into.
FlowTarget(s) ==
    CASE s.place = "property" -> s.note
      [] s.place = "assignment" -> IF s.plain /\ IsBinding(s.left) THEN At(s.left).note ELSE None
      [] s.place = "return" -> EnclosingReturn(s)
      [] s.place = "arrow" -> IF s.block THEN None ELSE EnclosingReturn(s)
      [] s.place = "assertion" -> IF s.asserted THEN None ELSE s.note

\* reportFlow
ReportsFlow(s) ==
    /\ FlowTarget(s) \in Broad
    /\ ~ (FlowTarget(s) = "record" /\ s.made = "empty")
    /\ HasEvidence(s.made, {})

\* What the rules report of a site.
ReportsSite(s) ==
    CASE s.kind = "call" -> {r \in {"mock"} : ReportsMock(s)} \union {r \in {"apply", "get"} : ReportsReflect(s, r)}
      [] s.kind = "parameter" -> {r \in {"unknown"} : ReportsParameter(s.parameter)}
      [] s.kind = "assertion" -> {r \in {"unjustified"} : ReportsUnjustified(s)}
      [] s.kind = "types" -> {i \in DOMAIN s.path : ReportsDictionary(s.path, i)}
      [] s.kind = "flow" -> {r \in {"widening"} : ReportsFlow(s)}
      [] OTHER -> {}

----------------------------------------------------------------------------
\* Mutant: a file starts with a report of an earlier one.
Stale == [widening |-> {None}, assertion |-> None, chains |-> {}, site |-> {}]

Unreported == [widening |-> {}, assertion |-> None, chains |-> {}, site |-> {}]

Init == file \in Files /\ chain \in Chains /\ site \in Sites /\ reports = Unreported

\* The rules visit a file.
Lint ==
    /\ reports = Unreported
    /\ reports' = [widening |-> {v \in Bindings : ReportsWidening(v)},
                   assertion |-> IF ReportsAssertion(file.node) THEN "reported" ELSE "fine",
                   chains |-> {i \in DOMAIN chain : ReportsChain(chain, i)},
                   site |-> ReportsSite(site)]
    /\ UNCHANGED <<file, chain, site>>

Linted == reports # Unreported /\ UNCHANGED vars

Next == Lint \/ Linted

Spec == Init /\ [][Next]_vars

----------------------------------------------------------------------------
\* Bindings that hold a value of known syntax, as a fixpoint from those that are
\* made of one: constants only, as nothing else keeps its value.
Holding ==
    LET from[n \in 0..Cardinality(Bindings)] ==
            IF n = 0 THEN {}
            ELSE {v \in Bindings : At(v).kind = "const" /\
                                     At(v).made \in {"known", "empty"} \union from[n - 1]}
    IN from[Cardinality(Bindings)]

\* Bindings whose type is known within the function of the assertion.
Typed(f) ==
    LET Made(b, known) ==
            IF b.casts # <<>> THEN b.casts[1] \notin Broad
            ELSE b.made \in {"known", "empty"} \/ b.made \in known
        from[n \in 0..Cardinality(Bindings)] ==
            IF n = 0 THEN {}
            ELSE {v \in Bindings : At(v).fn = f /\
                    IF At(v).note # None THEN At(v).note \notin Broad
                    ELSE At(v).kind = "const" /\ Made(At(v), from[n - 1])}
    IN from[Cardinality(Bindings)]

TypeOK ==
    /\ reports.widening \subseteq Bindings /\ reports.chains \subseteq DOMAIN chain
    /\ reports.assertion \in {None, "reported", "fine"}
    /\ site.kind \in {"none", "call", "parameter", "assertion", "types", "flow"}

\* A broad annotation is reported exactly where a value of known syntax flows into
\* it through constants, whatever circle the constants form; a dictionary that
\* starts empty is not.
KnownValuesStayKnown ==
    reports # Unreported =>
        \A v \in Bindings :
            (v \in reports.widening) <=>
                (/\ At(v).note \in Broad /\ ~ (At(v).note = "record" /\ At(v).made = "empty")
                 /\ At(v).made \in {"known", "empty"} \union Holding)

\* An assertion is reported only for a constant of its own function that was
\* declared before it and was widened from something whose type was known there.
OnlyRecreatedEvidence ==
    reports.assertion = "reported" =>
        LET n == file.node  b == At(n.of)
            cast == b.casts # <<>> /\ b.casts[1] \in Broad IN
        /\ b.kind = "const" /\ b.fn = n.fn /\ n.after /\ n.type \notin Broad
        /\ (b.note \in Broad \/ cast)
        /\ LET under == IF cast THEN Tail(b.casts) ELSE b.casts IN
           IF under # <<>> THEN under[1] \notin Broad
           ELSE b.made \in {"known", "empty"} \union (Typed(n.fn) \ {n.of})

\* A binding of type unknown, widened from a known type and asserted back to any
\* narrower type in its function, is always reported.
TopIsRecreated ==
    reports # Unreported =>
        LET n == file.node  b == At(n.of) IN
        (/\ b.kind = "const" /\ b.fn = n.fn /\ n.after /\ n.type \notin Broad
         /\ b.note = "top" /\ b.casts = <<>>
         /\ b.made \in {"known", "empty"} \union (Typed(n.fn) \ {n.of}))
        => reports.assertion = "reported"

\* Of every chain of assertions only the outermost is reported, once, and a chain
\* of const assertions never; parentheses do not break a chain, anything else does.
ChainsReportedOnce ==
    reports # Unreported =>
        LET runs == {<<i, j>> \in (DOMAIN chain) \X (DOMAIN chain) :
                        /\ i < j /\ IsAssertion(chain[i]) /\ IsAssertion(chain[j])
                        /\ \A k \in i..j : chain[k] # "call"}
            outer == {i \in DOMAIN chain :
                        /\ \E j \in DOMAIN chain : <<i, j>> \in runs /\ "as" \in {chain[k] : k \in i..j}
                        /\ \A j \in DOMAIN chain : <<j, i>> \notin runs}
        IN reports.chains = outer
Reported == reports # Unreported

\* A call is a mock or a reflection by what its object's name denotes where it stands,
\* each scope hiding those around it, and not by how it is spelt: a renamed import is
\* the framework, a local of its name is not.
CallsAreWhatTheyDenote ==
    (Reported /\ site.kind = "call") =>
        LET denoted[n \in 0..Len(site.scopes)] ==
                IF n = 0 THEN {}
                ELSE LET s == site.scopes[Len(site.scopes) - n + 1]
                     IN  IF site.object \in DOMAIN s THEN s[site.object] ELSE denoted[n - 1]
            defs == denoted[Len(site.scopes)]
            own == defs = {} /\ site.object # None
        IN  /\ reports.site # {} => site.member /\ site.property[2] # None
            /\ "mock" \in reports.site =>
                   \/ defs \cap TestImports # {}
                   \/ own /\ site.object \in Frameworks
            /\ reports.site \cap {"apply", "get"} # {} => own /\ site.object = "Reflect"
            /\ (/\ site.member /\ ~ site.computed /\ site.property = <<"name", "mock">>
                /\ defs \cap TestImports # {})
               => reports.site = {"mock"}

\* An unknown input is reported wherever the syntax hangs its annotation, unless the
\* parameter is bound as cause; nothing else is.
UnknownInputsAreReported ==
    (Reported /\ site.kind = "parameter") =>
        LET p == site.parameter
            inner == IF p.of = None THEN {} ELSE IF p.of.of = None THEN {p.of} ELSE {p.of, p.of.of}
        IN  reports.site = {"unknown"} <=>
                /\ \E q \in {p} \union inner : q.note = "unknown"
                /\ \A q \in {p} \union inner : q.name # "cause"

\* A comment justifies an assertion exactly if no statement of its own lies between
\* them, and a const assertion needs none.
CommentsJustifyTheirStatement ==
    (Reported /\ site.kind = "assertion") =>
        (reports.site = {} <=>
            \/ site.const
            \/ \E i \in DOMAIN site.path : site.path[i].safety /\ \A j \in 1..(i - 1) : ~ site.path[j].owner)

\* Of nested unsafe dictionary types exactly the outermost is reported; only the plain
\* use of an alias, which is reported where it is declared, and what the outermost
\* parentheses hold are not.
OutermostDictionaryReported ==
    (Reported /\ site.kind = "types") =>
        LET unsafe == {i \in DOMAIN site.path : site.path[i].unsafe}
            outermost == Max(unsafe)
        IN  IF unsafe = {} THEN reports.site = {}
            ELSE /\ reports.site \subseteq {outermost}
                 /\ (reports.site = {} <=>
                        \/ site.path[outermost].is = "paren"
                        \/ /\ site.path[outermost].is = "plain"
                           /\ \A j \in DOMAIN site.path : site.path[j].is # "alias")

\* A known value is reported where it flows into something broad, by the innermost
\* function that returns it, and an outer assertion answers for an inner one.
KnownFlowsAreReported ==
    (Reported /\ site.kind = "flow") =>
        LET Into(t) ==
                \/ site.place = "property" /\ t = site.note
                \/ site.place = "assertion" /\ ~ site.asserted /\ t = site.note
                \/ site.place = "assignment" /\ site.plain /\ \E v \in Bindings : v = site.left /\ t = At(v).note
                \/ /\ site.place = "return" \/ (site.place = "arrow" /\ ~ site.block)
                   /\ \E i \in DOMAIN site.functions : i = 1 /\ t = site.functions[i]
        IN  reports.site = {"widening"} <=>
                \E t \in Broad : /\ Into(t) /\ ~ (t = "record" /\ site.made = "empty")
                                /\ site.made \in {"known", "empty"} \union Holding
=============================================================================
