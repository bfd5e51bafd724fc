------------------------------ MODULE LintTypes ------------------------------
(***************************************************************************)
(* How the anti-slop lint rules (oxlint/plugin-anti-slop.js) look through the  *)
(* type aliases of a program: no-unsafe-dictionary-type, no-known-value-       *)
(* widening, no-object-parameters, no-unknown-returns and no-unknown-type-     *)
(* aliases.  A type is a tuple, a program the declarations of its file; each   *)
(* question is an operator, checked against what the type really expands to.   *)
(* Recursions carry the calls they have left: none left is a stack overflow.   *)
(***************************************************************************)
EXTENDS Naturals, Sequences, FiniteSets, SequencesExt

CONSTANTS
    Programs,  \* bound: the files looked at: [statements, asked, enclosing]
    Calls      \* bound: nested calls, far more than the types of a program need

CallsAssumption == Calls \in Nat

None == "none"

\* Types: a keyword, <<"empty">> ({}), <<"members">> ({a: string}), <<"dict", value>>,
\* <<"mapped", key, value>>, <<"paren", type>>, <<"union", l, r>>, <<"both", l, r>>
\* and <<"ref", name, arguments>>.
Keyword(k) == <<k>>
Ref(n, args) == <<"ref", n, args>>
IsRef(t) == t[1] = "ref"

\* The keyword a rule looks for, and the references only one rule follows.
Sought(rule) == IF rule = "object" THEN "object" ELSE "unknown"
IsPromise(rule, t) == rule = "return" /\ IsRef(t) /\ t[2] \in {"Promise", "PromiseLike"}

BuiltIns == {"Record", "Readonly", "Partial", "Required", "Pick", "Omit", "PropertyKey", "NonNullable"}
Wrappers == {"Readonly", "Partial", "Required", "NonNullable"}

VARIABLES program, answers

vars == <<program, answers>>

----------------------------------------------------------------------------
\* createTypeEnvironment: a statement is [kind, name, params, body]; an alias keeps
\* its first declaration, any declaration of a built-in's name shadows it.

Named(p, k) == SelectSeq(p.statements, LAMBDA s : s.kind = k)
Alias(p, n) == LET all == SelectSeq(Named(p, "alias"), LAMBDA s : s.name = n)
               IN IF all = <<>> THEN <<>> ELSE <<all[1]>>
Interfaces(p, n) == SelectSeq(Named(p, "interface"), LAMBDA s : s.name = n)
IsBuiltIn(p, n) == n \in BuiltIns /\ \A i \in DOMAIN p.statements : p.statements[i].name # n

RECURSIVE Unwrap(_)
Unwrap(t) == IF t[1] = "paren" THEN Unwrap(t[2]) ELSE t

\* isUnappliedReferenceTo
Unapplied(t, n) == LET u == Unwrap(t) IN IsRef(u) /\ u[2] = n /\ u[3] = <<>>

Bind(subst, n, t) == [m \in DOMAIN subst \union {n} |-> IF m = n THEN t ELSE subst[m]]
NoSubst == [n \in {} |-> <<>>]

\* Mutant: an argument is bound as it was written.
AsWritten(t, base, resolving) == t

\* resolvedSubstitutionArgument
RECURSIVE Resolved(_, _, _)
Resolved(t, base, resolving) ==
    LET u == Unwrap(t) IN
    IF ~ IsRef(u) \/ u[2] \in resolving \/ u[2] \notin DOMAIN base THEN t
    ELSE Resolved(base[u[2]], base, resolving \union {u[2]})

\* aliasSubstitution: one parameter after another, each seeing those before it.
\* A parameter is <<name>> or <<name, default>>; the result is empty if an argument
\* is missing, and otherwise holds the substitution.
RECURSIVE Substitute(_, _, _)
Substitute(params, args, next) ==
    IF params = <<>> THEN <<next>>
    ELSE LET p == Head(params)  rest == IF args = <<>> THEN <<>> ELSE Tail(args) IN
         IF args = <<>> /\ Len(p) = 1 THEN <<>>
         ELSE LET given == IF args = <<>> THEN p[2] ELSE Head(args)
              IN Substitute(Tail(params), rest, Bind(next, p[1], Resolved(given, next, {})))

\* The alias n as applied here: its substitution, or nothing where the code gives up.
Applied(p, t, subst, resolving) ==
    IF Alias(p, t[2]) = <<>> \/ t[2] \in resolving THEN <<>>
    ELSE Substitute(Alias(p, t[2])[1].params, t[3], subst)

Body(p, n) == Alias(p, n)[1].body

\* unsafeDirectValue
RECURSIVE Unsafe(_, _, _, _, _)
Unsafe(p, t, subst, resolving, calls) ==
    LET u == Unwrap(t)
        Sub(x) == Unsafe(p, x, subst, resolving, calls - 1)
    IN IF calls = 0 THEN "overflow"
       ELSE IF u[1] \in {"unknown", "any", "object", "empty"} THEN u[1]
       ELSE IF u[1] = "union"
       THEN LET left == Sub(u[2])
                first == IF left # None THEN left ELSE Sub(u[3])
            IN IF first \in {None, "overflow"} THEN first ELSE "union"
       ELSE IF u[1] = "both"
       THEN LET members == <<Sub(u[2]), Sub(u[3])>> IN
            IF "overflow" \in ToSet(members) THEN "overflow"
            ELSE IF "any" \in ToSet(members) THEN "any"
            ELSE IF None \in ToSet(members) THEN None ELSE members[1]
       ELSE IF ~ IsRef(u) THEN None
       ELSE IF u[2] \in Wrappers /\ IsBuiltIn(p, u[2])
       THEN IF u[3] = <<>> THEN None ELSE Sub(u[3][1])
       ELSE IF u[2] \in DOMAIN subst
       THEN IF Unapplied(subst[u[2]], u[2]) THEN None ELSE Sub(subst[u[2]])
       ELSE IF Interfaces(p, u[2]) # <<>>
       THEN IF Len(Interfaces(p, u[2])) = 1 /\ Interfaces(p, u[2])[1].body = Keyword("empty") THEN "empty" ELSE None
       ELSE LET next == Applied(p, u, subst, resolving) IN
            IF next = <<>> THEN None
            ELSE Unsafe(p, Body(p, u[2]), next[1], resolving \union {u[2]}, calls - 1)

\* dictionaryValueTypes: the value of the dictionary a type is, with its
\* substitution, or None.  Looked up before the wrappers, unlike unsafeDirectValue.
RECURSIVE DictionaryValue(_, _, _, _, _)
DictionaryValue(p, t, subst, resolving, calls) ==
    LET u == Unwrap(t)
        Sub(x) == DictionaryValue(p, x, subst, resolving, calls - 1)
    IN IF calls = 0 THEN <<"overflow">>
       ELSE IF u[1] = "dict" THEN <<u[2], subst>>
       ELSE IF u[1] = "mapped" THEN <<u[3], subst>>
       ELSE IF ~ IsRef(u) THEN <<>>
       ELSE IF u[2] \in DOMAIN subst
       THEN IF Unapplied(subst[u[2]], u[2]) THEN <<>> ELSE Sub(subst[u[2]])
       ELSE IF u[2] \in Wrappers \union {"Pick", "Omit"} /\ IsBuiltIn(p, u[2])
       THEN IF u[3] = <<>> THEN <<>> ELSE Sub(u[3][1])
       ELSE IF u[2] = "Record" /\ IsBuiltIn(p, u[2])
       THEN IF Len(u[3]) < 2 THEN <<>> ELSE <<u[3][2], subst>>
       ELSE LET next == Applied(p, u, subst, resolving) IN
            IF next = <<>> THEN <<>>
            ELSE DictionaryValue(p, Body(p, u[2]), next[1], resolving \union {u[2]}, calls - 1)

\* classifyUnsafeDictionary
UnsafeDictionary(p, t) ==
    LET v == DictionaryValue(p, t, NoSubst, {}, Calls) IN
    IF v = <<>> THEN None
    ELSE IF v = <<"overflow">> THEN "overflow"
    ELSE Unsafe(p, v[1], v[2], {}, Calls)

\* isBroadMappedKey
RECURSIVE BroadKey(_, _, _, _)
BroadKey(p, t, subst, calls) ==
    LET u == Unwrap(t) IN
    IF calls = 0 THEN FALSE
    ELSE IF u[1] = "string" THEN TRUE
    ELSE IF u[1] = "union"
    THEN BroadKey(p, u[2], subst, calls - 1) /\ BroadKey(p, u[3], subst, calls - 1)
    ELSE IF ~ IsRef(u) THEN FALSE
    ELSE IF u[2] \in DOMAIN subst /\ ~ Unapplied(subst[u[2]], u[2])
    THEN BroadKey(p, subst[u[2]], subst, calls - 1)
    ELSE u[2] = "PropertyKey" /\ IsBuiltIn(p, u[2])

\* Mutant: the second half of a chain of aliases is not followed.
OneAlias(p, t, subst, resolving, calls) ==
    LET u == Unwrap(t) IN
    IF u[1] \in {"unknown", "object"} THEN u[1]
    ELSE IF u[1] = "dict" THEN "open dictionary" ELSE None

\* classifyAliasBroadTarget
RECURSIVE AliasTarget(_, _, _, _, _)
AliasTarget(p, t, subst, resolving, calls) ==
    LET u == Unwrap(t)
        Sub(x) == AliasTarget(p, x, subst, resolving, calls - 1)
    IN IF calls = 0 THEN "overflow"
       ELSE IF u[1] \in {"unknown", "object"} THEN u[1]
       ELSE IF u[1] = "dict" THEN "open dictionary"
       ELSE IF u[1] = "mapped" THEN (IF BroadKey(p, u[2], subst, Calls) THEN "open dictionary" ELSE None)
       ELSE IF ~ IsRef(u) THEN None
       ELSE IF u[2] \in DOMAIN subst
       THEN IF Unapplied(subst[u[2]], u[2]) THEN None ELSE Sub(subst[u[2]])
       ELSE IF u[2] \in Wrappers /\ IsBuiltIn(p, u[2])
       THEN IF u[3] = <<>> THEN None ELSE Sub(u[3][1])
       ELSE IF u[2] = "Record" /\ IsBuiltIn(p, u[2]) THEN "open dictionary"
       ELSE LET next == Applied(p, u, subst, resolving) IN
            IF next = <<>> THEN None
            ELSE AliasTarget(p, Body(p, u[2]), next[1], resolving \union {u[2]}, calls - 1)

\* classifyWideningTarget
RECURSIVE WideningTarget(_, _)
WideningTarget(p, t) ==
    LET u == Unwrap(t) IN
    IF u[1] \in {"unknown", "object"} THEN u[1]
    ELSE IF u[1] \in {"dict", "mapped"} THEN "open dictionary"
    ELSE IF u[1] = "members" THEN "anonymous object"
    ELSE IF ~ IsRef(u) THEN None
    ELSE IF u[2] \in Wrappers /\ IsBuiltIn(p, u[2])
    THEN IF u[3] = <<>> THEN None ELSE WideningTarget(p, u[3][1])
    ELSE IF u[2] = "Record" /\ IsBuiltIn(p, u[2]) THEN "open dictionary"
    ELSE LET next == Applied(p, u, NoSubst, {}) IN
         IF next = <<>> THEN None
         ELSE IF Alias(p, u[2])[1].params # <<>>
         THEN IF DictionaryValue(p, Body(p, u[2]), next[1], {u[2]}, Calls) \in {<<>>, <<"overflow">>}
              THEN None ELSE "generic container"
         ELSE AliasTarget(p, Body(p, u[2]), next[1], {u[2]}, Calls)

\* Mutant: only what is written there is looked at.
AtFirstSight(p, rule, t, shadowed, visited) == t[1] = Sought(rule)

\* resolvesToObject, resolvesToUnknown (of returns, of aliases): past parentheses
\* and aliases that take no parameters and are not shadowed where the type is
\* written; aliases look at no unions, and only returns into promises.
RECURSIVE ResolvesTo(_, _, _, _, _)
ResolvesTo(p, rule, t, shadowed, visited) ==
    \/ t[1] = Sought(rule)
    \/ t[1] = "paren" /\ ResolvesTo(p, rule, t[2], shadowed, visited)
    \/ /\ t[1] = "union" /\ rule # "alias"
       /\ ResolvesTo(p, rule, t[2], shadowed, visited) \/ ResolvesTo(p, rule, t[3], shadowed, visited)
    \/ /\ IsPromise(rule, t)
       /\ t[3] # <<>> /\ ResolvesTo(p, rule, t[3][1], shadowed, visited)
    \/ /\ ~ IsPromise(rule, t) /\ IsRef(t)
       /\ t[3] = <<>> /\ t[2] \notin visited \union shadowed
       /\ Alias(p, t[2]) # <<>> /\ Alias(p, t[2])[1].params = <<>>
       /\ ResolvesTo(p, rule, Body(p, t[2]), shadowed, visited \union {t[2]})

\* lexicalTypeParameterNames: those of every node the type is written in.
ShadowedAt(p) == UNION ToSet(p.enclosing)

ObjectInput(p) == ResolvesTo(p, "object", p.asked, ShadowedAt(p), {})
UnknownReturn(p) == ResolvesTo(p, "return", p.asked, ShadowedAt(p), {})

\* Every alias of the file, whatever it is used for.
UnknownAliases(p) ==
    {s \in ToSet(Named(p, "alias")) : ResolvesTo(p, "alias", s.body, {}, {s.name})}

----------------------------------------------------------------------------
Unasked == [dictionary |-> "", target |-> "", object |-> FALSE, unknown |-> FALSE, aliases |-> {}]

Init == program \in Programs /\ answers = Unasked

\* A rule meets the type that is asked about in a file.
Lint ==
    /\ answers = Unasked
    /\ answers' = [dictionary |-> UnsafeDictionary(program, program.asked),
                   target |-> WideningTarget(program, program.asked),
                   object |-> ObjectInput(program),
                   unknown |-> UnknownReturn(program),
                   aliases |-> UnknownAliases(program)]
    /\ UNCHANGED program

Linted == answers # Unasked /\ UNCHANGED vars

Next == Lint \/ Linted

Spec == Init /\ [][Next]_vars

----------------------------------------------------------------------------
\* What a type expands to when every argument keeps the scope it was written in:
\* names stand for <<type, its scope>>.  Parameters win over declarations.
RECURSIVE Expand(_, _, _, _)
Expand(p, t, scope, depth) ==
    LET Here(x) == Expand(p, x, scope, depth) IN
    IF t[1] = "paren" THEN Here(t[2])
    ELSE IF t[1] \in {"union", "both"} THEN <<t[1], Here(t[2]), Here(t[3])>>
    ELSE IF t[1] = "dict" THEN <<"dict", Here(t[2])>>
    ELSE IF t[1] = "mapped" THEN <<"dict", Here(t[3])>>
    ELSE IF ~ IsRef(t) THEN t
    ELSE IF t[2] \in DOMAIN scope THEN Expand(p, scope[t[2]][1], scope[t[2]][2], depth)
    ELSE IF IsBuiltIn(p, t[2])
    THEN IF t[2] = "Record" /\ Len(t[3]) = 2 THEN <<"dict", Here(t[3][2])>>
         ELSE IF t[3] # <<>> THEN Here(t[3][1]) ELSE <<"opaque">>
    ELSE IF Interfaces(p, t[2]) # <<>>
    THEN IF Len(Interfaces(p, t[2])) = 1 THEN Interfaces(p, t[2])[1].body ELSE <<"members">>
    ELSE IF Alias(p, t[2]) = <<>> \/ depth = 0 THEN <<"opaque">>
    ELSE LET params == Alias(p, t[2])[1].params
             given[i \in 0..Len(params)] ==
                 IF i = 0 THEN NoSubst
                 ELSE Bind(given[i - 1], params[i][1],
                           IF i <= Len(t[3]) THEN <<t[3][i], scope>> ELSE <<params[i][2], given[i - 1]>>)
         IN IF \E i \in DOMAIN params : i > Len(t[3]) /\ Len(params[i]) = 1 THEN <<"opaque">>
            ELSE Expand(p, Body(p, t[2]), given[Len(params)], depth - 1)

Meaning(p) == Expand(p, p.asked, NoSubst, Cardinality(DOMAIN p.statements))

RECURSIVE Hatch(_)
Hatch(t) ==
    \/ t[1] \in {"unknown", "any", "object", "empty"}
    \/ t[1] = "union" /\ (Hatch(t[2]) \/ Hatch(t[3]))
    \/ t[1] = "both" /\ ((Hatch(t[2]) /\ Hatch(t[3])) \/ <<"any">> \in {t[2], t[3]})

IsUnsafe(p) == Meaning(p)[1] = "dict" /\ Hatch(Meaning(p)[2])

RECURSIVE Mentions(_)
Mentions(t) ==
    IF IsRef(t) THEN {t[2]} \union UNION {Mentions(t[3][i]) : i \in DOMAIN t[3]}
    ELSE IF t[1] \in {"paren", "dict"} THEN Mentions(t[2])
    ELSE IF t[1] \in {"union", "both", "mapped"} THEN Mentions(t[2]) \union Mentions(t[3])
    ELSE {}

Params(p) == UNION {{s.params[i][1] : i \in DOMAIN s.params} : s \in ToSet(p.statements)}

\* No argument mentions a name that is also a parameter, other than as a bare
\* reference that the parameter of that name receives itself.
RECURSIVE Clean(_, _)
Clean(p, t) ==
    IF IsRef(t)
    THEN /\ \A i \in DOMAIN t[3] : Clean(p, t[3][i])
         /\ Alias(p, t[2]) # <<>> =>
              LET params == Alias(p, t[2])[1].params IN
              \A i \in DOMAIN t[3] \intersect DOMAIN params :
                 Mentions(t[3][i]) \intersect {params[j][1] : j \in DOMAIN params} # {} =>
                     Unapplied(t[3][i], params[i][1])
    ELSE IF t[1] \in {"paren", "dict"} THEN Clean(p, t[2])
    ELSE IF t[1] \in {"union", "both", "mapped"} THEN Clean(p, t[2]) /\ Clean(p, t[3])
    ELSE TRUE

NoCapture(p) ==
    /\ Clean(p, p.asked) /\ \A i \in DOMAIN p.statements : Clean(p, p.statements[i].body)
    /\ Params(p) \intersect {p.statements[i].name : i \in DOMAIN p.statements} = {}

TypeOK ==
    /\ answers.dictionary \in {"", None, "overflow", "unknown", "any", "object", "empty", "union"}
    /\ answers.target \in {"", None, "overflow", "unknown", "object", "open dictionary",
                           "anonymous object", "generic container"}
    /\ {answers.object, answers.unknown} \subseteq BOOLEAN
    /\ answers # Unasked => answers.dictionary # "" /\ answers.target # ""

\* Where no parameter's name is captured, a dictionary is reported exactly if the
\* value type it expands to holds an escape hatch, however many aliases, defaults
\* and wrappers there are, and the recursion ends.
ReportedIfUnsafe ==
    answers # Unasked /\ NoCapture(program) =>
        (answers.dictionary = None) <=> ~ IsUnsafe(program)

\* A chain of aliases without parameters widens a value exactly as its end does;
\* an end with named members is an owner's type, and not reported.
AliasesDoNotHide ==
    answers # Unasked /\ NoCapture(program) /\ IsRef(program.asked) /\ Alias(program, program.asked[2]) # <<>>
      /\ Alias(program, program.asked[2])[1].params = <<>> =>
        (answers.target = None) <=> (Meaning(program)[1] \notin {"unknown", "object", "dict"})

\* What a type ends in, n aliases away.
RECURSIVE Holds(_, _, _, _, _)
Holds(p, rule, t, shadowed, n) ==
    \/ t[1] = Sought(rule)
    \/ \E m \in (IF t[1] = "paren" THEN {t[2]}
                 ELSE IF t[1] = "union" /\ rule # "alias" THEN {t[2], t[3]}
                 ELSE IF IsPromise(rule, t) THEN {t[3][1]} ELSE {}) : Holds(p, rule, m, shadowed, n)
    \/ /\ n > 0 /\ IsRef(t) /\ t[3] = <<>> /\ t[2] \notin shadowed
       /\ Alias(p, t[2]) # <<>> /\ Alias(p, t[2])[1].params = <<>>
       /\ Holds(p, rule, Body(p, t[2]), shadowed, n - 1)

\* Unknown or object behind unions, promises, parentheses and plain aliases is
\* found, and nowhere else; aliases that name each other end the search, and a
\* type parameter of any enclosing node hides the alias of its name.
FoundBehindAliases ==
    answers # Unasked =>
        LET deep == Len(program.statements)
            hidden == {n \in {s.name : s \in ToSet(program.statements)} :
                         \E i \in DOMAIN program.enclosing : n \in program.enclosing[i]} IN
        /\ answers.unknown = Holds(program, "return", program.asked, hidden, deep)
        /\ answers.object = Holds(program, "object", program.asked, hidden, deep)
        /\ \A s \in ToSet(Named(program, "alias")) :
             s \in answers.aliases <=> Holds(program, "alias", s.body, {}, deep)
=============================================================================
