---------------------------- MODULE AlarmCacheProofs ----------------------------
(***************************************************************************)
(* The metadata cache never contradicts storage, for any alarms, nesting of     *)
(* transactions, overlapping roots, hidden SQL transactions and invalidations.  *)
(* The invariant: the scopes with a view are the outermost ones of the one       *)
(* active root, each view that is not in doubt agrees with what storage shows its *)
(* scope, where there is no view nothing was written yet, and doubt stays within *)
(* the scopes that were rolled back until a callback is run again.               *)
(***************************************************************************)
EXTENDS AlarmCache, SequenceTheorems, TLAPS

\* What storage shows scope i of m, as its children found it; 0 is outside.
Shown(m, d, i) == IF i < Len(m.scopes) THEN m.scopes[i + 1].saved ELSE d

Mem == [enabled : BOOLEAN, stale : BOOLEAN, committed : Cache, roots : {0, 1},
        scopes : Seq(Scope), held : BOOLEAN]

Viewed(m, i) == m.scopes[i].view # NoView

\* The scopes with a view are the outermost v, of the one root that counts as active.
ViewedTo(m, v) ==
    /\ \A i \in 1..Len(m.scopes) : Viewed(m, i) <=> i <= v
    /\ \A i \in 1..v : m.scopes[i].tracked /\ (m.scopes[i].root <=> i = 1)
    /\ v > 0 => m.roots = 1

\* Below a tracked scope are its parents, up to a root; a second root needs an active one.
Stacked(m) ==
    \A i \in 1..Len(m.scopes) :
        /\ m.scopes[i].root => m.scopes[i].tracked /\ (i > 1 => m.roots = 1)
        /\ m.scopes[i].tracked =>
             /\ m.scopes[i].cacheable
             /\ \E r \in 1..i : \A j \in r..i :
                  m.scopes[j].tracked /\ (m.scopes[j].root <=> j = r)

\* The active root has a view.
Active(m) == m.roots = 1 => Len(m.scopes) > 0 /\ Viewed(m, 1)

\* Where there is no view nothing was written.
Unwritten(m, d) ==
    \A i \in 1..Len(m.scopes) :
        ~ Viewed(m, i) => \A j \in i..Len(m.scopes) : Shown(m, d, j) = m.scopes[i].saved

Truthful(m, d, r) ==
    /\ Agrees(m.committed, Shown(m, d, 0))
    /\ \A i \in 1..Len(m.scopes) :
         Viewed(m, i) => Agrees(m.scopes[i].view, Shown(m, d, i))
    /\ m.held /\ r # NoReader => r.revision = Shown(m, d, 0).rows[r.alarm]

\* A view in doubt is one of a rolled back scope, or of one within it.
Confined(m) ==
    m.enabled /\ ~ m.stale =>
      /\ ~ m.committed.doubted
      /\ \A i \in 1..Len(m.scopes) :
           Viewed(m, i) /\ m.scopes[i].view.doubted
             => \E j \in 1..i : m.scopes[j].rolledBack

Typed(m, d, r) == m \in Mem /\ Len(m.scopes) <= MaxDepth /\ d \in Contents /\ r \in Readers

Sound(m, d, r) ==
    /\ Typed(m, d, r)
    /\ \E v \in 0..Len(m.scopes) : ViewedTo(m, v)
    /\ m.enabled => Stacked(m) /\ Active(m) /\ Unwritten(m, d)
    /\ m.enabled /\ ~ m.stale => Truthful(m, d, r)

\* Nothing happened but nested transactions.
Calm(m) ==
    /\ m.enabled /\ ~ m.stale
    /\ \A i \in 1..Len(m.scopes) : m.scopes[i].tracked /\ (m.scopes[i].root <=> i = 1)

IInv ==
    /\ Sound(mem, db, reader)
    /\ deleting \in BOOLEAN /\ surprised \in BOOLEAN
    /\ writes \in 0..MaxWrites /\ deletes \in 0..MaxDeletes
    /\ repeats \in 0..MaxRepeats
    /\ ~ surprised => ~ deleting /\ Calm(mem)
    /\ repeats = 0 => Confined(mem)

Constants == CacheAssumption /\ MarksAssumption

----------------------------------------------------------------------------

LEMMA FunctionsAreSequences ==
    ASSUME NEW T, NEW len \in Nat, NEW f \in [1..len -> T]
    PROVE  f \in Seq(T) /\ Len(f) = len
<1>1. f \in Seq(T)
  BY SeqDef
<1>2. Len(f) \in Nat /\ 1..Len(f) = 1..len
  BY <1>1, LenProperties
<1>3. QED
  BY <1>2, <1>1

LEMMA RememberedAgrees ==
    ASSUME NEW cache \in Cache, NEW a \in RowIds, NEW revision \in RowRevisions,
           NEW d \in Contents, Agrees(cache, d), Constants
    PROVE  /\ Remembered(cache, a, revision) \in Cache
           /\ Agrees(Remembered(cache, a, revision), [d EXCEPT !.rows[a] = revision])
           /\ Remembered(cache, a, revision).doubted = cache.doubted
<1> DEFINE oldest == CHOOSE b \in Cached(cache) : TRUE
<1>1. 0 \in RowRevisions
  BY DEF RowRevisions, Constants, CacheAssumption
<1>2. CASE a \in Oversized
  BY <1>1, <1>2 DEF Remembered, Cache, Contents, Agrees
<1>3. CASE a \notin Oversized /\ (a \in Cached(cache) \/ Cardinality(Cached(cache)) < MaxCached)
  BY <1>3 DEF Remembered, Cache, Contents, Agrees
<1>4. CASE a \notin Oversized /\ ~ (a \in Cached(cache) \/ Cardinality(Cached(cache)) < MaxCached)
  <2>1. Remembered(cache, a, revision) =
          [cache EXCEPT !.rows[a] = revision, !.rows[oldest] = 0, !.complete = FALSE]
    BY <1>4 DEF Remembered
  <2> DEFINE rows == [cache.rows EXCEPT ![a] = revision]
             kept == [rows EXCEPT ![oldest] = 0]
  <2>2. rows \in [RowIds -> RowRevisions] /\ kept \in [RowIds -> RowRevisions]
    BY <1>1 DEF Cache
  <2>3. \A b \in RowIds : kept[b] \in {0, rows[b]}
    BY <2>2
  <2>4. Remembered(cache, a, revision) = [cache EXCEPT !.rows = kept, !.complete = FALSE]
    BY <2>1 DEF Cache
  <2>5. QED
    BY <2>2, <2>3, <2>4 DEF Cache, Contents, Agrees
<1>5. QED
  BY <1>2, <1>3, <1>4

LEMMA MaxDepthIsNat == ASSUME Constants PROVE MaxDepth \in Nat \ {0}
BY DEF Constants, CacheAssumption

LEMMA SomeCaches ==
    ASSUME Constants, NEW schema \in BOOLEAN
    PROVE  EmptyCache(schema) \in Cache /\ ~ EmptyCache(schema).doubted
BY DEF EmptyCache, Cache, NoRows, RowRevisions, Constants, CacheAssumption

\* An empty cache says nothing.
LEMMA AgreeEmpty ==
    ASSUME NEW schema \in BOOLEAN, NEW d, schema => d.table
    PROVE  Agrees(EmptyCache(schema), d)
BY DEF Agrees, EmptyCache, NoRows

\* What a root leaves behind in place of the committed cache it takes.
LEMMA LeftEmpty ==
    ASSUME Constants, NEW source \in Cache, NEW d, Agrees(source, d),
           NEW left, left = [EmptyCache(source.schema) EXCEPT !.doubted = source.doubted]
    PROVE  left \in Cache /\ left.doubted = source.doubted /\ Agrees(left, d)
<1>1. EmptyCache(source.schema) \in Cache
  BY SomeCaches DEF Cache
<1>2. left \in Cache /\ left.doubted = source.doubted
  BY <1>1 DEF Cache
<1>3. /\ left.schema = source.schema /\ left.complete = FALSE /\ left.rows = NoRows
      /\ left.native = Unread
  BY DEF EmptyCache
<1>4. QED
  BY <1>2, <1>3 DEF Agrees, NoRows

\* Scopes of which only views and freshness changed.
SameButViews(n, m) ==
    /\ Len(n.scopes) = Len(m.scopes)
    /\ \A i \in 1..Len(m.scopes) :
         n.scopes[i] = [m.scopes[i] EXCEPT !.view = n.scopes[i].view, !.fresh = n.scopes[i].fresh]

LEMMA FromTheRoot ==
    ASSUME Constants, NEW m \in Mem, Stacked(m), NEW v \in 0..Len(m.scopes), ViewedTo(m, v),
           NEW i \in 1..Len(m.scopes), m.scopes[i].tracked,
           NEW chain, chain = Chain(m, i)
    PROVE  \/ /\ m.roots = 1
              /\ \A j \in chain : j \in 1..i /\ ~ Viewed(m, j)
              /\ \E j \in chain : j > 1 /\ m.scopes[j].root
           \/ /\ chain = 1..i /\ m.scopes[1].root /\ \A j \in 1..i : m.scopes[j].tracked
              /\ \A j \in 2..i : ~ m.scopes[j].root
<1> DEFINE IsRoot(r) == m.scopes[r].root /\ \A j \in r + 1..i : ~ m.scopes[j].root
           root == CHOOSE r \in 1..i : IsRoot(r)
<1>1. Len(m.scopes) \in Nat
  BY LenProperties DEF Mem
<1>2. PICK r \in 1..i : \A j \in r..i : m.scopes[j].tracked /\ (m.scopes[j].root <=> j = r)
  BY DEF Stacked
<1>3. IsRoot(r)
  BY <1>1, <1>2
<1>4. root \in 1..i /\ IsRoot(root)
  BY <1>3
<1>5. root = r
  BY <1>1, <1>2, <1>4
<1>6. chain = root..i
  BY <1>1, <1>2, <1>5 DEF Chain
<1>7. CASE r = 1
  BY <1>1, <1>2, <1>5, <1>6, <1>7
<1>8. CASE r > 1
  <2>1. m.roots = 1
    BY <1>1, <1>2, <1>8 DEF Stacked
  <2>2. v < r
    BY <1>1, <1>2, <1>8 DEF ViewedTo
  <2>3. chain = r..i /\ r \in chain /\ m.scopes[r].root
    BY <1>1, <1>2, <1>5, <1>6
  <2>4. \A j \in chain : j \in 1..Len(m.scopes) /\ j \in 1..i /\ ~ (j <= v)
    BY <1>1, <1>2, <2>2, <2>3
  <2>5. \A j \in chain : ~ Viewed(m, j)
    BY <2>4 DEF ViewedTo
  <2>6. QED
    BY <1>8, <2>1, <2>3, <2>4, <2>5
<1>9. QED
  BY <1>7, <1>8

LEMMA SameScopes ==
    \A scope \in Scope : scope = [scope EXCEPT !.view = scope.view, !.fresh = scope.fresh]
BY DEF Scope

\* What changes in a scope keeps it one.
LEMMA StaysScope ==
    ASSUME NEW scope \in Scope
    PROVE  /\ [scope EXCEPT !.rolledBack = TRUE] \in Scope
           /\ \A view \in Cache : [scope EXCEPT !.view = view, !.fresh = TRUE] \in Scope
<1>1. [scope EXCEPT !.rolledBack = TRUE] \in Scope
  BY DEF Scope
<1>2. \A view \in Cache : [scope EXCEPT !.view = view, !.fresh = TRUE] \in Scope
  BY DEF Scope
<1>3. QED
  BY <1>1, <1>2

LEMMA SameFields ==
    ASSUME NEW n, NEW m, SameButViews(n, m), m.scopes \in [1..Len(m.scopes) -> Scope],
           NEW i \in 1..Len(m.scopes)
    PROVE  /\ n.scopes[i].tracked = m.scopes[i].tracked /\ n.scopes[i].root = m.scopes[i].root
           /\ n.scopes[i].saved = m.scopes[i].saved
           /\ n.scopes[i].cacheable = m.scopes[i].cacheable
           /\ n.scopes[i].rolledBack = m.scopes[i].rolledBack
<1> DEFINE view == n.scopes[i].view
           fresh == n.scopes[i].fresh
<1>1. m.scopes[i] \in Scope /\ n.scopes[i] = [m.scopes[i] EXCEPT !.view = view, !.fresh = fresh]
  BY DEF SameButViews
<1> HIDE DEF view, fresh
<1>2. QED
  BY <1>1 DEF Scope

\* A view that is in no scope yet cannot disturb what the others say.
LEMMA Refreshing ==
    ASSUME Constants, NEW m, NEW d, NEW r, Sound(m, d, r), NEW n, n = Refreshed(m)
    PROVE  /\ Typed(n, d, r) /\ SameButViews(n, m) /\ ~ n.stale
           /\ n.enabled = m.enabled /\ n.roots = m.roots
           /\ \E v \in 0..Len(n.scopes) : ViewedTo(n, v)
           /\ Confined(m) => Confined(n)
           /\ n.enabled => /\ Stacked(n)
                           /\ \/ Sound(n, d, r)
                              \/ n.roots = 1 /\ \A i \in 1..Len(n.scopes) : ~ Viewed(n, i)
<1>0. m \in Mem /\ m.scopes \in Seq(Scope) /\ DOMAIN m.scopes = 1..Len(m.scopes)
      /\ Len(m.scopes) \in Nat /\ m.scopes \in [1..Len(m.scopes) -> Scope]
  BY LenProperties DEF Sound, Typed, Mem
<1>1. CASE ~ m.stale
  <2>1. n = m
    BY <1>1 DEF Refreshed
  <2>2. SameButViews(n, m)
    BY <1>0, <2>1, SameScopes DEF SameButViews
  <2>3. QED
    BY <1>1, <2>1, <2>2 DEF Sound, Typed
<1>2. CASE m.stale
  <2> DEFINE scopes == [i \in DOMAIN m.scopes |-> [m.scopes[i] EXCEPT !.view = NoView]]
  <2>2. scopes \in [1..Len(m.scopes) -> Scope]
    BY <1>0 DEF Scope
  <2>3. scopes \in Seq(Scope)
    BY <1>0, <2>2, FunctionsAreSequences
  <2>4. Len(scopes) = Len(m.scopes)
    BY <1>0, <2>2, FunctionsAreSequences
  <2>5. n = [m EXCEPT !.stale = FALSE, !.held = FALSE, !.committed = EmptyCache(FALSE),
                      !.scopes = scopes]
    BY <1>2 DEF Refreshed
  <2>6. n \in Mem
    BY <1>0, <2>3, <2>5, SomeCaches DEF Mem
  <2>7. /\ n.stale = FALSE /\ n.held = FALSE /\ n.committed = EmptyCache(FALSE)
        /\ n.scopes = scopes /\ n.enabled = m.enabled /\ n.roots = m.roots
    BY <1>0, <2>5 DEF Mem
  <2>8. \A i \in 1..Len(m.scopes) : n.scopes[i] = [m.scopes[i] EXCEPT !.view = NoView]
    BY <1>0, <2>7
  <2>9. \A i \in 1..Len(m.scopes) :
          /\ n.scopes[i].view = NoView /\ n.scopes[i].fresh = m.scopes[i].fresh
          /\ n.scopes[i].tracked = m.scopes[i].tracked /\ n.scopes[i].root = m.scopes[i].root
          /\ n.scopes[i].saved = m.scopes[i].saved
          /\ n.scopes[i].cacheable = m.scopes[i].cacheable
          /\ n.scopes[i].rolledBack = m.scopes[i].rolledBack
    <3> SUFFICES ASSUME NEW i \in 1..Len(m.scopes)
                 PROVE  /\ n.scopes[i].view = NoView /\ n.scopes[i].fresh = m.scopes[i].fresh
                        /\ n.scopes[i].tracked = m.scopes[i].tracked
                        /\ n.scopes[i].root = m.scopes[i].root
                        /\ n.scopes[i].saved = m.scopes[i].saved
                        /\ n.scopes[i].cacheable = m.scopes[i].cacheable
                        /\ n.scopes[i].rolledBack = m.scopes[i].rolledBack
      OBVIOUS
    <3>1. m.scopes[i] \in Scope /\ n.scopes[i] = [m.scopes[i] EXCEPT !.view = NoView]
      BY <1>0, <2>8
    <3>2. QED
      BY <3>1 DEF Scope
  <2>10. SameButViews(n, m)
    BY <1>0, <2>4, <2>7, <2>8, <2>9 DEF SameButViews, Scope
  <2>11. Typed(n, d, r)
    BY <2>4, <2>6, <2>7 DEF Sound, Typed
  <2>12. Confined(n)
    <3>1. ~ n.committed.doubted
      BY <2>7, SomeCaches
    <3>2. \A i \in 1..Len(n.scopes) : ~ Viewed(n, i)
      BY <2>4, <2>7, <2>9 DEF Viewed
    <3>3. QED
      BY <3>1, <3>2 DEF Confined
  <2>13. ViewedTo(n, 0)
    BY <1>0, <2>4, <2>7, <2>9 DEF ViewedTo, Viewed
  <2>14. n.enabled => Stacked(n)
    BY <1>0, <2>4, <2>7, <2>9 DEF Sound, Stacked
  <2>15. ASSUME n.enabled, n.roots = 0
         PROVE  Sound(n, d, r)
    <3>1. \A i \in 1..Len(m.scopes) : ~ Viewed(m, i)
      BY <1>0, <2>7, <2>15 DEF Sound, ViewedTo
    <3>2. Unwritten(n, d)
      BY <1>0, <2>4, <2>7, <2>9, <2>15, <3>1 DEF Sound, Unwritten, Shown
    <3>3. Truthful(n, d, r)
      <4>1. Agrees(n.committed, Shown(n, d, 0))
        BY <2>7, AgreeEmpty
      <4>2. \A i \in 1..Len(n.scopes) : ~ Viewed(n, i)
        BY <2>4, <2>7, <2>9 DEF Viewed
      <4>3. ~ n.held
        BY <2>7
      <4>4. QED
        BY <4>1, <4>2, <4>3, Zenon DEF Truthful
    <3>4. QED
      BY <2>4, <2>7, <2>11, <2>12, <2>13, <2>14, <2>15, <3>2, <3>3, <1>0 DEF Sound, Active
  <2>16. QED
    BY <1>0, <2>4, <2>6, <2>7, <2>9, <2>10, <2>11, <2>12, <2>13, <2>14, <2>15 DEF Viewed, Mem
<1>3. QED
  BY <1>0, <1>1, <1>2 DEF Mem

\* An access in the innermost scope turns the cache off, or every scope has a view of
\* what storage shows it.
LEMMA Observing ==
    ASSUME Constants, NEW m, NEW d, NEW r, Typed(m, d, r), m.enabled, ~ m.stale,
           NEW v \in 0..Len(m.scopes), ViewedTo(m, v), Stacked(m),
           \/ Sound(m, d, r)
           \/ m.roots = 1 /\ \A i \in 1..Len(m.scopes) : ~ Viewed(m, i),
           Len(m.scopes) > 0, NEW i, i = Len(m.scopes), m.scopes[i].tracked,
           NEW n, n = Observed(m, i)
    PROVE  \/ n = Disabled(m) /\ \E j \in 2..Len(m.scopes) : m.scopes[j].root
           \/ n = Disabled(m) /\ m.roots = 1 /\ ~ Viewed(m, 1)
           \/ /\ Sound(n, d, r) /\ SameButViews(n, m) /\ n.enabled /\ ~ n.stale /\ Viewed(n, i)
              /\ Confined(m) => Confined(n)
<1> DEFINE chain == Chain(m, i)
           new == {j \in chain : m.scopes[j].view = NoView}
           atRoot == \E j \in new : m.scopes[j].root
           last == CHOOSE j \in chain \ new : \A k \in chain \ new : k <= j
           source == IF atRoot THEN m.committed ELSE m.scopes[last].view
           scopes == [j \in DOMAIN m.scopes |->
                        IF j \in new THEN [m.scopes[j] EXCEPT !.view = source, !.fresh = TRUE]
                        ELSE m.scopes[j]]
           viewed == [m EXCEPT !.scopes = scopes]
<1>0. m \in Mem /\ m.scopes \in Seq(Scope) /\ DOMAIN m.scopes = 1..Len(m.scopes)
      /\ Len(m.scopes) \in Nat /\ m.scopes \in [1..Len(m.scopes) -> Scope]
  BY LenProperties, SMTT(30) DEF Typed, Mem
<1>1. n = IF \E j \in chain : ~ m.scopes[j].cacheable THEN Disabled(m)
          ELSE IF new = {} THEN m
          ELSE IF ~ atRoot THEN viewed
          ELSE IF Overlaps(m) THEN Disabled(m)
          ELSE [viewed EXCEPT !.roots = @ + 1, !.held = FALSE,
                              !.committed = [EmptyCache(source.schema) EXCEPT
                                               !.doubted = source.doubted]]
  BY DEF Observed
<1> HIDE DEF chain, new, atRoot, last, source, scopes, viewed
<1>2. \/ /\ m.roots = 1 /\ \A j \in chain : j \in 1..i /\ ~ Viewed(m, j)
         /\ \E j \in chain : j > 1 /\ m.scopes[j].root
      \/ /\ chain = 1..i /\ m.scopes[1].root /\ \A j \in 1..i : m.scopes[j].tracked
         /\ \A j \in 2..i : ~ m.scopes[j].root
  <2>1. i \in 1..Len(m.scopes)
    BY <1>0
  <2>2. QED
    BY <1>0, <2>1, FromTheRoot DEF chain
<1>3. CASE /\ m.roots = 1 /\ \A j \in chain : j \in 1..i /\ ~ Viewed(m, j)
           /\ \E j \in chain : j > 1 /\ m.scopes[j].root
  <2>1. new = chain /\ atRoot /\ Overlaps(m)
    BY <1>3 DEF Viewed, Overlaps, new, atRoot
  <2>2. n = Disabled(m)
    BY <1>1, <1>3, <2>1
  <2>3. QED
    BY <1>0, <1>3, <2>2
<1>4. CASE /\ chain = 1..i /\ m.scopes[1].root /\ \A j \in 1..i : m.scopes[j].tracked
           /\ \A j \in 2..i : ~ m.scopes[j].root
  <2>1. \A j \in chain : m.scopes[j].cacheable
    BY <1>0, <1>4 DEF Stacked
  <2>2. new = {j \in 1..i : v < j}
    BY <1>0, <1>4 DEF ViewedTo, Viewed, new
  <2>3. CASE m.roots = 1 /\ ~ Viewed(m, 1)
    <3>1. 1 \in new /\ atRoot /\ Overlaps(m)
      BY <1>0, <1>4, <2>3 DEF Viewed, Overlaps, new, atRoot
    <3>2. QED
      BY <1>1, <2>1, <2>3, <3>1
  <2>4. CASE v = i
    <3>1. n = m
      <4>1. new = {}
        BY <1>0, <2>2, <2>4
      <4>2. QED
        BY <1>1, <2>1, <4>1
    <3>2. Viewed(m, 1) /\ Viewed(m, i)
      BY <1>0, <2>4 DEF ViewedTo
    <3>3. SameButViews(m, m)
      BY <1>0, SameScopes DEF SameButViews
    <3>4. Sound(m, d, r)
      BY <1>0, <3>2
    <3>5. QED
      BY <3>1, <3>2, <3>3, <3>4
  <2>5. CASE v < i /\ (m.roots = 1 => Viewed(m, 1))
    <3>1. Sound(m, d, r)
      BY <1>0, <2>5
    <3>2. m.enabled /\ ~ m.stale /\ Unwritten(m, d) /\ Truthful(m, d, r)
      BY <3>1 DEF Sound
    <3>3. /\ source \in Cache /\ Agrees(source, Shown(m, d, v)) /\ (atRoot <=> v = 0)
          /\ source = IF v = 0 THEN m.committed ELSE m.scopes[v].view
      <4>1. CASE v = 0
        <5>1. 1 \in new /\ atRoot
          BY <1>0, <1>4, <2>2, <4>1 DEF atRoot
        <5>2. source = m.committed
          BY <5>1 DEF source
        <5>3. QED
          BY <1>0, <3>2, <4>1, <5>1, <5>2 DEF Mem, Truthful
      <4>2. CASE v > 0
        <5>1. ~ atRoot
          BY <1>0, <1>4, <2>2, <4>2 DEF atRoot
        <5>2. chain \ new = 1..v
          BY <1>0, <1>4, <2>2
        <5>3. last \in 1..v /\ \A k \in 1..v : k <= last
          <6>1. v \in 1..v /\ \A k \in 1..v : k <= v
            BY <1>0, <4>2
          <6>2. QED
            BY <5>2, <6>1 DEF last
        <5>4. last = v
          BY <1>0, <4>2, <5>3
        <5>5. source = m.scopes[v].view
          BY <5>1, <5>4 DEF source
        <5>6. Viewed(m, v) /\ m.scopes[v] \in Scope
          BY <1>0, <2>5, <4>2 DEF ViewedTo
        <5>7. QED
          BY <1>0, <3>2, <4>2, <5>1, <5>5, <5>6 DEF Scope, Viewed, Truthful
      <4>3. QED
        BY <1>0, <4>1, <4>2
    <3>4. /\ scopes \in Seq(Scope) /\ Len(scopes) = Len(m.scopes)
          /\ \A j \in 1..Len(m.scopes) :
            /\ scopes[j] = [m.scopes[j] EXCEPT !.view = scopes[j].view, !.fresh = scopes[j].fresh]
            /\ scopes[j].tracked = m.scopes[j].tracked
            /\ scopes[j].root = m.scopes[j].root
            /\ scopes[j].saved = m.scopes[j].saved
            /\ scopes[j].cacheable = m.scopes[j].cacheable
            /\ scopes[j].rolledBack = m.scopes[j].rolledBack
            /\ scopes[j].view = IF j <= v THEN m.scopes[j].view ELSE source
      <4>1. scopes = [j \in 1..Len(m.scopes) |->
                        IF j \in new THEN [m.scopes[j] EXCEPT !.view = source, !.fresh = TRUE]
                        ELSE m.scopes[j]]
        BY <1>0, Zenon DEF scopes
      <4>9. \A j \in 1..Len(m.scopes) : j \in new <=> ~ (j <= v)
        BY <1>0, <2>2
      <4>2. scopes \in [1..Len(m.scopes) -> Scope]
        <5>1. \A j \in 1..Len(m.scopes) :
                m.scopes[j] \in Scope /\ [m.scopes[j] EXCEPT !.view = source, !.fresh = TRUE] \in Scope
          BY <1>0, <3>3, StaysScope
        <5>2. QED
          BY <4>1, <5>1
      <4>3. scopes \in Seq(Scope) /\ Len(scopes) = Len(m.scopes)
        BY <1>0, <4>2, FunctionsAreSequences, SMTT(30)
      <4> SUFFICES ASSUME NEW j \in 1..Len(m.scopes)
                   PROVE /\ scopes[j] = [m.scopes[j] EXCEPT !.view = scopes[j].view,
                                                             !.fresh = scopes[j].fresh]
                         /\ scopes[j].tracked = m.scopes[j].tracked
                         /\ scopes[j].root = m.scopes[j].root
                         /\ scopes[j].saved = m.scopes[j].saved
                         /\ scopes[j].cacheable = m.scopes[j].cacheable
                         /\ scopes[j].rolledBack = m.scopes[j].rolledBack
                         /\ scopes[j].view = IF j <= v THEN m.scopes[j].view ELSE source
        BY <4>3
      <4>4. m.scopes[j] \in Scope
        BY <1>0
      <4>5. CASE j <= v
        <5>1. scopes[j] = m.scopes[j]
          BY <1>0, <4>1, <4>9, <4>5
        <5>2. QED
          BY <4>4, <4>5, <5>1, SameScopes
      <4>6. CASE ~ (j <= v)
        <5>1. scopes[j] = [m.scopes[j] EXCEPT !.view = source, !.fresh = TRUE]
          BY <1>0, <4>1, <4>9, <4>6
        <5>2. QED
          BY <4>4, <4>6, <5>1 DEF Scope
      <4>7. QED
        BY <4>5, <4>6
    <3>5. /\ n.scopes = scopes /\ n.enabled /\ ~ n.stale /\ n.roots = 1 /\ n \in Mem
          /\ Agrees(n.committed, Shown(m, d, 0)) /\ (n.held => m.held)
          /\ ~ m.committed.doubted => ~ n.committed.doubted
      <4>1. viewed \in Mem /\ viewed.scopes = scopes /\ viewed.roots = m.roots /\ viewed.held = m.held
            /\ viewed.committed = m.committed /\ viewed.enabled = m.enabled /\ viewed.stale = m.stale
        BY <1>0, <3>4 DEF Mem, viewed
      <4>2. new # {}
        BY <1>0, <2>2, <2>5
      <4>3. CASE v = 0
        <5>1. m.roots = 0 /\ ~ Overlaps(m)
          BY <1>0, <2>5, <4>3 DEF ViewedTo, Mem, Overlaps
        <5>2. n = [viewed EXCEPT !.roots = @ + 1, !.held = FALSE,
                                 !.committed = [EmptyCache(source.schema) EXCEPT
                                                  !.doubted = source.doubted]]
          BY <1>1, <2>1, <3>3, <4>2, <4>3, <5>1
        <5> DEFINE empty == [EmptyCache(source.schema) EXCEPT !.doubted = source.doubted]
        <5>3. source = m.committed /\ Agrees(source, Shown(m, d, 0))
          BY <3>3, <4>3
        <5>4. empty \in Cache /\ empty.doubted = m.committed.doubted /\ Agrees(empty, Shown(m, d, 0))
          BY <3>3, <5>3, LeftEmpty
        <5>5. QED
          <6>1. /\ n.scopes = viewed.scopes /\ n.enabled = viewed.enabled /\ n.stale = viewed.stale
                /\ n.roots = 1 /\ n.held = FALSE /\ n.committed = empty
                /\ n \in Mem
            <7>1. viewed.roots + 1 = 1
              BY <4>1, <5>1
            <7>2. n = [viewed EXCEPT !.roots = 1, !.held = FALSE, !.committed = empty]
              BY <5>2, <7>1
            <7>3. empty \in Cache
              BY <5>4
            <7> HIDE DEF empty
            <7>4. QED
              BY <4>1, <7>2, <7>3 DEF Mem
          <6>2. QED
            BY <3>2, <4>1, <5>4, <6>1
      <4>4. CASE v > 0
        <5>1. n = viewed
          BY <1>1, <2>1, <3>3, <4>2, <4>4
        <5>2. m.roots = 1 /\ Agrees(m.committed, Shown(m, d, 0))
          BY <3>2, <4>4 DEF ViewedTo, Truthful
        <5>3. QED
          BY <3>2, <4>1, <5>1, <5>2
      <4>5. QED
        BY <1>0, <4>3, <4>4
    <3>6. SameButViews(n, m) /\ Typed(n, d, r)
      <4>1. SameButViews(n, m)
        BY <3>4, <3>5, Zenon DEF SameButViews
      <4>2. QED
        BY <3>4, <3>5, <4>1 DEF Typed
    <3>7. \A j \in 1..Len(m.scopes) :
            /\ n.scopes[j].tracked = m.scopes[j].tracked
            /\ n.scopes[j].root = m.scopes[j].root
            /\ n.scopes[j].saved = m.scopes[j].saved
            /\ n.scopes[j].cacheable = m.scopes[j].cacheable
            /\ n.scopes[j].rolledBack = m.scopes[j].rolledBack
            /\ n.scopes[j].view = IF j <= v THEN m.scopes[j].view ELSE source
      BY <3>4, <3>5, Zenon
    <3>8. Len(n.scopes) = Len(m.scopes)
      BY <3>4, <3>5
    <3>9. \A j \in 1..Len(n.scopes) : Viewed(n, j)
      <4>1. source # NoView
        BY <3>3 DEF Constants, MarksAssumption
      <4>2. QED
        BY <1>0, <3>7, <3>8, <4>1 DEF Viewed, ViewedTo
    <3>10. ViewedTo(n, i) /\ Viewed(n, i)
      BY <1>0, <1>4, <3>7, <3>8, <3>5, <3>9 DEF ViewedTo
    <3>11. \A j \in 0..Len(n.scopes) : Shown(n, d, j) = Shown(m, d, j)
      BY <1>0, <3>7, <3>8, <3>5 DEF Shown
    <3>12. Confined(m) => Confined(n)
      <4> SUFFICES ASSUME Confined(m) PROVE Confined(n)
        OBVIOUS
      <4>1. /\ ~ m.committed.doubted
            /\ \A j \in 1..Len(m.scopes) :
                 Viewed(m, j) /\ m.scopes[j].view.doubted
                   => \E k \in 1..j : m.scopes[k].rolledBack
        BY <2>5, <3>2 DEF Confined
      <4>2. source.doubted => v > 0 /\ \E k \in 1..v : m.scopes[k].rolledBack
        <5>1. CASE v = 0
          BY <3>3, <4>1, <5>1
        <5>2. CASE v > 0
          BY <1>0, <3>3, <4>1, <5>2 DEF ViewedTo
        <5>3. QED
          BY <1>0, <5>1, <5>2
      <4>3. ~ n.committed.doubted
        BY <3>5, <4>1
      <4>4. ASSUME NEW j \in 1..Len(n.scopes), n.scopes[j].view.doubted
            PROVE  \E k \in 1..j : n.scopes[k].rolledBack
        <5>1. CASE j <= v
          <6>1. Viewed(m, j) /\ m.scopes[j].view.doubted
            BY <1>0, <3>7, <3>8, <4>4, <5>1 DEF ViewedTo
          <6>2. QED
            BY <1>0, <3>7, <3>8, <4>1, <6>1
        <5>2. CASE v < j
          BY <1>0, <3>7, <3>8, <4>2, <4>4, <5>2
        <5>3. QED
          BY <1>0, <3>8, <5>1, <5>2
      <4>5. QED
        BY <4>3, <4>4 DEF Confined
    <3>13. Stacked(n)
      <4>1. \A j \in 1..Len(m.scopes) : m.scopes[j].root \in BOOLEAN
        BY <1>0 DEF Scope
      <4> SUFFICES ASSUME NEW k \in 1..Len(m.scopes)
                   PROVE  /\ n.scopes[k].root => n.scopes[k].tracked /\ (k > 1 => n.roots = 1)
                          /\ n.scopes[k].tracked =>
                               /\ n.scopes[k].cacheable
                               /\ \E x \in 1..k : \A j \in x..k :
                                    n.scopes[j].tracked /\ (n.scopes[j].root <=> j = x)
        <5>1. Stacked(n) <=> \A k \in 1..Len(n.scopes) :
                          /\ n.scopes[k].root => n.scopes[k].tracked /\ (k > 1 => n.roots = 1)
                          /\ n.scopes[k].tracked =>
                               /\ n.scopes[k].cacheable
                               /\ \E x \in 1..k : \A j \in x..k :
                                    n.scopes[j].tracked /\ (n.scopes[j].root <=> j = x)
          BY DEF Stacked
        <5>2. QED
          BY <3>8, <5>1
      <4>2. \A j \in 1..k : n.scopes[j].tracked /\ (n.scopes[j].root <=> j = 1)
        BY <1>0, <1>4, <3>7, <4>1
      <4>3. 1 \in 1..k
        BY <1>0
      <4>4. QED
        BY <3>7, <3>5, <4>2, <4>3 DEF Stacked
    <3>14. Active(n) /\ Unwritten(n, d)
      BY <1>0, <3>7, <3>8, <3>5, <3>9 DEF Active, Unwritten
    <3>15. Truthful(n, d, r)
      <4>1. \A j \in 1..Len(m.scopes) : v < j => Shown(m, d, j) = Shown(m, d, v)
        <5>1. Shown(m, d, v) = m.scopes[v + 1].saved /\ v + 1 \in 1..Len(m.scopes) /\ ~ Viewed(m, v + 1)
          BY <1>0, <2>5 DEF Shown, ViewedTo
        <5>2. QED
          BY <1>0, <3>2, <5>1 DEF Unwritten
      <4>2. \A j \in 1..Len(m.scopes) : Agrees(n.scopes[j].view, Shown(m, d, j))
        <5> SUFFICES ASSUME NEW j \in 1..Len(m.scopes)
                     PROVE  Agrees(n.scopes[j].view, Shown(m, d, j))
          OBVIOUS
        <5>1. CASE j <= v
          BY <3>2, <3>7, <5>1 DEF Truthful, ViewedTo
        <5>2. CASE v < j
          <6>1. n.scopes[j].view = source
            BY <1>0, <3>7, <5>2
          <6>2. QED
            BY <3>3, <4>1, <5>2, <6>1
        <5>3. QED
          BY <1>0, <5>1, <5>2
      <4>3. n.held /\ r # NoReader => r.revision = Shown(m, d, 0).rows[r.alarm]
        BY <3>2, <3>5 DEF Truthful
      <4>4. QED
        BY <1>0, <3>7, <3>8, <3>5, <3>11, <4>2, <4>3 DEF Truthful
    <3>16. QED
      BY <1>0, <3>7, <3>8, <3>5, <3>6, <3>10, <3>12, <3>13, <3>14, <3>15 DEF Sound
  <2>6. QED
    BY <1>0, <2>3, <2>4, <2>5
<1>5. QED
  BY <1>2, <1>3, <1>4

\* An access by currentCache in a transaction: the cache is off, or the innermost scope
\* has a view that agrees with storage.
LEMMA Accessing ==
    ASSUME Constants, IInv, InTransaction, NEW m, m = Accessed(Top)
    PROVE  /\ Typed(m, db, reader) /\ Top \in Nat \ {0} /\ Len(m.scopes) = Top
           /\ \E v \in 0..Top : ViewedTo(m, v)
           /\ ~ surprised => m.enabled
           /\ m.enabled => /\ Sound(m, db, reader) /\ ~ m.stale /\ Viewed(m, Top)
                           /\ m.scopes[Top].view \in Cache /\ Agrees(m.scopes[Top].view, db)
                           /\ Calm(mem) => Calm(m)
           /\ Confined(mem) => Confined(m)
<1> DEFINE n == Refreshed(mem)
<1>0. mem \in Mem /\ mem.scopes \in Seq(Scope) /\ Len(mem.scopes) \in Nat
      /\ mem.scopes \in [1..Len(mem.scopes) -> Scope]
  BY LenProperties DEF IInv, Sound, Typed, Mem
<1>1. Top \in Nat \ {0} /\ Top = Len(mem.scopes)
  BY <1>0 DEF InTransaction, Top
<1>4. /\ Typed(n, db, reader) /\ SameButViews(n, mem) /\ ~ n.stale
      /\ n.enabled = mem.enabled /\ n.roots = mem.roots
      /\ Confined(mem) => Confined(n)
      /\ \E v \in 0..Len(n.scopes) : ViewedTo(n, v)
      /\ n.enabled => /\ Stacked(n)
                      /\ \/ Sound(n, db, reader)
                         \/ n.roots = 1 /\ \A i \in 1..Len(n.scopes) : ~ Viewed(n, i)
  BY Refreshing DEF IInv
<1>5. m = IF ~ n.enabled THEN n
          ELSE IF ~ n.scopes[Top].tracked THEN Disabled(n)
          ELSE Observed(n, Top)
  BY <1>1 DEF Accessed
<1>6. ~ mem.stale => n = mem
  BY DEF Refreshed
<1> HIDE DEF n
<1>7. PICK v \in 0..Top : ViewedTo(n, v)
  BY <1>1, <1>4 DEF SameButViews
<1>8. /\ Len(n.scopes) = Top
      /\ \A i \in 1..Top :
           /\ n.scopes[i].tracked = mem.scopes[i].tracked
           /\ n.scopes[i].root = mem.scopes[i].root
  <2>1. Len(n.scopes) = Top
    BY <1>1, <1>4 DEF SameButViews
  <2>2. \A i \in 1..Len(mem.scopes) :
           /\ n.scopes[i].tracked = mem.scopes[i].tracked
           /\ n.scopes[i].root = mem.scopes[i].root
    BY <1>0, <1>4, SameFields
  <2>3. QED
    BY <1>1, <2>1, <2>2
<1>9. /\ Typed(Disabled(n), db, reader) /\ Len(Disabled(n).scopes) = Top /\ ~ Disabled(n).enabled
      /\ ViewedTo(Disabled(n), v) /\ Confined(Disabled(n))
  <2>1. n \in Mem
    BY <1>4 DEF Typed
  <2>2. /\ Disabled(n) \in Mem /\ Disabled(n).scopes = n.scopes /\ Disabled(n).roots = n.roots
        /\ ~ Disabled(n).enabled
    BY <2>1 DEF Disabled, Mem
  <2>3. QED
    BY <1>4, <1>7, <1>8, <2>2 DEF Typed, ViewedTo, Viewed, Confined
<1>10. CASE ~ n.enabled
  <2>1. m = n /\ ~ m.enabled /\ surprised
    BY <1>4, <1>5, <1>10 DEF IInv, Calm
  <2>2. QED
    BY <1>1, <1>4, <1>7, <1>8, <2>1
<1>11. CASE n.enabled /\ ~ n.scopes[Top].tracked
  <2>1. m = Disabled(n) /\ surprised
    BY <1>1, <1>5, <1>8, <1>11 DEF IInv, Calm
  <2>2. QED
    BY <1>1, <1>9, <2>1
<1>12. CASE n.enabled /\ n.scopes[Top].tracked
  <2>1. m = Observed(n, Top)
    BY <1>5, <1>12
  <2>2. \/ m = Disabled(n) /\ \E j \in 2..Len(n.scopes) : n.scopes[j].root
        \/ m = Disabled(n) /\ n.roots = 1 /\ ~ Viewed(n, 1)
        \/ /\ Sound(m, db, reader) /\ SameButViews(m, n) /\ m.enabled /\ ~ m.stale
           /\ Viewed(m, Top) /\ (Confined(n) => Confined(m))
    BY <1>1, <1>4, <1>7, <1>8, <1>12, <2>1, Observing
  <2>3. CASE m = Disabled(n)
    <3>1. surprised
      <4>1. SUFFICES ASSUME ~ surprised PROVE FALSE
        OBVIOUS
      <4>2. Calm(mem) /\ n = mem
        BY <1>6, <4>1 DEF IInv, Calm
      <4>3. Active(mem)
        BY <4>2 DEF IInv, Sound, Calm
      <4>4. m.enabled \/ \E j \in 2..Top : mem.scopes[j].root
        BY <1>1, <1>8, <2>2, <4>2, <4>3 DEF Active
      <4>5. QED
        BY <1>1, <1>9, <2>3, <4>2, <4>4 DEF Calm
    <3>2. QED
      BY <1>1, <1>9, <2>3, <3>1
  <2>4. CASE /\ Sound(m, db, reader) /\ SameButViews(m, n) /\ m.enabled /\ ~ m.stale
             /\ Viewed(m, Top) /\ (Confined(n) => Confined(m))
    <3>1. Typed(m, db, reader) /\ m.scopes \in [1..Len(m.scopes) -> Scope] /\ Len(m.scopes) = Top
      BY <1>8, <2>4, LenProperties DEF Sound, Typed, Mem, SameButViews
    <3>2. n.scopes \in [1..Len(n.scopes) -> Scope]
      BY <1>4, LenProperties DEF Typed, Mem
    <3>3. \A i \in 1..Top :
            /\ m.scopes[i].tracked = n.scopes[i].tracked
            /\ m.scopes[i].root = n.scopes[i].root
      BY <1>8, <2>4, <3>2, SameFields
    <3>5. m.scopes[Top].view \in Cache
      BY <1>1, <2>4, <3>1 DEF Scope, Viewed
    <3>6. Agrees(m.scopes[Top].view, db)
      <4>1. Truthful(m, db, reader) /\ Shown(m, db, Top) = db
        BY <1>1, <2>4, <3>1 DEF Sound, Shown
      <4>2. QED
        BY <1>1, <2>4, <3>1, <4>1 DEF Truthful
    <3>7. Calm(mem) => Calm(m)
      BY <1>1, <1>8, <2>4, <3>1, <3>3 DEF Calm
    <3>8. \E w \in 0..Top : ViewedTo(m, w)
      BY <2>4, <3>1 DEF Sound
    <3>9. QED
      BY <1>1, <1>4, <2>4, <3>1, <3>5, <3>6, <3>7, <3>8
  <2>5. QED
    BY <2>2, <2>3, <2>4
<1>13. QED
  BY <1>10, <1>11, <1>12

\* An access that leaves the innermost view in agreement with what storage shows then.
LEMMA Changing ==
    ASSUME Constants, IInv, InTransaction, NEW m, m = Accessed(Top),
           NEW cache, NEW d \in Contents,
           m.enabled => /\ cache \in Cache /\ Agrees(cache, d)
                        /\ cache.doubted = m.scopes[Top].view.doubted,
           NEW n, n = IF ~ m.enabled THEN m ELSE [m EXCEPT !.scopes[Top].view = cache]
    PROVE  Sound(n, d, reader) /\ (~ surprised => Calm(n)) /\ (Confined(mem) => Confined(n))
<1>1. /\ Typed(m, db, reader) /\ Top \in Nat \ {0} /\ Len(m.scopes) = Top
      /\ \E v \in 0..Top : ViewedTo(m, v)
      /\ Confined(mem) => Confined(m)
      /\ ~ surprised => m.enabled
      /\ m.enabled => /\ Sound(m, db, reader) /\ ~ m.stale /\ Viewed(m, Top)
                      /\ m.scopes[Top].view \in Cache /\ Agrees(m.scopes[Top].view, db)
                      /\ Calm(mem) => Calm(m)
  BY Accessing
<1>2. m \in Mem /\ m.scopes \in [1..Top -> Scope] /\ Top <= MaxDepth /\ reader \in Readers
      /\ m.scopes \in Seq(Scope)
  BY <1>1, LenProperties DEF Typed, Mem
<1>4. CASE ~ m.enabled
  <2>1. n = m /\ surprised
    BY <1>1, <1>4
  <2>2. QED
    BY <1>1, <1>2, <1>4, <2>1 DEF Sound, Typed
<1>5. CASE m.enabled
  <2> DEFINE scopes == [m.scopes EXCEPT ![Top] = [@ EXCEPT !.view = cache]]
  <2>1. n = [m EXCEPT !.scopes = scopes]
    BY <1>1, <1>5
  <2>2. cache \in Cache /\ cache # NoView
    BY <1>5 DEF Constants, MarksAssumption
  <2>3. scopes \in [1..Top -> Scope]
    BY <1>1, <1>2, <2>2 DEF Scope
  <2>4. scopes \in Seq(Scope) /\ Len(scopes) = Top
    <3>1. Top \in Nat
      BY <1>1
    <3> HIDE DEF scopes
    <3>2. QED
      BY <2>3, <3>1, FunctionsAreSequences
  <2>5. \A i \in 1..Top :
          /\ scopes[i].tracked = m.scopes[i].tracked /\ scopes[i].root = m.scopes[i].root
          /\ scopes[i].saved = m.scopes[i].saved
          /\ scopes[i].cacheable = m.scopes[i].cacheable
          /\ scopes[i].rolledBack = m.scopes[i].rolledBack
          /\ scopes[i].view = IF i = Top THEN cache ELSE m.scopes[i].view
    <3> SUFFICES ASSUME NEW i \in 1..Top
                 PROVE  /\ scopes[i].tracked = m.scopes[i].tracked
                        /\ scopes[i].root = m.scopes[i].root
                        /\ scopes[i].saved = m.scopes[i].saved
                        /\ scopes[i].cacheable = m.scopes[i].cacheable
                        /\ scopes[i].rolledBack = m.scopes[i].rolledBack
                        /\ scopes[i].view = IF i = Top THEN cache ELSE m.scopes[i].view
      OBVIOUS
    <3>1. m.scopes[i] \in Scope
      BY <1>2
    <3>2. scopes[i] = IF i = Top THEN [m.scopes[i] EXCEPT !.view = cache] ELSE m.scopes[i]
      BY <1>2
    <3> HIDE DEF scopes
    <3>3. QED
      BY <3>1, <3>2 DEF Scope
  <2> HIDE DEF scopes
  <2>6. /\ n.scopes = scopes /\ n \in Mem /\ n.roots = m.roots
        /\ n.committed = m.committed /\ n.held = m.held /\ n.enabled /\ ~ n.stale
    BY <1>1, <1>2, <1>5, <2>1, <2>4 DEF Mem
  <2>7. Typed(n, d, reader) /\ Len(n.scopes) = Top
    BY <1>2, <2>4, <2>6 DEF Typed
  <2>8. ViewedTo(n, Top)
    BY <1>1, <1>5, <2>2, <2>5, <2>6, <2>7 DEF ViewedTo, Viewed
  <2>9. Confined(mem) => Confined(n)
    <3> SUFFICES ASSUME Confined(mem) PROVE Confined(n)
      OBVIOUS
    <3>1. Confined(m)
      BY <1>1
    <3>2. /\ ~ m.committed.doubted
          /\ \A i \in 1..Top : Viewed(m, i) /\ m.scopes[i].view.doubted
                                 => \E j \in 1..i : m.scopes[j].rolledBack
      BY <1>1, <1>5, <3>1 DEF Confined
    <3>3. \A i \in 1..Top : Viewed(n, i) /\ n.scopes[i].view.doubted
                            => Viewed(m, i) /\ m.scopes[i].view.doubted
      BY <1>1, <1>5, <2>5, <2>6 DEF Viewed
    <3>4. \A i \in 1..Top : n.scopes[i].rolledBack = m.scopes[i].rolledBack
      BY <2>5, <2>6
    <3>5. \A i \in 1..Top : \A j \in 1..i : j \in 1..Top
      BY <1>1
    <3>6. \A i \in 1..Top : Viewed(n, i) /\ n.scopes[i].view.doubted
                            => \E j \in 1..i : n.scopes[j].rolledBack
      BY <3>2, <3>3, <3>4, <3>5, ZenonT(60)
    <3>7. ~ n.committed.doubted
      BY <2>6, <3>2
    <3>8. QED
      BY <2>7, <3>6, <3>7 DEF Confined
  <2>10. Stacked(n) /\ Active(n) /\ Unwritten(n, d)
    <3>1. Stacked(m)
      BY <1>1, <1>5 DEF Sound
    <3>2. Stacked(n)
      BY <1>1, <2>5, <2>6, <2>7, <3>1, SMTT(60) DEF Stacked
    <3>3. QED
      <4>1. \A i \in 1..Top : Viewed(n, i)
        BY <1>1, <2>7, <2>8 DEF ViewedTo, Viewed
      <4>2. QED
        BY <1>1, <2>7, <3>2, <4>1 DEF Active, Unwritten, Viewed
  <2>11. Truthful(n, d, reader)
    <3>1. Truthful(m, db, reader)
      BY <1>1, <1>5 DEF Sound
    <3>2. \A i \in 0..Top - 1 : Shown(n, d, i) = Shown(m, db, i)
      BY <1>1, <2>5, <2>6, <2>7 DEF Shown
    <3>3. Shown(n, d, Top) = d
      BY <1>1, <2>7 DEF Shown
    <3>4. 0 \in 0..Top - 1
      BY <1>1
    <3>5. \A i \in 1..Top : Agrees(n.scopes[i].view, Shown(n, d, i))
      <4> SUFFICES ASSUME NEW i \in 1..Top
                   PROVE  Agrees(n.scopes[i].view, Shown(n, d, i))
        OBVIOUS
      <4>1. CASE i = Top
        <5>1. n.scopes[i].view = cache /\ Shown(n, d, i) = d
          BY <2>5, <2>6, <3>3, <4>1
        <5>2. QED
          BY <1>5, <5>1
      <4>2. CASE i # Top
        <5>1. Viewed(m, i) /\ i \in 0..Top - 1
          BY <1>1, <1>5, <4>2 DEF ViewedTo
        <5>2. QED
          BY <1>1, <2>5, <2>6, <3>1, <3>2, <4>2, <5>1 DEF Truthful
      <4>3. QED
        BY <4>1, <4>2
    <3>6. QED
      BY <2>6, <2>7, <3>1, <3>2, <3>4, <3>5 DEF Truthful
  <2>12. ~ surprised => Calm(n)
    BY <1>1, <1>5, <2>5, <2>6, <2>7 DEF IInv, Calm
  <2>13. QED
    <3>1. \E v \in 0..Len(n.scopes) : ViewedTo(n, v)
      BY <1>1, <2>7, <2>8
    <3>2. QED
      BY <2>6, <2>7, <2>9, <2>10, <2>11, <2>12, <3>1 DEF Sound
<1>6. QED
  BY <1>4, <1>5

\* What an access finds: a view not in doubt knows whether the table is there.
LEMMA Found ==
    ASSUME Constants, IInv, InTransaction, NEW m, m = Accessed(Top),
           NEW old, old = m.scopes[Top].view
    PROVE  /\ Top \in Nat \ {0} /\ db \in Contents /\ TableEnsured(m, Top) \in BOOLEAN
           /\ m.enabled => old \in Cache /\ Agrees(old, db) /\ CacheIn(m, Top) = old
<1>1. Top \in Nat \ {0} /\ (m.enabled => old \in Cache /\ Agrees(old, db))
  BY Accessing
<1>2. db \in Contents
  BY DEF IInv, Sound, Typed
<1>3. CacheIn(m, Top) = old
  BY <1>1 DEF CacheIn
<1>4. TableEnsured(m, Top) \in BOOLEAN
  BY <1>2 DEF TableEnsured, Contents
<1>5. QED
  BY <1>1, <1>2, <1>3, <1>4

LEMMA WriteOK ==
    ASSUME Constants, IInv, NEW a \in RowIds, Write(a)
    PROVE  IInv'
<1> DEFINE m == Accessed(Top)
           old == m.scopes[Top].view
           ensured == TableEnsured(m, Top)
           made == [old EXCEPT !.schema = TRUE]
           cache == IF ensured THEN Remembered(made, a, writes') ELSE old
           d == IF ensured THEN [db EXCEPT !.rows[a] = writes', !.table = TRUE] ELSE db
<1>1. InTransaction /\ db' = d /\ writes' \in 0..MaxWrites
      /\ UNCHANGED <<reader, deleting, deletes, repeats, surprised>>
  <2>1. InTransaction /\ writes < MaxWrites /\ writes' = writes + 1 /\ db' = d
        /\ UNCHANGED <<reader, deleting, deletes, repeats, surprised>>
    BY Zenon DEF Write
  <2>2. QED
    BY <2>1 DEF IInv, Constants, CacheAssumption
<1>2. /\ Top \in Nat \ {0} /\ db \in Contents /\ ensured \in BOOLEAN
      /\ m.enabled => old \in Cache /\ Agrees(old, db)
  BY <1>1, Found
<1>3. mem' = IF ~ m.enabled THEN m ELSE [m EXCEPT !.scopes[Top].view = cache]
  BY <1>2 DEF Write, Through
<1> HIDE DEF m, ensured
<1>5. d \in Contents
  BY <1>1, <1>2 DEF Contents, RowRevisions
<1>6. m.enabled => cache \in Cache /\ Agrees(cache, d) /\ cache.doubted = old.doubted
  <2>1. SUFFICES ASSUME m.enabled, ensured
                 PROVE cache \in Cache /\ Agrees(cache, d) /\ cache.doubted = old.doubted
    BY <1>2
  <2> DEFINE table == [db EXCEPT !.table = TRUE]
  <2>2. made \in Cache /\ table \in Contents /\ Agrees(made, table) /\ made.doubted = old.doubted
    BY <1>2, <2>1 DEF Cache, Contents, Agrees
  <2>3. d = [table EXCEPT !.rows[a] = writes']
    BY <1>1, <1>2, <2>1 DEF Contents
  <2> HIDE DEF made, table
  <2>4. /\ Remembered(made, a, writes') \in Cache
        /\ Agrees(Remembered(made, a, writes'), [table EXCEPT !.rows[a] = writes'])
        /\ Remembered(made, a, writes').doubted = made.doubted
    BY <1>1, <2>2, RememberedAgrees DEF RowRevisions
  <2>5. QED
    BY <2>1, <2>2, <2>3, <2>4
<1> HIDE DEF cache, d
<1>7. /\ Sound(mem', db', reader') /\ (~ surprised => Calm(mem'))
      /\ Confined(mem) => Confined(mem')
  BY <1>1, <1>3, <1>5, <1>6, Changing DEF m
<1>8. QED
  BY <1>1, <1>7 DEF IInv

LEMMA DeleteOK ==
    ASSUME Constants, IInv, NEW a \in RowIds, Delete(a)
    PROVE  IInv'
<1> DEFINE m == Accessed(Top)
           old == m.scopes[Top].view
           ensured == TableEnsured(m, Top)
           cache == IF ensured THEN [old EXCEPT !.schema = TRUE, !.rows[a] = 0] ELSE old
           absent == Answers(m, Top, a) /\ CacheIn(m, Top).rows[a] = 0
           d == IF ~ ensured THEN db
                ELSE [db EXCEPT !.rows[a] = IF absent THEN @ ELSE 0, !.table = TRUE]
<1>1. InTransaction /\ db' = d
      /\ UNCHANGED <<reader, deleting, writes, deletes, repeats, surprised>>
  BY Zenon DEF Delete
<1>2. /\ Top \in Nat \ {0} /\ db \in Contents /\ ensured \in BOOLEAN
      /\ m.enabled => old \in Cache /\ Agrees(old, db) /\ CacheIn(m, Top) = old
  BY <1>1, Found
<1>3. mem' = IF ~ m.enabled THEN m ELSE [m EXCEPT !.scopes[Top].view = cache]
  BY <1>2 DEF Delete, Through
<1>4. m.enabled /\ absent /\ ~ old.doubted => db.rows[a] = 0
  BY <1>2 DEF Agrees, Answers
<1> HIDE DEF m, absent, ensured
<1>5. 0 \in RowRevisions
  BY DEF RowRevisions, Constants, CacheAssumption
<1>6. d \in Contents
  BY <1>2, <1>5 DEF Contents
<1>7. m.enabled => cache \in Cache /\ Agrees(cache, d) /\ cache.doubted = old.doubted
  <2>1. SUFFICES ASSUME m.enabled, ensured
                 PROVE cache \in Cache /\ Agrees(cache, d) /\ cache.doubted = old.doubted
    BY <1>2
  <2>2. /\ cache \in Cache /\ cache.rows = [old.rows EXCEPT ![a] = 0]
        /\ cache.complete = old.complete /\ cache.native = old.native
        /\ cache.doubted = old.doubted
    BY <1>2, <1>5, <2>1 DEF Cache
  <2>3. /\ d.table /\ d.native = db.native
        /\ ~ old.doubted => \A b \in RowIds : d.rows[b] = IF b = a THEN 0 ELSE db.rows[b]
    BY <1>2, <1>4, <2>1 DEF Contents
  <2> HIDE DEF cache, d, old
  <2>4. Agrees(cache, d)
    BY <1>2, <2>1, <2>2, <2>3 DEF Agrees, Cache
  <2>5. QED
    BY <2>2, <2>4
<1> HIDE DEF cache, d
<1>8. /\ Sound(mem', db', reader') /\ (~ surprised => Calm(mem'))
      /\ Confined(mem) => Confined(mem')
  BY <1>1, <1>3, <1>6, <1>7, Changing DEF m
<1>9. QED
  BY <1>1, <1>8 DEF IInv

LEMMA ReadOK ==
    ASSUME Constants, IInv, NEW a \in RowIds, Read(a)
    PROVE  IInv'
<1> DEFINE m == Accessed(Top)
           old == m.scopes[Top].view
           ensured == TableEnsured(m, Top)
           known == Answers(m, Top, a) \/ db.rows[a] = 0
           made == [old EXCEPT !.schema = TRUE]
           cache == IF ~ ensured THEN old ELSE IF known THEN made
                    ELSE Remembered(made, a, db.rows[a])
           d == IF ensured THEN [db EXCEPT !.table = TRUE] ELSE db
<1>1. InTransaction /\ db' = d
      /\ UNCHANGED <<reader, deleting, writes, deletes, repeats, surprised>>
  BY Zenon DEF Read
<1>2. /\ Top \in Nat \ {0} /\ db \in Contents /\ ensured \in BOOLEAN
      /\ m.enabled => old \in Cache /\ Agrees(old, db)
  BY <1>1, Found
<1>3. mem' = IF ~ m.enabled THEN m ELSE [m EXCEPT !.scopes[Top].view = cache]
  BY <1>2 DEF Read, Through
<1> HIDE DEF m, known, ensured
<1>5. d \in Contents
  BY <1>2 DEF Contents
<1>6. m.enabled => cache \in Cache /\ Agrees(cache, d) /\ cache.doubted = old.doubted
  <2>1. SUFFICES ASSUME m.enabled, ensured
                 PROVE cache \in Cache /\ Agrees(cache, d) /\ cache.doubted = old.doubted
    BY <1>2
  <2>2. made \in Cache /\ Agrees(made, d) /\ made.doubted = old.doubted
    BY <1>2, <2>1 DEF Cache, Contents, Agrees
  <2>3. d.rows[a] = db.rows[a] /\ db.rows[a] \in RowRevisions /\ d = [d EXCEPT !.rows[a] = db.rows[a]]
    BY <1>2, <2>1 DEF Contents
  <2> HIDE DEF made, d
  <2>4. /\ Remembered(made, a, db.rows[a]) \in Cache
        /\ Agrees(Remembered(made, a, db.rows[a]), d)
        /\ Remembered(made, a, db.rows[a]).doubted = made.doubted
    BY <1>5, <2>2, <2>3, RememberedAgrees
  <2>5. QED
    BY <2>1, <2>2, <2>4
<1> HIDE DEF cache, d
<1>7. /\ Sound(mem', db', reader') /\ (~ surprised => Calm(mem'))
      /\ Confined(mem) => Confined(mem')
  BY <1>1, <1>3, <1>5, <1>6, Changing DEF m
<1>8. QED
  BY <1>1, <1>7 DEF IInv

LEMMA ReconcileOK ==
    ASSUME Constants, IInv, NEW at \in Times \cup {0}, Reconcile(at)
    PROVE  IInv'
<1> DEFINE m == Accessed(Top)
           old == m.scopes[Top].view
           empty == db.rows = NoRows /\ ~ (m.enabled /\ CacheIn(m, Top).complete)
           cache == [old EXCEPT !.native = at, !.complete = @ \/ empty,
                                !.rows = IF empty THEN NoRows ELSE @]
           d == [db EXCEPT !.native = at]
<1>1. InTransaction /\ db' = d /\ UNCHANGED <<reader, deleting, writes, deletes, repeats, surprised>>
  BY Zenon DEF Reconcile
<1>2. /\ Top \in Nat \ {0}
      /\ m.enabled => old \in Cache /\ Agrees(old, db)
  BY <1>1, Accessing
<1>3. mem' = IF ~ m.enabled THEN m ELSE [m EXCEPT !.scopes[Top].view = cache]
  BY <1>2 DEF Reconcile, Through
<1>4. db \in Contents /\ (empty => db.rows = NoRows) /\ empty \in BOOLEAN /\ NoRows \in [RowIds -> RowRevisions]
  BY DEF IInv, Sound, Typed, NoRows, RowRevisions, Constants, CacheAssumption
<1> HIDE DEF m, empty
<1>5. d \in Contents
  BY <1>4 DEF Contents
<1>6. m.enabled => cache \in Cache /\ Agrees(cache, d) /\ cache.doubted = old.doubted
  <2>1. SUFFICES ASSUME m.enabled
                 PROVE cache \in Cache /\ Agrees(cache, d) /\ cache.doubted = old.doubted
    OBVIOUS
  <2>2. /\ cache \in Cache /\ cache.rows = (IF empty THEN NoRows ELSE old.rows)
        /\ (~ empty => cache.complete = old.complete) /\ cache.native = at /\ cache.schema = old.schema
        /\ cache.doubted = old.doubted
    BY <1>2, <1>4, <2>1 DEF Cache
  <2>3. d.table = db.table /\ d.native = at /\ d.rows = db.rows
    BY <1>4 DEF Contents
  <2> HIDE DEF cache, d, old
  <2>4. Agrees(cache, d)
    BY <1>2, <1>4, <2>1, <2>2, <2>3 DEF Agrees
  <2>5. QED
    BY <2>2, <2>4
<1> HIDE DEF cache, d
<1>7. /\ Sound(mem', db', reader') /\ (~ surprised => Calm(mem'))
      /\ Confined(mem) => Confined(mem')
  BY <1>1, <1>3, <1>5, <1>6, Changing DEF m
<1>8. QED
  BY <1>1, <1>7 DEF IInv

----------------------------------------------------------------------------
(* Scopes open and end. *)

LEMMA Appended ==
    ASSUME NEW T, NEW stack \in Seq(T), NEW top \in T
    PROVE  /\ Append(stack, top) \in Seq(T) /\ Len(Append(stack, top)) = Len(stack) + 1
           /\ Append(stack, top)[Len(stack) + 1] = top
           /\ \A i \in 1..Len(stack) : Append(stack, top)[i] = stack[i]
BY AppendProperties

\* Opened for the state m over the storage d.
Grown(m, d, tracked, root, cacheable) ==
    [m EXCEPT !.enabled = @ /\ (tracked => cacheable),
              !.scopes = Append(@, [tracked |-> tracked, root |-> root, saved |-> d,
                                    cacheable |-> cacheable, rolledBack |-> FALSE,
                                    view |-> NoView, fresh |-> FALSE])]

LEMMA Opening ==
    ASSUME Constants, NEW m, NEW d, NEW r, Sound(m, d, r), Len(m.scopes) < MaxDepth,
           NEW tracked \in BOOLEAN, NEW root \in BOOLEAN, NEW cacheable \in BOOLEAN,
           m.enabled /\ (tracked => cacheable) =>
             /\ root => tracked /\ (Len(m.scopes) > 0 => m.roots = 1)
             /\ tracked /\ ~ root => Len(m.scopes) > 0 /\ m.scopes[Len(m.scopes)].tracked
    PROVE  /\ Sound(Grown(m, d, tracked, root, cacheable), d, r)
           /\ Calm(m) /\ tracked /\ cacheable /\ (root <=> Len(m.scopes) = 0)
                => Calm(Grown(m, d, tracked, root, cacheable))
           /\ Confined(m) => Confined(Grown(m, d, tracked, root, cacheable))
<1> DEFINE len == Len(m.scopes)
           n == Grown(m, d, tracked, root, cacheable)
           scope == [tracked |-> tracked, root |-> root, saved |-> d,
                     cacheable |-> cacheable, rolledBack |-> FALSE,
                     view |-> NoView, fresh |-> FALSE]
<1>0. /\ len \in Nat /\ len = Len(m.scopes) /\ len < MaxDepth
      /\ m.enabled /\ (tracked => cacheable) =>
           /\ root => tracked /\ (len > 0 => m.roots = 1)
           /\ tracked /\ ~ root => len > 0 /\ m.scopes[len].tracked
      /\ scope = [tracked |-> tracked, root |-> root, saved |-> d,
                  cacheable |-> cacheable, rolledBack |-> FALSE,
                  view |-> NoView, fresh |-> FALSE]
      /\ n = [m EXCEPT !.enabled = @ /\ (tracked => cacheable), !.scopes = Append(@, scope)]
  BY LenProperties DEF Sound, Typed, Mem, Grown
<1> SUFFICES /\ Sound(n, d, r) /\ (Calm(m) /\ tracked /\ cacheable /\ (root <=> len = 0) => Calm(n))
             /\ Confined(m) => Confined(n)
  OBVIOUS
<1> HIDE DEF len, n, scope
<1> USE <1>0
<1> DEFINE scopes == Append(m.scopes, scope)
<1>1. /\ m \in Mem /\ d \in Contents /\ r \in Readers
      /\ m.scopes \in Seq(Scope) /\ m.scopes \in [1..len -> Scope]
  BY LenProperties DEF Sound, Typed, Mem
<1>2. scope \in Scope
  BY <1>1 DEF Scope
<1>3. /\ scopes \in Seq(Scope) /\ Len(scopes) = len + 1 /\ scopes[len + 1] = scope
      /\ \A i \in 1..len : scopes[i] = m.scopes[i]
  <2>1. /\ scopes \in Seq(Scope) /\ Len(scopes) = Len(m.scopes) + 1
        /\ scopes[Len(m.scopes) + 1] = scope
        /\ \A i \in 1..Len(m.scopes) : scopes[i] = m.scopes[i]
    BY <1>1, <1>2, Appended
  <2> HIDE DEF scopes
  <2>2. QED
    BY <2>1
<1> HIDE DEF scopes
<1>4. /\ n.scopes = scopes /\ n \in Mem /\ n.roots = m.roots /\ n.committed = m.committed
      /\ n.held = m.held /\ n.stale = m.stale /\ n.enabled = (m.enabled /\ (tracked => cacheable))
  BY <1>1, <1>3 DEF Mem, scopes
<1>5. /\ Len(n.scopes) = len + 1 /\ n.scopes[len + 1] = scope
      /\ \A i \in 1..len : n.scopes[i] = m.scopes[i]
  BY <1>3, <1>4
<1>6. /\ ~ Viewed(n, len + 1) /\ scope.tracked = tracked /\ scope.root = root /\ scope.saved = d
      /\ scope.cacheable = cacheable /\ ~ scope.rolledBack
  BY <1>5 DEF Viewed
<1>7. Typed(n, d, r)
  BY <1>1, <1>4, <1>5, MaxDepthIsNat DEF Typed
<1>8. PICK v \in 0..len : ViewedTo(m, v)
  BY DEF Sound
<1>9. ViewedTo(n, v)
  <2>1. \A i \in 1..len : Viewed(n, i) <=> i <= v
    BY <1>5, <1>8 DEF ViewedTo, Viewed
  <2>2. \A i \in 1..len + 1 : Viewed(n, i) <=> i <= v
    <3>1. \A i \in 1..len + 1 : i \in 1..len \/ (i = len + 1 /\ ~ (i <= v))
      OBVIOUS
    <3>2. QED
      BY <1>6, <2>1, <3>1
  <2>3. QED
    BY <1>4, <1>5, <1>8, <2>2 DEF ViewedTo
<1>10. Confined(m) => Confined(n)
  <2> SUFFICES ASSUME Confined(m), n.enabled, ~ n.stale
               PROVE  Confined(n)
    BY DEF Confined
  <2>1. /\ ~ m.committed.doubted
        /\ \A i \in 1..len : Viewed(m, i) /\ m.scopes[i].view.doubted
                               => \E j \in 1..i : m.scopes[j].rolledBack
    BY <1>1, <1>4 DEF Confined, Mem
  <2>2. \A i \in 1..len + 1 : Viewed(n, i) => i \in 1..len /\ Viewed(m, i)
    BY <1>5, <1>6 DEF Viewed
  <2>3. \A i \in 1..len : \A j \in 1..i : j \in 1..len
    OBVIOUS
  <2>4. QED
    BY <1>4, <1>5, <2>1, <2>2, <2>3 DEF Confined
<1>11. \A i \in 0..len : Shown(n, d, i) = Shown(m, d, i)
  BY <1>5, <1>6 DEF Shown
<1>12. ASSUME n.enabled
       PROVE  Stacked(n) /\ Active(n) /\ Unwritten(n, d)
  <2>1. m.enabled /\ (tracked => cacheable) /\ Stacked(m) /\ Active(m) /\ Unwritten(m, d)
    BY <1>1, <1>4, <1>12 DEF Sound, Mem
  <2>2. \A k \in 1..len :
          /\ n.scopes[k].root => n.scopes[k].tracked /\ (k > 1 => n.roots = 1)
          /\ n.scopes[k].tracked =>
               /\ n.scopes[k].cacheable
               /\ \E x \in 1..k : \A j \in x..k :
                    n.scopes[j].tracked /\ (n.scopes[j].root <=> j = x)
    BY <1>4, <1>5, <2>1 DEF Stacked
  <2>3. /\ scope.root => scope.tracked /\ (len + 1 > 1 => n.roots = 1)
        /\ scope.tracked =>
             /\ scope.cacheable
             /\ \E x \in 1..len + 1 : \A j \in x..len + 1 :
                    n.scopes[j].tracked /\ (n.scopes[j].root <=> j = x)
    <3>1. /\ scope.root => scope.tracked /\ (len + 1 > 1 => n.roots = 1)
          /\ scope.tracked => scope.cacheable
      BY <1>4, <1>6, <2>1
    <3>2. ASSUME scope.tracked
          PROVE  \E x \in 1..len + 1 : \A j \in x..len + 1 :
                    n.scopes[j].tracked /\ (n.scopes[j].root <=> j = x)
      <4>1. CASE root
        <5>1. \A j \in len + 1..len + 1 : j = len + 1
          OBVIOUS
        <5>2. QED
          <6>1. n.scopes[len + 1].tracked /\ n.scopes[len + 1].root /\ len + 1 \in 1..len + 1
            BY <1>5, <1>6, <3>2, <4>1
          <6>2. \A j \in len + 1..len + 1 : n.scopes[j].tracked /\ (n.scopes[j].root <=> j = len + 1)
            BY <5>1, <6>1
          <6>3. QED
            BY <6>1, <6>2
      <4>2. CASE ~ root
        <5>1. len \in 1..len /\ n.scopes[len].tracked
          BY <1>5, <1>6, <2>1, <3>2, <4>2
        <5>2. PICK x \in 1..len : \A j \in x..len :
                n.scopes[j].tracked /\ (n.scopes[j].root <=> j = x)
          BY <2>2, <5>1
        <5>3. \A j \in x..len + 1 : n.scopes[j].tracked /\ (n.scopes[j].root <=> j = x)
          BY <1>5, <1>6, <3>2, <4>2, <5>2
        <5>4. x \in 1..len + 1
          OBVIOUS
        <5>5. QED
          BY <5>3, <5>4
      <4>3. QED
        BY <4>1, <4>2
    <3>3. QED
      BY <3>1, <3>2
  <2>4. Stacked(n)
    <3>1. Stacked(n) <=> \A k \in 1..Len(n.scopes) :
                      /\ n.scopes[k].root => n.scopes[k].tracked /\ (k > 1 => n.roots = 1)
                      /\ n.scopes[k].tracked =>
                           /\ n.scopes[k].cacheable
                           /\ \E x \in 1..k : \A j \in x..k :
                                n.scopes[j].tracked /\ (n.scopes[j].root <=> j = x)
      BY DEF Stacked
    <3>2. \A k \in 1..Len(n.scopes) : k \in 1..len \/ k = len + 1
      BY <1>5
    <3>3. QED
      <4> SUFFICES ASSUME NEW k \in 1..Len(n.scopes)
                   PROVE  /\ n.scopes[k].root => n.scopes[k].tracked /\ (k > 1 => n.roots = 1)
                          /\ n.scopes[k].tracked =>
                               /\ n.scopes[k].cacheable
                               /\ \E x \in 1..k : \A j \in x..k :
                                    n.scopes[j].tracked /\ (n.scopes[j].root <=> j = x)
        BY <3>1, Zenon
      <4>1. CASE k \in 1..len
        BY <2>2, <4>1, Zenon
      <4>2. CASE k = len + 1
        BY <1>5, <2>3, <4>2, Zenon
      <4>3. QED
        BY <3>2, <4>1, <4>2
  <2>5. Active(n)
    BY <1>4, <1>5, <2>1 DEF Active, Viewed
  <2>6. Unwritten(n, d)
    <3> SUFFICES ASSUME NEW i \in 1..len + 1, ~ Viewed(n, i), NEW j \in i..len + 1
                 PROVE  Shown(n, d, j) = n.scopes[i].saved
      BY <1>5 DEF Unwritten
    <3>1. CASE i = len + 1
      BY <1>5, <1>6, <3>1 DEF Shown
    <3>2. CASE i \in 1..len /\ j \in i..len
      BY <1>5, <1>11, <2>1, <3>2 DEF Unwritten, Viewed
    <3>3. CASE i \in 1..len /\ j = len + 1
      <4>1. Shown(m, d, len) = d /\ Shown(n, d, j) = d /\ len \in i..len
        BY <1>5, <3>3 DEF Shown
      <4>2. QED
        BY <1>5, <2>1, <3>3, <4>1 DEF Unwritten, Viewed
    <3>4. QED
      BY <3>1, <3>2, <3>3
  <2>7. QED
    BY <2>4, <2>5, <2>6
<1>13. ASSUME n.enabled, ~ n.stale
       PROVE  Truthful(n, d, r)
  <2>1. Truthful(m, d, r)
    BY <1>1, <1>4, <1>13 DEF Sound, Mem
  <2>2. 0 \in 0..len
    OBVIOUS
  <2>3. \A i \in 1..Len(n.scopes) : Viewed(n, i) => i \in 1..len /\ Viewed(m, i)
    BY <1>5, <1>6 DEF Viewed
  <2>4. QED
    BY <1>4, <1>5, <1>11, <2>1, <2>2, <2>3 DEF Truthful
<1>14. Calm(m) /\ tracked /\ cacheable /\ (root <=> len = 0) => Calm(n)
  <2>1. SUFFICES ASSUME Calm(m), tracked, cacheable, root <=> len = 0
                 PROVE  Calm(n)
    OBVIOUS
  <2>2. n.enabled /\ ~ n.stale
    BY <1>4, <2>1 DEF Calm
  <2>3. \A i \in 1..len : n.scopes[i].tracked /\ (n.scopes[i].root <=> i = 1)
    BY <1>5, <2>1 DEF Calm
  <2>4. n.scopes[len + 1].tracked /\ (n.scopes[len + 1].root <=> len + 1 = 1)
    BY <1>5, <1>6, <2>1
  <2>5. \A i \in 1..Len(n.scopes) : i \in 1..len \/ i = len + 1
    BY <1>5
  <2>6. QED
    BY <2>2, <2>3, <2>4, <2>5 DEF Calm
<1>15. QED
  <2>1. \E w \in 0..Len(n.scopes) : ViewedTo(n, w)
    BY <1>5, <1>9
  <2>2. QED
    BY <1>7, <1>10, <1>12, <1>13, <1>14, <2>1 DEF Sound

LEMMA OneOrMore == ASSUME NEW len \in Nat \ {0} PROVE len > 1 \/ len = 1
OBVIOUS

LEMMA StackedBelow ==
    ASSUME NEW m, Stacked(m), NEW n, n.roots = m.roots, NEW len \in Nat, NEW depth \in Nat,
           len = Len(n.scopes), depth = Len(m.scopes), len <= depth,
           \A i \in 1..len : /\ n.scopes[i].tracked = m.scopes[i].tracked
                             /\ n.scopes[i].root = m.scopes[i].root
                             /\ n.scopes[i].tracked => n.scopes[i].cacheable
    PROVE  Stacked(n)
<1> SUFFICES ASSUME NEW k \in 1..len
             PROVE  /\ n.scopes[k].root => n.scopes[k].tracked /\ (k > 1 => n.roots = 1)
                    /\ n.scopes[k].tracked =>
                         /\ n.scopes[k].cacheable
                         /\ \E x \in 1..k : \A j \in x..k :
                              n.scopes[j].tracked /\ (n.scopes[j].root <=> j = x)
  BY DEF Stacked
<1>1. k \in 1..depth
  OBVIOUS
<1>2. /\ m.scopes[k].root => m.scopes[k].tracked /\ (k > 1 => m.roots = 1)
      /\ m.scopes[k].tracked =>
           \E x \in 1..k : \A j \in x..k : m.scopes[j].tracked /\ (m.scopes[j].root <=> j = x)
  BY <1>1 DEF Stacked
<1>3. n.scopes[k].tracked =>
        \E x \in 1..k : \A j \in x..k : n.scopes[j].tracked /\ (n.scopes[j].root <=> j = x)
  <2>1. SUFFICES ASSUME n.scopes[k].tracked
                 PROVE  \E x \in 1..k : \A j \in x..k :
                          n.scopes[j].tracked /\ (n.scopes[j].root <=> j = x)
    OBVIOUS
  <2>2. PICK x \in 1..k : \A j \in x..k : m.scopes[j].tracked /\ (m.scopes[j].root <=> j = x)
    BY <1>2, <2>1
  <2>3. \A j \in x..k : j \in 1..len
    OBVIOUS
  <2>4. QED
    BY <2>2, <2>3
<1>4. QED
  BY <1>2, <1>3

LEMMA Shortened ==
    ASSUME NEW T, NEW stack \in Seq(T), NEW len \in Nat \ {0}, len = Len(stack)
    PROVE  /\ SubSeq(stack, 1, len - 1) \in Seq(T) /\ Len(SubSeq(stack, 1, len - 1)) = len - 1
           /\ \A i \in 1..len - 1 : SubSeq(stack, 1, len - 1)[i] = stack[i]
<1>1. \A i \in 1..len - 1 : stack[i] \in T
  BY ElementOfSeq
<1>2. 1 \in Int /\ len - 1 \in Int
  OBVIOUS
<1>3. /\ SubSeq(stack, 1, len - 1) \in Seq(T)
      /\ Len(SubSeq(stack, 1, len - 1)) = IF 1 <= len - 1 THEN len - 1 - 1 + 1 ELSE 0
      /\ \A i \in 1..len - 1 - 1 + 1 : SubSeq(stack, 1, len - 1)[i] = stack[1 + i - 1]
  BY <1>1, <1>2, SubSeqProperties
<1>4. QED
  BY <1>3

\* Without a scope all depends on the committed cache.
LEMMA Outside ==
    ASSUME Constants, NEW n, NEW d, NEW r, Typed(n, d, r), Len(n.scopes) = 0,
           n.enabled => n.roots = 0,
           n.enabled /\ ~ n.stale =>
             Agrees(n.committed, d) /\ (n.held /\ r # NoReader => r.revision = d.rows[r.alarm])
    PROVE  /\ Sound(n, d, r) /\ (n.enabled /\ ~ n.stale => Calm(n))
           /\ ~ n.committed.doubted => Confined(n)
<1>1. \A i \in 1..Len(n.scopes) : FALSE
  OBVIOUS
<1>2. \E v \in 0..Len(n.scopes) : ViewedTo(n, v)
  <2>1. \A i \in 1..0 : FALSE
    OBVIOUS
  <2>2. ViewedTo(n, 0)
    BY <1>1, <2>1 DEF ViewedTo
  <2>3. QED
    BY <2>2
<1>3. Stacked(n) /\ Unwritten(n, d) /\ (~ n.committed.doubted => Confined(n))
  BY <1>1, Zenon DEF Confined, Stacked, Unwritten
<1>4. n.enabled => Active(n)
  BY DEF Active
<1>5. ASSUME n.enabled, ~ n.stale
      PROVE  Truthful(n, d, r)
  <2>1. Shown(n, d, 0) = d
    BY DEF Shown
  <2>2. QED
    BY <1>1, <1>5, <2>1, Zenon DEF Truthful
<1>6. n.enabled /\ ~ n.stale => Calm(n)
  BY <1>1, Zenon DEF Calm
<1>7. QED
  BY <1>2, <1>3, <1>4, <1>5, <1>6 DEF Sound

\* The innermost scope of m ends, over the storage d.
Ended(m, succeeded) ==
    Settled([m EXCEPT !.scopes = SubSeq(@, 1, Len(m.scopes) - 1)], m.scopes[Len(m.scopes)],
            succeeded)

Left(m, d, succeeded) ==
    IF succeeded \/ m.scopes[Len(m.scopes)].rolledBack THEN d ELSE m.scopes[Len(m.scopes)].saved

\* The end of a scope publishes its view, or takes away what it might disprove.
LEMMA Ending ==
    ASSUME Constants, NEW m, NEW d, NEW r, Sound(m, d, r), Len(m.scopes) > 0,
           NEW succeeded \in BOOLEAN
    PROVE  /\ Sound(Ended(m, succeeded), Left(m, d, succeeded), r)
           /\ Calm(m) => Calm(Ended(m, succeeded))
           /\ Confined(m) => Confined(Ended(m, succeeded))
<1> DEFINE len == Len(m.scopes)
           scope == m.scopes[len]
           e == Left(m, d, succeeded)
           n == Ended(m, succeeded)
<1>0. /\ len \in Nat \ {0} /\ len = Len(m.scopes) /\ scope = m.scopes[len]
      /\ e = IF succeeded \/ scope.rolledBack THEN d ELSE scope.saved
      /\ n = Settled([m EXCEPT !.scopes = SubSeq(@, 1, len - 1)], scope, succeeded)
  BY LenProperties DEF Sound, Typed, Mem, Left, Ended
<1> SUFFICES Sound(n, e, r) /\ (Calm(m) => Calm(n)) /\ (Confined(m) => Confined(n))
  OBVIOUS
<1> HIDE DEF len, scope, e, n
<1> USE <1>0
<1> DEFINE scopes == SubSeq(m.scopes, 1, len - 1)
           b == [m EXCEPT !.scopes = scopes]
           published == Publishes(scope, succeeded)
<1>1. /\ m \in Mem /\ d \in Contents /\ r \in Readers /\ m.scopes \in Seq(Scope)
      /\ len <= MaxDepth /\ m.scopes \in [1..len -> Scope]
  BY LenProperties DEF Sound, Typed, Mem
<1>2. scope \in Scope /\ e \in Contents
  BY <1>1 DEF Scope
<1>3. /\ scopes \in Seq(Scope) /\ Len(scopes) = len - 1
      /\ \A i \in 1..len - 1 : scopes[i] = m.scopes[i]
  BY <1>1, Shortened
<1> HIDE DEF scopes
<1>4. /\ b \in Mem /\ b.scopes = scopes /\ b.roots = m.roots /\ b.committed = m.committed
      /\ b.held = m.held /\ b.stale = m.stale /\ b.enabled = m.enabled
  BY <1>1, <1>3 DEF Mem
<1>5. n = Settled(b, scope, succeeded)
  BY DEF scopes
<1> HIDE DEF b, published
<1>6. PICK v \in 0..len : ViewedTo(m, v)
  BY DEF Sound
<1>7. ASSUME Confined(m), n.enabled, ~ n.stale, m.enabled, ~ m.stale
      PROVE  /\ ~ m.committed.doubted
             /\ \A i \in 1..len : Viewed(m, i) /\ m.scopes[i].view.doubted
                                    => \E j \in 1..i : m.scopes[j].rolledBack
  BY <1>7 DEF Confined
<1>8. /\ Len(b.scopes) = len - 1 /\ \A i \in 1..len - 1 : b.scopes[i] = m.scopes[i]
      /\ \A i \in 1..len - 1 : i \in 1..len /\ m.scopes[i] \in Scope
  <2>1. \A i \in 1..len - 1 : i \in 1..len /\ i # len
    OBVIOUS
  <2>2. QED
    BY <1>1, <1>3, <1>4, <2>1
<1>9. b.enabled => Stacked(b)
  <2>1. SUFFICES ASSUME b.enabled PROVE Stacked(b)
    OBVIOUS
  <2>2. Stacked(m)
    BY <1>4, <2>1 DEF Sound
  <2>3. \A i \in 1..len - 1 : m.scopes[i].tracked => m.scopes[i].cacheable
    BY <1>8, <2>2 DEF Stacked
  <2>4. len - 1 \in Nat /\ len \in Nat /\ len - 1 <= len
    OBVIOUS
  <2>5. b.roots = m.roots /\ len - 1 = Len(b.scopes)
    BY <1>4, <1>8
  <2>6. \A i \in 1..len - 1 : /\ b.scopes[i].tracked = m.scopes[i].tracked
                              /\ b.scopes[i].root = m.scopes[i].root
                              /\ b.scopes[i].tracked => b.scopes[i].cacheable
    BY <1>8, <2>3
  <2>7. QED
    BY <2>2, <2>4, <2>5, <2>6, StackedBelow
<1>10. \A i \in 0..len - 2 : Shown(b, e, i) = Shown(m, d, i)
  <2>1. \A i \in 0..len - 2 : i + 1 \in 1..len - 1 /\ i < len - 1 /\ i < len
    OBVIOUS
  <2>2. QED
    BY <1>8, <2>1 DEF Shown
<1>11. Shown(b, e, len - 1) = e /\ Shown(m, d, len - 1) = scope.saved
  BY <1>8 DEF Shown
<1>12. /\ \A i \in 1..len - 1 : \A j \in 1..i : j \in 1..len - 1
       /\ scope.rolledBack => ~ published
  BY DEF published, Publishes
<1>13. Calm(m) => Calm(b)
  BY <1>4, <1>8 DEF Calm
<1>14. CASE scope.view = NoView
  <2>1. n = b
    BY <1>5, <1>14 DEF Settled, published
  <2>2. ~ Viewed(m, len) /\ len \in 1..len
    BY <1>14 DEF Viewed
  <2>3. v \in 0..len - 1
    BY <1>6, <2>2 DEF ViewedTo
  <2>4. ViewedTo(b, v)
    <3>1. \A i \in 1..len - 1 : i \in 1..len /\ (Viewed(b, i) <=> Viewed(m, i))
      BY <1>8 DEF Viewed
    <3>2. \A i \in 1..len - 1 : Viewed(b, i) <=> i <= v
      BY <1>6, <3>1 DEF ViewedTo
    <3>3. \A i \in 1..v : i \in 1..len - 1
      BY <2>3
    <3>4. QED
      BY <1>4, <1>6, <1>8, <3>2, <3>3 DEF ViewedTo
  <2>5. Typed(b, e, r) /\ (Confined(m) => Confined(b))
    <3>1. Typed(b, e, r)
      BY <1>1, <1>2, <1>4, <1>8, MaxDepthIsNat DEF Typed
    <3>2. ASSUME Confined(m), b.enabled, ~ b.stale PROVE Confined(b)
      BY <1>4, <1>7, <1>8, <1>12, <2>1, <3>2 DEF Confined, Viewed
    <3>3. QED
      BY <3>1, <3>2 DEF Confined
  <2>6. ASSUME b.enabled
        PROVE  Active(b) /\ Unwritten(b, e) /\ (~ b.stale => Truthful(b, e, r))
    <3>1. Active(m) /\ Unwritten(m, d) /\ (~ m.stale => Truthful(m, d, r))
      BY <1>4, <2>6 DEF Sound
    <3>2. Shown(m, d, len) = d /\ Shown(m, d, len) = scope.saved
      BY <2>2, <3>1 DEF Shown, Unwritten
    <3>3. e = scope.saved
      BY <3>2
    <3>4. \A i \in 0..len - 1 : Shown(b, e, i) = Shown(m, d, i)
      <4>1. \A i \in 0..len - 1 : i \in 0..len - 2 \/ i = len - 1
        OBVIOUS
      <4>2. QED
        BY <1>10, <1>11, <3>3, <4>1
    <3>5. Active(b)
      BY <1>4, <1>6, <1>8, <2>3, <3>1 DEF Active, Viewed, ViewedTo
    <3>6. Unwritten(b, e)
      <4> SUFFICES ASSUME NEW i \in 1..len - 1, ~ Viewed(b, i), NEW j \in i..len - 1
                   PROVE  Shown(b, e, j) = b.scopes[i].saved
        BY <1>8 DEF Unwritten
      <4>1. ~ Viewed(m, i) /\ i \in 1..len /\ j \in i..len /\ j \in 0..len - 1
        BY <1>8 DEF Viewed
      <4>2. QED
        BY <1>8, <3>1, <3>4, <4>1 DEF Unwritten
    <3>7. ASSUME ~ b.stale
          PROVE  Truthful(b, e, r)
      <4>1. Truthful(m, d, r)
        BY <1>4, <3>1, <3>7
      <4>2. \A i \in 1..len - 1 : i \in 0..len - 1 /\ i \in 1..len
        OBVIOUS
      <4>3. 0 \in 0..len - 1
        OBVIOUS
      <4>4. QED
        BY <1>4, <1>8, <3>4, <4>1, <4>2, <4>3 DEF Truthful, Viewed
    <3>8. QED
      BY <3>5, <3>6, <3>7
  <2>7. \E w \in 0..Len(b.scopes) : ViewedTo(b, w)
    BY <1>8, <2>3, <2>4
  <2>8. QED
    BY <1>9, <1>13, <2>1, <2>5, <2>6, <2>7 DEF Sound
<1>15. CASE scope.view # NoView /\ len > 1
  <2> DEFINE last == len - 1
             parent == b.scopes[last]
             view == IF published THEN scope.view ELSE EmptyCache(FALSE)
             cacheable == ParentCacheable(scope, parent)
             kept == [parent EXCEPT !.view = view, !.cacheable = cacheable]
             rest == [b.scopes EXCEPT ![last] = kept]
  <2>1. /\ last \in Nat \ {0} /\ last \in 1..last /\ last \in 1..len /\ len \in 1..len
        /\ last = Len(b.scopes) /\ 1..last = 1..len - 1
    BY <1>8, <1>15
  <2>2. v = len
    BY <1>6, <1>15, <2>1 DEF ViewedTo, Viewed
  <2>3. scope.tracked /\ ~ scope.root /\ m.roots = 1 /\ \A i \in 1..len : Viewed(m, i)
    BY <1>6, <1>15, <2>1, <2>2 DEF ViewedTo, Viewed
  <2>4. parent = m.scopes[last] /\ parent \in Scope /\ parent.view # NoView
    BY <1>8, <2>1, <2>3 DEF Viewed
  <2>5. ASSUME published, m.enabled, ~ m.stale
        PROVE  scope.view \in Cache /\ Agrees(scope.view, e)
    <3>1. e = d /\ ~ scope.rolledBack
      BY <2>5 DEF published, Publishes
    <3>2. Truthful(m, d, r) /\ Shown(m, d, len) = d /\ len \in 1..len /\ Viewed(m, len)
      BY <1>15, <2>5 DEF Sound, Shown, Viewed
    <3>3. QED
      BY <1>2, <3>1, <3>2 DEF Truthful, Scope, Viewed
  <2>6. view \in Cache /\ view # NoView
    BY <1>2, <1>15, SomeCaches DEF Scope, Constants, MarksAssumption
  <2>7. cacheable \in BOOLEAN
    BY <1>2, <2>4 DEF ParentCacheable, Scope
  <2>8. n = [b EXCEPT !.scopes = rest]
    <3>1. n = [b EXCEPT !.scopes[last].view = IF @ = NoView THEN NoView
                                              ELSE IF published THEN scope.view
                                              ELSE EmptyCache(FALSE),
                        !.scopes[last].cacheable = ParentCacheable(scope, b.scopes[last])]
      BY <1>5, <1>15, <2>1, <2>3, Zenon DEF Settled, published
    <3>2. b.scopes[last].view # NoView
      BY <2>4
    <3>3. n = [b EXCEPT !.scopes[last].view = view, !.scopes[last].cacheable = cacheable]
      BY <3>1, <3>2
    <3>4. last \in 1..Len(b.scopes)
      BY <2>1
    <3> HIDE DEF view, cacheable, last
    <3>5. [b EXCEPT !.scopes[last].view = view, !.scopes[last].cacheable = cacheable]
          = [b EXCEPT !.scopes = [b.scopes EXCEPT ![last] =
               [b.scopes[last] EXCEPT !.view = view, !.cacheable = cacheable]]]
      <4>1. b.scopes \in [1..Len(b.scopes) -> Scope]
        BY <1>4, LenProperties DEF Mem
      <4> DEFINE one == [b.scopes EXCEPT ![last] = [b.scopes[last] EXCEPT !.view = view]]
      <4>2. one[last] = [b.scopes[last] EXCEPT !.view = view]
        BY <3>4, <4>1
      <4>3. [one EXCEPT ![last] = [one[last] EXCEPT !.cacheable = cacheable]]
            = [b.scopes EXCEPT ![last] =
                 [b.scopes[last] EXCEPT !.view = view, !.cacheable = cacheable]]
        BY <3>4, <4>1, <4>2
      <4>4. QED
        BY <1>4, <4>3 DEF Mem
    <3>6. QED
      BY <3>3, <3>5, Zenon
  <2> HIDE DEF last, parent, view, cacheable
  <2>9. rest \in Seq(Scope) /\ Len(rest) = last
        /\ \A i \in 1..last :
             /\ rest[i].tracked = m.scopes[i].tracked /\ rest[i].root = m.scopes[i].root
             /\ rest[i].saved = m.scopes[i].saved
             /\ rest[i].rolledBack = m.scopes[i].rolledBack
             /\ rest[i].view = IF i = last THEN view ELSE m.scopes[i].view
             /\ rest[i].cacheable = IF i = last THEN cacheable ELSE m.scopes[i].cacheable
    <3>1. kept \in Scope /\ kept.view = view /\ kept.cacheable = cacheable
          /\ kept.tracked = parent.tracked /\ kept.root = parent.root /\ kept.saved = parent.saved
          /\ kept.rolledBack = parent.rolledBack
      BY <2>4, <2>6, <2>7 DEF Scope
    <3> HIDE DEF kept
    <3>2. /\ rest \in Seq(Scope) /\ Len(rest) = last
          /\ \A i \in 1..last : rest[i] = IF i = last THEN kept ELSE b.scopes[i]
      BY <1>3, <1>4, <2>1, <3>1, ExceptSeq
    <3> HIDE DEF rest
    <3>3. \A i \in 1..last : b.scopes[i] = m.scopes[i]
      BY <1>8, <2>1
    <3>4. QED
      BY <2>4, <3>1, <3>2, <3>3
  <2> HIDE DEF rest
  <2>10. /\ n \in Mem /\ n.scopes = rest /\ n.roots = m.roots /\ n.committed = m.committed
         /\ n.held = m.held /\ n.stale = m.stale /\ n.enabled = m.enabled
    BY <1>4, <2>8, <2>9 DEF Mem
  <2>11. Typed(n, e, r) /\ Len(n.scopes) = last
    <3>1. Len(n.scopes) = last /\ last <= MaxDepth
      BY <1>1, <2>9, <2>10, MaxDepthIsNat DEF last
    <3>2. QED
      BY <1>1, <1>2, <2>10, <3>1 DEF Typed
  <2>12. \A i \in 1..last : /\ Viewed(n, i) /\ i <= last /\ i \in 1..len
                            /\ n.scopes[i].tracked /\ (n.scopes[i].root <=> i = 1)
    <3>1. \A i \in 1..last : i \in 1..len
      BY <2>1
    <3>2. \A i \in 1..last : Viewed(n, i)
      BY <2>3, <2>6, <2>9, <2>10, <3>1 DEF Viewed
    <3>3. \A i \in 1..last : n.scopes[i].tracked /\ (n.scopes[i].root <=> i = 1)
      BY <1>6, <2>2, <2>9, <2>10, <3>1 DEF ViewedTo
    <3>4. \A i \in 1..last : i <= last
      BY <2>1
    <3>5. QED
      BY <3>1, <3>2, <3>3, <3>4, Zenon
  <2>13. ViewedTo(n, last) /\ Active(n) /\ Unwritten(n, e)
    <3>1. 1 \in 1..last /\ last > 0
      BY <2>1
    <3>2. ViewedTo(n, last)
      BY <2>3, <2>10, <2>11, <2>12 DEF ViewedTo
    <3>3. QED
      BY <2>11, <2>12, <3>1, <3>2 DEF Active, Unwritten
  <2>14. n.enabled => Stacked(n)
    <3>1. SUFFICES ASSUME n.enabled PROVE Stacked(n)
      OBVIOUS
    <3>2. Stacked(m)
      BY <2>10, <3>1 DEF Sound
    <3>3. \A i \in 1..len : m.scopes[i].tracked => m.scopes[i].cacheable
      BY <3>2 DEF Stacked
    <3>4. cacheable
      BY <2>1, <2>3, <2>4, <2>12, <2>9, <2>10, <3>3 DEF cacheable, ParentCacheable
    <3>5. ASSUME NEW i \in 1..last
          PROVE  n.scopes[i].tracked => n.scopes[i].cacheable
      <4>1. i \in 1..len /\ n.scopes[i].tracked = m.scopes[i].tracked
        BY <2>9, <2>10, <2>12
      <4>2. n.scopes[i].cacheable = IF i = last THEN cacheable ELSE m.scopes[i].cacheable
        BY <2>9, <2>10
      <4>3. QED
        BY <3>3, <3>4, <4>1, <4>2
    <3>6. last <= len /\ last \in Nat
      BY <2>1
    <3>7. \A i \in 1..last : /\ n.scopes[i].tracked = m.scopes[i].tracked
                             /\ n.scopes[i].root = m.scopes[i].root
                             /\ n.scopes[i].tracked => n.scopes[i].cacheable
      <4>1. \A i \in 1..last : n.scopes[i].tracked = m.scopes[i].tracked /\ n.scopes[i].root = m.scopes[i].root
        BY <2>9, <2>10
      <4>2. QED
        BY <3>5, <4>1, Zenon
    <3>8. n.roots = m.roots /\ last = Len(n.scopes) /\ len \in Nat
      BY <2>10, <2>11
    <3>9. QED
      <4>1. /\ last = Len(n.scopes) /\ n.roots = m.roots /\ last <= len /\ last \in Nat
            /\ len \in Nat /\ len = Len(m.scopes)
        BY <3>6, <3>8
      <4> HIDE <1>0
      <4>2. QED
        BY <3>2, <3>7, <4>1, StackedBelow
  <2>15. ASSUME n.enabled, ~ n.stale
         PROVE  Truthful(n, e, r)
    <3>1. Truthful(m, d, r)
      BY <2>10, <2>15 DEF Sound
    <3>2. \A i \in 0..last - 1 : Shown(n, e, i) = Shown(m, d, i)
      <4>1. \A i \in 0..last - 1 : i + 1 \in 1..last /\ i < last /\ i < len
        BY <2>1
      <4>2. QED
        BY <2>9, <2>10, <2>11, <4>1 DEF Shown
    <3>3. Shown(n, e, last) = e
      BY <2>1, <2>11 DEF Shown
    <3>4. Agrees(view, e)
      BY <2>5, <2>10, <2>15, AgreeEmpty DEF view
    <3>5. \A i \in 1..last : Agrees(n.scopes[i].view, Shown(n, e, i))
      <4> SUFFICES ASSUME NEW i \in 1..last
                   PROVE  Agrees(n.scopes[i].view, Shown(n, e, i))
        OBVIOUS
      <4>1. CASE i = last
        BY <2>9, <2>10, <3>3, <3>4, <4>1
      <4>2. CASE i # last
        <5>1. i \in 0..last - 1 /\ i \in 1..len /\ i \in 1..len - 1
          BY <2>1, <4>2
        <5>2. Agrees(m.scopes[i].view, Shown(m, d, i))
          BY <1>8, <2>3, <3>1, <5>1 DEF Truthful
        <5>3. n.scopes[i].view = m.scopes[i].view
          BY <2>9, <2>10, <4>2
        <5>4. QED
          BY <3>2, <5>1, <5>2, <5>3
      <4>3. QED
        BY <4>1, <4>2
    <3>6. Shown(n, e, 0) = Shown(m, d, 0)
      <4>1. 0 \in 0..last - 1
        BY <2>1
      <4>2. QED
        BY <3>2, <4>1
    <3>7. QED
      BY <2>10, <2>11, <3>1, <3>5, <3>6 DEF Truthful
  <2>16. (Calm(m) => Calm(n)) /\ (Confined(m) => Confined(n))
    <3>1. Calm(m) => Calm(n)
      BY <2>10, <2>11, <2>12 DEF Calm
    <3>2. ASSUME Confined(m), n.enabled, ~ n.stale PROVE Confined(n)
      <4>1. /\ ~ m.committed.doubted
            /\ \A i \in 1..len : Viewed(m, i) /\ m.scopes[i].view.doubted
                                    => \E j \in 1..i : m.scopes[j].rolledBack
        BY <1>7, <2>10, <3>2
      <4>2. view.doubted => published
        BY SomeCaches DEF view
      <4>3. published => ~ scope.rolledBack
        BY <1>12
      <4>4. view.doubted => \E j \in 1..last : m.scopes[j].rolledBack
        <5>1. SUFFICES ASSUME view.doubted PROVE \E j \in 1..last : m.scopes[j].rolledBack
          OBVIOUS
        <5>2. view = scope.view /\ ~ scope.rolledBack
          BY <4>2, <4>3, <5>1 DEF view
        <5>3. PICK j \in 1..len : m.scopes[j].rolledBack
          BY <2>1, <2>3, <4>1, <5>1, <5>2
        <5>4. j \in 1..last
          BY <5>2, <5>3 DEF last
        <5>5. QED
          BY <5>3, <5>4
      <4>5. ASSUME NEW i \in 1..last, n.scopes[i].view.doubted
            PROVE  \E j \in 1..i : n.scopes[j].rolledBack
        <5>1. \A j \in 1..i : j \in 1..last
          BY <2>1
        <5>2. \A j \in 1..i : n.scopes[j].rolledBack = m.scopes[j].rolledBack
          BY <2>9, <2>10, <5>1
        <5>3. CASE i = last
          BY <2>9, <2>10, <4>4, <4>5, <5>2, <5>3
        <5>4. CASE i # last
          <6>1. m.scopes[i].view.doubted /\ Viewed(m, i) /\ i \in 1..len
            BY <2>1, <2>3, <2>9, <2>10, <2>12, <4>5, <5>4
          <6>2. QED
            BY <4>1, <5>2, <6>1
        <5>5. QED
          BY <5>3, <5>4
      <4>6. QED
        BY <2>10, <2>11, <4>1, <4>5 DEF Confined
    <3>3. QED
      BY <3>1, <3>2 DEF Confined
  <2>17. \E w \in 0..Len(n.scopes) : ViewedTo(n, w)
    BY <2>1, <2>11, <2>13
  <2>18. QED
    BY <2>11, <2>13, <2>14, <2>15, <2>16, <2>17 DEF Sound
<1>16. CASE scope.view # NoView /\ len = 1
  <2>1. len \in 1..len /\ Len(b.scopes) = 0
    BY <1>8, <1>16
  <2>2. v = 1
    BY <1>6, <1>16, <2>1 DEF ViewedTo, Viewed
  <2>3. scope.tracked /\ scope.root /\ m.roots = 1
    BY <1>6, <1>16, <2>1, <2>2 DEF ViewedTo
  <2>4. RootsAfter(b, published) = 0
    BY <1>4, <2>3 DEF RootsAfter
  <2>5. ASSUME published, m.enabled, ~ m.stale
        PROVE  scope.view \in Cache /\ Agrees(scope.view, e)
    <3>1. e = d /\ ~ scope.rolledBack
      BY <2>5 DEF published, Publishes
    <3>2. Truthful(m, d, r) /\ Shown(m, d, len) = d /\ len \in 1..len /\ Viewed(m, len)
      BY <1>16, <2>5 DEF Sound, Shown, Viewed
    <3>3. QED
      BY <1>2, <3>1, <3>2 DEF Truthful, Scope, Viewed
  <2> DEFINE committed == IF published THEN scope.view ELSE EmptyCache(FALSE)
  <2>6. n = [b EXCEPT !.roots = 0, !.held = FALSE, !.committed = committed]
    BY <1>5, <1>16, <2>3, <2>4 DEF Settled, published
  <2>7. committed \in Cache
    BY <1>2, <1>16, SomeCaches DEF Scope
  <2>8. m.enabled /\ ~ m.stale => Agrees(committed, e)
    BY <2>5, AgreeEmpty
  <2> HIDE DEF committed
  <2>9. /\ n \in Mem /\ n.scopes = scopes /\ n.roots = 0 /\ n.committed = committed
        /\ n.held = FALSE /\ n.stale = m.stale /\ n.enabled = m.enabled
    BY <1>4, <2>6, <2>7 DEF Mem
  <2>10. Len(n.scopes) = 0
    BY <1>4, <2>1, <2>9
  <2> HIDE DEF scopes
  <2>11. Typed(n, e, r)
    BY <1>1, <1>2, <2>9, <2>10, MaxDepthIsNat DEF Typed
  <2>12. n.enabled /\ ~ n.stale =>
           Agrees(n.committed, e) /\ (n.held /\ r # NoReader => r.revision = e.rows[r.alarm])
    BY <2>8, <2>9
  <2>13. n.roots = 0
    BY <2>9
  <2>14. Sound(n, e, r) /\ (n.enabled /\ ~ n.stale => Calm(n))
    BY <2>10, <2>11, <2>12, <2>13, Outside
  <2>15. Calm(m) => n.enabled /\ ~ n.stale
    BY <2>9 DEF Calm
  <2>16. Confined(m) => Confined(n)
    <3> SUFFICES ASSUME Confined(m), n.enabled, ~ n.stale PROVE Confined(n)
      BY DEF Confined
    <3>1. ~ scope.rolledBack => ~ scope.view.doubted
      <4>1. Viewed(m, len) /\ len \in 1..len /\ m.enabled /\ ~ m.stale
        BY <1>16, <2>1, <2>9 DEF Viewed
      <4>2. scope.view.doubted => \E j \in 1..len : m.scopes[j].rolledBack
        BY <1>7, <4>1
      <4>3. \A j \in 1..len : j = len
        BY <1>16
      <4>4. QED
        BY <4>2, <4>3
    <3>2. ~ committed.doubted
      BY <1>12, <3>1, SomeCaches DEF committed
    <3>3. QED
      BY <2>9, <2>10, <2>11, <2>12, <2>13, <3>2, Outside
  <2>17. QED
    BY <2>14, <2>15, <2>16
<1>17. len > 1 \/ len = 1
  BY OneOrMore, Zenon
<1>18. QED
  BY <1>14, <1>15, <1>16, <1>17

LEMMA CloseOK ==
    ASSUME Constants, IInv, NEW succeeded \in BOOLEAN, CloseScope(succeeded)
    PROVE  IInv'
<1>1. /\ Len(mem.scopes) > 0 /\ UNCHANGED <<reader, deleting, writes, deletes, repeats, surprised>>
      /\ db' = Left(mem, db, succeeded) /\ mem' = Ended(mem, succeeded)
  BY Zenon DEF CloseScope, Left, Ended, Top
<1>2. Sound(mem', db', reader) /\ (Calm(mem) => Calm(mem')) /\ (Confined(mem) => Confined(mem'))
  BY <1>1, Ending DEF IInv
<1>3. QED
  BY <1>1, <1>2 DEF IInv

LEMMA OpenedOK ==
    ASSUME Constants, IInv, Top < MaxDepth,
           NEW tracked \in BOOLEAN, NEW root \in BOOLEAN, NEW cacheable \in BOOLEAN,
           mem.enabled /\ (tracked => cacheable) =>
             /\ root => tracked /\ (Top > 0 => mem.roots = 1)
             /\ tracked /\ ~ root => Top > 0 /\ mem.scopes[Top].tracked,
           NEW n, n = Opened(tracked, root, cacheable)
    PROVE  /\ Sound(n, db, reader)
           /\ Calm(mem) /\ tracked /\ cacheable /\ (root <=> Top = 0) => Calm(n)
           /\ Confined(mem) => Confined(n)
<1>1. n = Grown(mem, db, tracked, root, cacheable)
  BY Zenon DEF Opened, Grown
<1>2. Sound(mem, db, reader)
  BY DEF IInv
<1>3. QED
  BY <1>1, <1>2, Opening DEF Top

LEMMA OpenOK == ASSUME Constants, IInv, Open PROVE IInv'
<1> DEFINE root == \A i \in 1..Top : ~ mem.scopes[i].tracked
           cacheable == Top = 0 \/ (mem.scopes[Top].tracked /\ mem.scopes[Top].cacheable)
<1>1. /\ Top < MaxDepth /\ mem' = Opened(TRUE, root, cacheable)
      /\ UNCHANGED <<db, reader, deleting, writes, deletes, repeats, surprised>>
  BY Zenon DEF Open
<1>2. Top \in Nat /\ Top = Len(mem.scopes) /\ mem.scopes \in [1..Top -> Scope]
  BY LenProperties DEF IInv, Sound, Typed, Mem, Top
<1>3. Top > 0 => Top \in 1..Top /\ mem.scopes[Top].cacheable \in BOOLEAN
                 /\ mem.scopes[Top].tracked \in BOOLEAN
  BY <1>2 DEF Scope
<1>4. root \in BOOLEAN /\ cacheable \in BOOLEAN
  OBVIOUS
<1>5. cacheable /\ Top > 0 => mem.scopes[Top].tracked /\ ~ root
  BY <1>2, <1>3
<1>6. ~ root => Top > 0
  BY <1>2
<1>7. Calm(mem) => cacheable /\ (root <=> Top = 0)
  BY <1>2, <1>3 DEF IInv, Sound, Calm, Stacked
<1> HIDE DEF root, cacheable
<1>8. Sound(mem', db, reader) /\ (Calm(mem) => Calm(mem')) /\ (Confined(mem) => Confined(mem'))
  <2>1. /\ Sound(mem', db, reader) /\ (Confined(mem) => Confined(mem'))
        /\ Calm(mem) /\ TRUE /\ cacheable /\ (root <=> Top = 0) => Calm(mem')
    BY <1>1, <1>2, <1>4, <1>5, <1>6, OpenedOK
  <2>2. QED
    BY <1>7, <2>1
<1>9. QED
  BY <1>1, <1>8 DEF IInv

LEMMA OpenOverlappingOK == ASSUME Constants, IInv, OpenOverlapping PROVE IInv'
<1>1. /\ Top \in 1..(MaxDepth - 1) /\ mem.roots > 0
      /\ mem' = Opened(TRUE, TRUE, TRUE) /\ surprised' = TRUE
      /\ UNCHANGED <<db, reader, deleting, writes, deletes, repeats>>
  BY DEF OpenOverlapping
<1>2. mem.roots = 1 /\ Top < MaxDepth
  BY <1>1, MaxDepthIsNat DEF IInv, Sound, Typed, Mem
<1>3. Sound(mem', db, reader) /\ (Confined(mem) => Confined(mem'))
  BY <1>1, <1>2, OpenedOK
<1>4. QED
  BY <1>1, <1>3 DEF IInv

LEMMA OpenHiddenOK == ASSUME Constants, IInv, OpenHidden PROVE IInv'
<1>1. /\ Top < MaxDepth /\ mem' = Opened(FALSE, FALSE, FALSE) /\ surprised' = TRUE
      /\ UNCHANGED <<db, reader, deleting, writes, deletes, repeats>>
  BY DEF OpenHidden
<1>2. Sound(mem', db, reader) /\ (Confined(mem) => Confined(mem'))
  BY <1>1, OpenedOK
<1>3. QED
  BY <1>1, <1>2 DEF IInv

LEMMA BlindOK == ASSUME Constants, IInv, Blind PROVE IInv'
<1> DEFINE n == Refreshed(mem)
<1>1. /\ mem' = [n EXCEPT !.enabled = FALSE] /\ surprised' = TRUE
      /\ UNCHANGED <<db, reader, deleting, writes, deletes, repeats>>
  BY DEF Blind, Disabled
<1>2. Typed(n, db, reader) /\ \E v \in 0..Len(n.scopes) : ViewedTo(n, v)
  BY Refreshing DEF IInv
<1> HIDE DEF n
<1>3. /\ mem' \in Mem /\ mem'.scopes = n.scopes /\ mem'.roots = n.roots
      /\ ~ mem'.enabled
  BY <1>1, <1>2 DEF Typed, Mem
<1>4. Typed(mem', db, reader) /\ Confined(mem')
  BY <1>2, <1>3 DEF Typed, Confined
<1>5. \E v \in 0..Len(mem'.scopes) : ViewedTo(mem', v)
  BY <1>2, <1>3 DEF ViewedTo, Viewed
<1>6. Sound(mem', db, reader)
  BY <1>3, <1>4, <1>5 DEF Sound
<1>7. QED
  BY <1>1, <1>4, <1>6 DEF IInv

\* Storage returns to the savepoint of the innermost scope, whose view is in doubt then:
\* after tx.rollback, and when the platform runs the callback again.
Retaken(m, back) ==
    LET len == Len(m.scopes)
        scope == m.scopes[len]
    IN  [m EXCEPT !.scopes = [m.scopes EXCEPT ![len] =
           [scope EXCEPT !.rolledBack = back, !.view = Doubted(scope.view)]]]

LEMMA TakingBack ==
    ASSUME Constants, NEW m, NEW d, NEW r, Sound(m, d, r), Len(m.scopes) > 0,
           NEW back \in BOOLEAN, NEW n, n = Retaken(m, back)
    PROVE  /\ Sound(n, m.scopes[Len(m.scopes)].saved, r) /\ (Calm(m) => Calm(n))
           /\ back /\ Confined(m) => Confined(n)
<1> DEFINE len == Len(m.scopes)
           saved == m.scopes[len].saved
           view == Doubted(m.scopes[len].view)
           scopes == [m.scopes EXCEPT ![len] =
                        [m.scopes[len] EXCEPT !.rolledBack = back, !.view = view]]
<1>0. /\ len = Len(m.scopes) /\ len > 0 /\ saved = m.scopes[len].saved
      /\ view = Doubted(m.scopes[len].view)
      /\ scopes = [m.scopes EXCEPT ![len] =
                     [m.scopes[len] EXCEPT !.rolledBack = back, !.view = view]]
      /\ n = [m EXCEPT !.scopes = scopes]
  BY DEF Retaken
<1> HIDE DEF len, saved, view, scopes
<1> USE <1>0
<1>2. /\ len \in Nat \ {0} /\ len = Len(m.scopes) /\ m.scopes \in [1..len -> Scope]
      /\ m \in Mem /\ m.scopes \in Seq(Scope) /\ len \in 1..len /\ len <= MaxDepth
      /\ r \in Readers
  BY LenProperties DEF Sound, Typed, Mem
<1>a. m.scopes[len] \in Scope
  BY <1>2
<1>b. /\ view \in Cache \cup {NoView} /\ (view = NoView <=> m.scopes[len].view = NoView)
      /\ view # NoView => view.doubted
  <2>1. CASE m.scopes[len].view = NoView
    BY <2>1 DEF Doubted
  <2>2. CASE m.scopes[len].view # NoView
    <3>1. m.scopes[len].view \in Cache
      BY <1>a, <2>2 DEF Scope
    <3>2. view = [m.scopes[len].view EXCEPT !.doubted = TRUE]
      BY <2>2 DEF Doubted
    <3>3. view \in Cache /\ view.doubted
      BY <3>1, <3>2 DEF Cache
    <3>4. QED
      BY <2>2, <3>3 DEF Constants, MarksAssumption
  <2>3. QED
    BY <2>1, <2>2
<1> DEFINE top == [m.scopes[len] EXCEPT !.rolledBack = back, !.view = view]
<1>c. /\ top \in Scope /\ top.tracked = m.scopes[len].tracked /\ top.root = m.scopes[len].root
      /\ top.saved = saved /\ top.cacheable = m.scopes[len].cacheable
      /\ top.view = view /\ top.rolledBack = back
  BY <1>a, <1>b DEF Scope
<1> HIDE DEF top
<1>4. scopes \in [1..len -> Scope] /\ \A i \in 1..len : scopes[i] = IF i = len THEN top ELSE m.scopes[i]
  BY <1>2, <1>c DEF top
<1>d. scopes \in Seq(Scope) /\ Len(scopes) = len
  <2>1. len \in Nat /\ scopes \in [1..len -> Scope]
    BY <1>2, <1>4
  <2>2. \A f \in [1..len -> Scope] : f \in Seq(Scope) /\ Len(f) = len
    BY <2>1, FunctionsAreSequences
  <2>3. QED
    BY <2>1, <2>2, Zenon
<1>5. \A i \in 1..len :
        /\ scopes[i].tracked = m.scopes[i].tracked /\ scopes[i].root = m.scopes[i].root
        /\ scopes[i].saved = m.scopes[i].saved
        /\ scopes[i].cacheable = m.scopes[i].cacheable
        /\ scopes[i].view = IF i = len THEN view ELSE m.scopes[i].view
        /\ scopes[i].rolledBack = IF i = len THEN back ELSE m.scopes[i].rolledBack
  BY <1>4, <1>c
<1>6. saved \in Contents
  BY <1>a DEF Scope
<1>7. /\ n \in Mem /\ n.scopes = scopes /\ n.roots = m.roots
      /\ n.committed = m.committed /\ n.held = m.held
      /\ n.stale = m.stale /\ n.enabled = m.enabled
  BY <1>2, <1>d DEF Mem
<1>8. Typed(n, saved, r) /\ Len(n.scopes) = len
  BY <1>2, <1>d, <1>6, <1>7 DEF Typed
<1>v. \A i \in 1..len : Viewed(n, i) <=> Viewed(m, i)
  BY <1>5, <1>7, <1>b DEF Viewed
<1>9. \E v \in 0..Len(n.scopes) : ViewedTo(n, v)
  <2>1. PICK v \in 0..len : ViewedTo(m, v)
    BY <1>2 DEF Sound
  <2>2. \A i \in 1..len : Viewed(n, i) <=> i <= v
    BY <1>2, <1>v, <2>1 DEF ViewedTo
  <2>3. \A i \in 1..v : i \in 1..len
    BY <1>2
  <2>4. ViewedTo(n, v)
    <3>1. \A i \in 1..v : n.scopes[i].tracked /\ (n.scopes[i].root <=> i = 1)
      BY <1>5, <1>7, <2>1, <2>3 DEF ViewedTo
    <3>2. v > 0 => n.roots = 1
      BY <1>7, <2>1 DEF ViewedTo
    <3>3. QED
      BY <1>8, <2>2, <3>1, <3>2 DEF ViewedTo
  <2>5. QED
    BY <1>8, <2>1, <2>4
<1>11. \A i \in 0..len - 1 : Shown(n, saved, i) = Shown(m, d, i)
  <2> SUFFICES ASSUME NEW i \in 0..len - 1
               PROVE  Shown(n, saved, i) = Shown(m, d, i)
    OBVIOUS
  <2>1. i + 1 \in 1..len /\ i < Len(n.scopes) /\ i < Len(m.scopes)
    BY <1>2, <1>8
  <2>2. n.scopes[i + 1].saved = m.scopes[i + 1].saved
    BY <1>5, <1>7, <2>1
  <2>3. QED
    BY <2>1, <2>2 DEF Shown
<1>12. Shown(n, saved, len) = saved /\ Shown(m, d, len - 1) = saved
  BY <1>2, <1>8 DEF Shown
<1>13. ASSUME n.enabled
       PROVE  Stacked(n) /\ Active(n) /\ Unwritten(n, saved)
  <2>1. Stacked(m) /\ Active(m) /\ Unwritten(m, d)
    BY <1>7, <1>13 DEF Sound
  <2>2. len \in Nat /\ len <= len /\ n.roots = m.roots
    BY <1>2, <1>7
  <2>3. \A i \in 1..len : /\ n.scopes[i].tracked = m.scopes[i].tracked
                          /\ n.scopes[i].root = m.scopes[i].root
    BY <1>5, <1>7
  <2>4. \A i \in 1..len : n.scopes[i].tracked => n.scopes[i].cacheable
    BY <1>2, <1>5, <1>7, <2>1 DEF Stacked
  <2>5. Stacked(n)
    <3>1. /\ len = Len(n.scopes) /\ len = Len(m.scopes)
          /\ \A i \in 1..len : /\ n.scopes[i].tracked = m.scopes[i].tracked
                               /\ n.scopes[i].root = m.scopes[i].root
                               /\ n.scopes[i].tracked => n.scopes[i].cacheable
      BY <1>8, <2>3, <2>4
    <3> HIDE <1>0
    <3>2. QED
      BY <2>1, <2>2, <3>1, StackedBelow, ZenonT(60)
  <2>6. Active(n)
    <3>1. 1 \in 1..len /\ len > 0
      BY <1>2
    <3>2. Viewed(n, 1) <=> Viewed(m, 1)
      BY <1>v, <3>1
    <3>3. QED
      BY <1>7, <1>8, <2>1, <3>1, <3>2 DEF Active
  <2>7. Unwritten(n, saved)
    <3> SUFFICES ASSUME NEW i \in 1..len, ~ Viewed(n, i), NEW j \in i..len
                 PROVE  Shown(n, saved, j) = n.scopes[i].saved
      BY <1>8 DEF Unwritten
    <3>1. ~ Viewed(m, i) /\ n.scopes[i].saved = m.scopes[i].saved
      BY <1>5, <1>7, <1>v
    <3>2. CASE i = len
      BY <1>2, <1>12, <3>1, <3>2
    <3>3. CASE i # len /\ j = len
      <4>1. len - 1 \in i..len
        BY <1>2, <3>3
      <4>2. QED
        BY <1>2, <1>12, <2>1, <3>1, <3>3, <4>1 DEF Unwritten
    <3>4. CASE i # len /\ j # len
      <4>1. j \in 0..len - 1
        BY <1>2, <3>4
      <4>2. QED
        BY <1>2, <1>11, <2>1, <3>1, <4>1 DEF Unwritten
    <3>5. QED
      BY <3>2, <3>3, <3>4
  <2>8. QED
    BY <2>5, <2>6, <2>7
<1>14. ASSUME n.enabled, ~ n.stale
       PROVE  Truthful(n, saved, r)
  <2>1. Truthful(m, d, r)
    BY <1>7, <1>14 DEF Sound
  <2>2. Shown(n, saved, 0) = Shown(m, d, 0)
    <3>1. 0 \in 0..len - 1
      BY <1>2
    <3>2. QED
      BY <1>11, <3>1, Zenon
  <2>3. \A i \in 1..len : i = len \/ i \in 0..len - 1
    BY <1>2
  <2>4. ASSUME NEW i \in 1..len, Viewed(n, i)
        PROVE  Agrees(n.scopes[i].view, Shown(n, saved, i))
    <3>1. CASE i = len
      BY <1>5, <1>7, <1>b, <2>4, <3>1 DEF Agrees, Viewed
    <3>2. CASE i # len
      <4>1. Viewed(m, i) /\ n.scopes[i].view = m.scopes[i].view
        BY <1>5, <1>7, <1>v, <2>4, <3>2
      <4>2. Agrees(m.scopes[i].view, Shown(m, d, i))
        BY <1>2, <2>1, <2>4, <4>1 DEF Truthful
      <4>3. QED
        BY <1>11, <2>3, <2>4, <3>2, <4>1, <4>2
    <3>3. QED
      BY <3>1, <3>2
  <2>5. QED
    BY <1>7, <1>8, <2>1, <2>2, <2>4 DEF Truthful
<1>15. Calm(m) => Calm(n)
  BY <1>2, <1>5, <1>7, <1>8 DEF Calm
<1>16. Sound(n, saved, r)
  BY <1>8, <1>9, <1>13, <1>14 DEF Sound
<1>17. ASSUME back, Confined(m), n.enabled, ~ n.stale
       PROVE  Confined(n)
  <2>1. /\ ~ m.committed.doubted
        /\ \A i \in 1..len : Viewed(m, i) /\ m.scopes[i].view.doubted
                               => \E j \in 1..i : m.scopes[j].rolledBack
    BY <1>2, <1>7, <1>17 DEF Confined
  <2>2. ASSUME NEW i \in 1..len, Viewed(n, i), n.scopes[i].view.doubted
        PROVE  \E j \in 1..i : n.scopes[j].rolledBack
    <3>1. CASE i = len
      <4>1. n.scopes[i].rolledBack /\ i \in 1..i
        BY <1>2, <1>5, <1>7, <1>17, <3>1
      <4>2. QED
        BY <4>1
    <3>2. CASE i # len
      <4>1. PICK j \in 1..i : m.scopes[j].rolledBack
        BY <1>5, <1>7, <1>v, <2>1, <2>2, <3>2
      <4>2. j \in 1..len /\ j # len
        BY <1>2, <3>2
      <4>3. QED
        BY <1>5, <1>7, <4>1, <4>2
    <3>3. QED
      BY <3>1, <3>2
  <2>3. QED
    BY <1>7, <1>8, <2>1, <2>2 DEF Confined
<1>18. back /\ Confined(m) => Confined(n)
  BY <1>17 DEF Confined
<1>19. QED
  BY <1>15, <1>16, <1>18

LEMMA RollbackOK == ASSUME Constants, IInv, Rollback PROVE IInv'
<1>1. /\ Len(mem.scopes) > 0 /\ db' = mem.scopes[Len(mem.scopes)].saved
      /\ mem' = Retaken(mem, TRUE)
      /\ UNCHANGED <<reader, deleting, writes, deletes, repeats, surprised>>
  BY Zenon DEF Rollback, TakeBack, Top, Retaken
<1>2. Sound(mem', db', reader) /\ (Calm(mem) => Calm(mem')) /\ (Confined(mem) => Confined(mem'))
  BY <1>1, TakingBack DEF IInv
<1>3. QED
  BY <1>1, <1>2 DEF IInv

LEMMA RepeatOK == ASSUME Constants, IInv, Repeat PROVE IInv'
<1>1. /\ Len(mem.scopes) = 1 /\ repeats < MaxRepeats /\ repeats' = repeats + 1
      /\ db' = mem.scopes[Len(mem.scopes)].saved /\ mem' = Retaken(mem, FALSE)
      /\ UNCHANGED <<reader, deleting, writes, deletes, surprised>>
  <2>1. Len(mem.scopes) = 1 /\ TakeBack(FALSE) /\ repeats < MaxRepeats /\ repeats' = repeats + 1
        /\ UNCHANGED <<reader, deleting, writes, deletes, surprised>>
    BY DEF Repeat, Top
  <2>2. db' = mem.scopes[Len(mem.scopes)].saved /\ mem' = Retaken(mem, FALSE)
    BY <2>1, Zenon DEF TakeBack, Top, Retaken
  <2>3. QED
    BY <2>1, <2>2
<1>2. Sound(mem', db', reader) /\ (Calm(mem) => Calm(mem'))
  <2>1. Sound(mem, db, reader) /\ Len(mem.scopes) > 0 /\ FALSE \in BOOLEAN
    BY <1>1 DEF IInv
  <2>2. QED
    BY <1>1, <2>1, TakingBack
<1>3. repeats' \in 0..MaxRepeats /\ repeats' # 0
  BY <1>1 DEF IInv, Constants, CacheAssumption
<1>4. QED
  BY <1>1, <1>2, <1>3 DEF IInv

----------------------------------------------------------------------------
(* Outside transactions, and deleteAll. *)

LEMMA RememberedIsCache ==
    ASSUME Constants, NEW cache \in Cache, NEW a \in RowIds, NEW revision \in RowRevisions
    PROVE  /\ Remembered(cache, a, revision) \in Cache
           /\ Remembered(cache, a, revision).doubted = cache.doubted
<1>1. 0 \in RowRevisions
  BY DEF RowRevisions, Constants, CacheAssumption
<1>2. CASE a \in Oversized
  BY <1>1, <1>2 DEF Remembered, Cache
<1>3. CASE a \notin Oversized /\ (a \in Cached(cache) \/ Cardinality(Cached(cache)) < MaxCached)
  BY <1>3 DEF Remembered, Cache
<1>4. CASE a \notin Oversized /\ ~ (a \in Cached(cache) \/ Cardinality(Cached(cache)) < MaxCached)
  BY <1>1, <1>4 DEF Remembered, Cache
<1>5. QED
  BY <1>2, <1>3, <1>4

LEMMA QueryOK == ASSUME Constants, IInv, NEW a \in RowIds, Query(a) PROVE IInv'
<1> DEFINE m == Refreshed(mem)
           d == [db EXCEPT !.table = TRUE]
           committed == [m.committed EXCEPT !.schema = TRUE]
           row == [alarm |-> a, revision |-> db.rows[a]]
<1>1. Accessed(0) = m
  BY DEF Accessed
<1>2. /\ Top = 0 /\ db' = d /\ reader' = row /\ UNCHANGED <<deleting, writes, deletes, repeats, surprised>>
      /\ mem' = [IF ~ m.enabled THEN m ELSE [m EXCEPT !.committed = committed] EXCEPT !.held = TRUE]
  BY <1>1 DEF Query, Through
<1>3. /\ Typed(m, db, reader) /\ Len(m.scopes) = 0 /\ ~ m.stale /\ m.enabled = mem.enabled
      /\ m.roots = mem.roots
      /\ m.enabled => Sound(m, db, reader) \/ m.roots = 1
      /\ Confined(mem) => Confined(m)
  BY <1>2, Refreshing DEF IInv, SameButViews, Top
<1>4. m.enabled => m.roots = 0 /\ Sound(m, db, reader)
  BY <1>2, <1>3 DEF IInv, Sound, Typed, Mem, Active, Top
<1>5. m.enabled => Agrees(m.committed, db)
  <2>1. SUFFICES ASSUME m.enabled PROVE Agrees(m.committed, db)
    OBVIOUS
  <2>2. Truthful(m, db, reader) /\ Shown(m, db, 0) = db
    BY <1>3, <1>4, <2>1 DEF Sound, Shown
  <2>3. QED
    BY <2>2 DEF Truthful
<1>6. db \in Contents /\ m.committed \in Cache
  BY <1>3 DEF Typed, Mem
<1> HIDE DEF m
<1>7. d \in Contents /\ row \in Readers /\ d.rows = db.rows
  BY <1>6 DEF Contents, Readers
<1>8. /\ committed \in Cache /\ (m.enabled => Agrees(committed, d))
      /\ committed.doubted = m.committed.doubted
  BY <1>5, <1>6 DEF Cache, Contents, Agrees
<1>9. row.alarm = a /\ row.revision = db.rows[a]
  OBVIOUS
<1> HIDE DEF d, committed, row
<1>10. /\ mem' \in Mem /\ mem'.scopes = m.scopes /\ mem'.roots = m.roots
       /\ mem'.enabled = m.enabled /\ mem'.stale = m.stale
       /\ m.enabled => mem'.committed = committed
  BY <1>2, <1>3, <1>8 DEF Typed, Mem
<1>11. Typed(mem', d, row)
  BY <1>3, <1>7, <1>10 DEF Typed
<1>12. /\ Sound(mem', d, row) /\ (mem'.enabled /\ ~ mem'.stale => Calm(mem'))
       /\ ~ mem'.committed.doubted => Confined(mem')
  BY <1>3, <1>4, <1>7, <1>8, <1>9, <1>10, <1>11, Outside
<1>13. Confined(mem) => Confined(mem')
  BY <1>3, <1>8, <1>10, <1>12 DEF Confined
<1>14. QED
  BY <1>2, <1>3, <1>10, <1>12, <1>13 DEF IInv, Calm

LEMMA KeepOK == ASSUME Constants, IInv, KeepRow PROVE IInv'
<1> DEFINE keeps == mem.held /\ reader.revision # 0
           shown == Shown(mem, db, 0)
           committed == IF keeps THEN Remembered(mem.committed, reader.alarm, reader.revision)
                        ELSE mem.committed
<1>1. /\ reader # NoReader /\ reader' = NoReader
      /\ mem' = [mem EXCEPT !.held = FALSE, !.committed = committed]
      /\ UNCHANGED <<db, deleting, writes, deletes, repeats, surprised>>
  BY Zenon DEF KeepRow, SameCache
<1>2. Sound(mem, db, reader) /\ mem \in Mem /\ mem.committed \in Cache /\ db \in Contents
      /\ Len(mem.scopes) \in Nat /\ mem.scopes \in [1..Len(mem.scopes) -> Scope]
  BY LenProperties DEF IInv, Sound, Typed, Mem
<1>3. reader.alarm \in RowIds /\ reader.revision \in RowRevisions
  BY <1>1 DEF IInv, Sound, Typed, Readers
<1>4. shown \in Contents
  BY <1>2 DEF Shown, Scope
<1>5. committed \in Cache
  BY <1>2, <1>3, RememberedIsCache
<1>6. ASSUME mem.enabled, ~ mem.stale
      PROVE  Agrees(committed, shown)
  <2>1. Agrees(mem.committed, shown) /\ (mem.held => reader.revision = shown.rows[reader.alarm])
    BY <1>1, <1>2, <1>6 DEF Sound, Truthful
  <2> HIDE DEF shown
  <2>2. CASE keeps
    <3>1. Agrees(Remembered(mem.committed, reader.alarm, reader.revision),
                 [shown EXCEPT !.rows[reader.alarm] = reader.revision])
      BY <1>2, <1>3, <1>4, <2>1, RememberedAgrees
    <3>2. [shown EXCEPT !.rows[reader.alarm] = reader.revision] = shown
      BY <1>3, <1>4, <2>1, <2>2 DEF Contents
    <3>3. QED
      BY <2>2, <3>1, <3>2
  <2>3. CASE ~ keeps
    BY <2>1, <2>3
  <2>4. QED
    BY <2>2, <2>3
<1> HIDE DEF committed, keeps
<1>7. /\ mem' \in Mem /\ mem'.scopes = mem.scopes /\ mem'.roots = mem.roots /\ ~ mem'.held
      /\ mem'.committed = committed /\ mem'.enabled = mem.enabled /\ mem'.stale = mem.stale
  BY <1>1, <1>2, <1>5 DEF Mem
<1>8. Shown(mem', db, 0) = shown /\ \A i \in 1..Len(mem.scopes) : Shown(mem', db, i) = Shown(mem, db, i)
  BY <1>7 DEF Shown
<1>9. Typed(mem', db, reader')
  BY <1>1, <1>2, <1>7 DEF Sound, Typed, Readers
<1>10. /\ \E v \in 0..Len(mem'.scopes) : ViewedTo(mem', v)
       /\ Confined(mem) => Confined(mem')
  <2>1. committed.doubted = mem.committed.doubted
    BY <1>2, <1>3, RememberedIsCache DEF committed
  <2>2. Confined(mem) => Confined(mem')
    BY <1>7, <2>1 DEF Confined, Viewed
  <2>3. QED
    BY <1>2, <1>7, <2>2 DEF Sound, ViewedTo, Viewed
<1>11. mem'.enabled => Stacked(mem') /\ Active(mem') /\ Unwritten(mem', db)
  <2>1. SUFFICES ASSUME mem'.enabled PROVE Stacked(mem') /\ Active(mem') /\ Unwritten(mem', db)
    OBVIOUS
  <2>2. Stacked(mem) /\ Active(mem) /\ Unwritten(mem, db)
    BY <1>2, <1>7, <2>1 DEF Sound
  <2>3. Stacked(mem')
    <3>1. mem'.scopes = mem.scopes /\ mem'.roots = mem.roots
      BY <1>7
    <3>2. Stacked(mem)
      BY <2>2
    <3>3. \A i \in 1..Len(mem.scopes) : mem.scopes[i].tracked => mem.scopes[i].cacheable
      BY <3>2 DEF Stacked
    <3>4. Len(mem.scopes) <= Len(mem.scopes) /\ Len(mem'.scopes) = Len(mem.scopes)
      BY <1>2, <3>1
    <3>5. \A i \in 1..Len(mem.scopes) : /\ mem'.scopes[i].tracked = mem.scopes[i].tracked
                                        /\ mem'.scopes[i].root = mem.scopes[i].root
                                        /\ mem'.scopes[i].tracked => mem'.scopes[i].cacheable
      BY <3>1, <3>3
    <3>6. QED
      BY <1>2, <3>1, <3>2, <3>4, <3>5, StackedBelow
  <2>4. Active(mem')
    BY <1>7, <2>2 DEF Active, Viewed
  <2>5. Unwritten(mem', db)
    BY <1>7, <2>2 DEF Unwritten, Viewed, Shown
  <2>6. QED
    BY <2>3, <2>4, <2>5
<1>12. mem'.enabled /\ ~ mem'.stale => Truthful(mem', db, reader')
  BY <1>2, <1>6, <1>7, <1>8 DEF Sound, Truthful, Viewed
<1>13. Calm(mem) => Calm(mem')
  BY <1>7 DEF Calm
<1>14. QED
  BY <1>1, <1>9, <1>10, <1>11, <1>12, <1>13 DEF IInv, Sound

LEMMA DeliverOK == ASSUME Constants, IInv, Deliver PROVE IInv'
<1> DEFINE committed == [mem.committed EXCEPT !.native = Unread]
           d == [db EXCEPT !.native = 0]
<1>1. /\ Len(mem.scopes) = 0 /\ db' = d /\ mem' = [mem EXCEPT !.committed = committed]
      /\ UNCHANGED <<reader, deleting, writes, deletes, repeats, surprised>>
  BY DEF Deliver, Top
<1>2. Sound(mem, db, reader) /\ mem \in Mem /\ mem.committed \in Cache /\ db \in Contents
  BY DEF IInv, Sound, Typed, Mem
<1>3. d \in Contents /\ d.rows = db.rows /\ d.table = db.table
  BY <1>2 DEF Contents
<1>4. /\ committed \in Cache /\ (Agrees(mem.committed, db) => Agrees(committed, d))
      /\ committed.doubted = mem.committed.doubted
  BY <1>2, <1>3 DEF Cache, Agrees
<1> HIDE DEF committed, d
<1>5. /\ mem' \in Mem /\ mem'.scopes = mem.scopes /\ mem'.roots = mem.roots
      /\ mem'.committed = committed /\ mem'.held = mem.held
      /\ mem'.enabled = mem.enabled /\ mem'.stale = mem.stale
  BY <1>1, <1>2, <1>4 DEF Mem
<1>6. Typed(mem', d, reader) /\ (mem.enabled => mem.roots = 0)
  BY <1>1, <1>2, <1>3, <1>5 DEF Sound, Typed, Active, Mem
<1>7. ASSUME mem.enabled, ~ mem.stale
      PROVE  Agrees(committed, d)
             /\ (mem.held /\ reader # NoReader => reader.revision = d.rows[reader.alarm])
  <2>1. Truthful(mem, db, reader) /\ Shown(mem, db, 0) = db
    BY <1>1, <1>2, <1>7 DEF Sound, Shown
  <2>2. QED
    BY <1>3, <1>4, <2>1 DEF Truthful
<1>8. /\ Sound(mem', d, reader) /\ (mem'.enabled /\ ~ mem'.stale => Calm(mem'))
      /\ ~ mem'.committed.doubted => Confined(mem')
  BY <1>1, <1>5, <1>6, <1>7, Outside
<1>9. Confined(mem) => Confined(mem')
  BY <1>4, <1>5, <1>8 DEF Confined
<1>10. QED
  BY <1>1, <1>5, <1>8, <1>9 DEF IInv, Calm

\* A version that moved on leaves everything in place but what is believed of it.
LEMMA Invalidating ==
    ASSUME Constants, NEW m, NEW d, NEW r, Typed(m, d, r)
    PROVE  /\ Typed(Invalidated(m), d, r) /\ Invalidated(m).stale
           /\ Invalidated(m).enabled = m.enabled /\ Invalidated(m).roots = m.roots
           /\ Len(Invalidated(m).scopes) = Len(m.scopes)
           /\ \A i \in 1..Len(m.scopes) :
                /\ Invalidated(m).scopes[i].view = m.scopes[i].view
                /\ Invalidated(m).scopes[i].tracked = m.scopes[i].tracked
                /\ Invalidated(m).scopes[i].root = m.scopes[i].root
                /\ Invalidated(m).scopes[i].saved = m.scopes[i].saved
                /\ Invalidated(m).scopes[i].cacheable = m.scopes[i].cacheable
                /\ Invalidated(m).scopes[i].rolledBack = m.scopes[i].rolledBack
<1> DEFINE n == Invalidated(m)
           scopes == [i \in DOMAIN m.scopes |-> [m.scopes[i] EXCEPT !.fresh = FALSE]]
<1>1. /\ m \in Mem /\ m.scopes \in Seq(Scope) /\ DOMAIN m.scopes = 1..Len(m.scopes)
      /\ Len(m.scopes) \in Nat /\ m.scopes \in [1..Len(m.scopes) -> Scope]
  BY LenProperties DEF Typed, Mem
<1>2. scopes \in [1..Len(m.scopes) -> Scope]
  BY <1>1 DEF Scope
<1>3. scopes \in Seq(Scope)
  BY <1>1, <1>2, FunctionsAreSequences
<1>4. Len(scopes) = Len(m.scopes)
  BY <1>1, <1>2, FunctionsAreSequences
<1>5. n = [m EXCEPT !.stale = TRUE, !.scopes = scopes]
  BY DEF Invalidated
<1>6. ASSUME NEW i \in 1..Len(m.scopes)
      PROVE  /\ scopes[i].view = m.scopes[i].view
             /\ scopes[i].tracked = m.scopes[i].tracked
             /\ scopes[i].root = m.scopes[i].root
             /\ scopes[i].saved = m.scopes[i].saved
             /\ scopes[i].cacheable = m.scopes[i].cacheable
             /\ scopes[i].rolledBack = m.scopes[i].rolledBack
  <2>1. m.scopes[i] \in Scope /\ scopes[i] = [m.scopes[i] EXCEPT !.fresh = FALSE]
    BY <1>1
  <2> HIDE DEF scopes
  <2>2. QED
    BY <2>1 DEF Scope
<1> HIDE DEF scopes, n
<1>7. /\ n \in Mem /\ n.stale = TRUE /\ n.scopes = scopes /\ n.enabled = m.enabled
      /\ n.roots = m.roots
  BY <1>1, <1>3, <1>5 DEF Mem
<1>8. Typed(n, d, r)
  BY <1>4, <1>7 DEF Typed
<1>9. QED
  BY <1>4, <1>6, <1>7, <1>8 DEF n

LEMMA DeleteAllOK ==
    ASSUME Constants, IInv, NEW keepsAlarm \in BOOLEAN, DeleteAll(keepsAlarm)
    PROVE  IInv'
<1> DEFINE d == [EmptyDb EXCEPT !.native = IF keepsAlarm THEN db.native ELSE 0]
<1>1. /\ Len(mem.scopes) = 0 /\ ~ deleting /\ deletes < MaxDeletes
      /\ deletes' = deletes + 1 /\ deleting' = TRUE /\ surprised' = TRUE
      /\ db' = d /\ mem' = Invalidated(mem) /\ UNCHANGED <<reader, writes, repeats>>
  BY DEF DeleteAll, Top
<1>2. d \in Contents /\ Typed(mem, db, reader) /\ (mem.enabled => mem.roots = 0)
  <2>1. Typed(mem, db, reader) /\ mem.roots \in {0, 1} /\ (mem.enabled => Active(mem))
    BY DEF IInv, Sound, Typed, Mem
  <2>2. mem.enabled => mem.roots = 0
    BY <1>1, <2>1 DEF Active
  <2>3. db \in Contents /\ NoRows \in [RowIds -> RowRevisions]
    BY <2>1 DEF Typed, NoRows, RowRevisions, Constants, CacheAssumption
  <2>4. d \in Contents
    BY <2>3 DEF EmptyDb, Contents
  <2>5. QED
    BY <2>1, <2>2, <2>4
<1> HIDE DEF d
<1>3. /\ Typed(mem', db, reader) /\ mem'.stale /\ Len(mem'.scopes) = 0
      /\ mem'.enabled = mem.enabled /\ mem'.roots = mem.roots
  BY <1>1, <1>2, Invalidating
<1>4. Typed(mem', d, reader)
  BY <1>2, <1>3 DEF Typed
<1>5. Sound(mem', d, reader)
  BY <1>2, <1>3, <1>4, Outside
<1>6. deletes' \in 0..MaxDeletes
  BY <1>1 DEF IInv, Constants, CacheAssumption
<1>7. Confined(mem')
  BY <1>3 DEF Confined
<1>8. QED
  BY <1>1, <1>5, <1>6, <1>7 DEF IInv

LEMMA DeleteAllEndsOK == ASSUME Constants, IInv, DeleteAllEnds PROVE IInv'
<1> DEFINE len == Len(mem.scopes)
<1>1. /\ deleting /\ deleting' = FALSE /\ mem' = Invalidated(mem) /\ surprised
      /\ UNCHANGED <<db, reader, writes, deletes, repeats, surprised>>
  BY DEF DeleteAllEnds, IInv
<1>2. Typed(mem, db, reader) /\ len \in Nat
  BY LenProperties DEF IInv, Sound, Typed, Mem
<1>3. /\ Typed(mem', db, reader) /\ mem'.stale /\ Len(mem'.scopes) = len
      /\ mem'.enabled = mem.enabled /\ mem'.roots = mem.roots
      /\ \A i \in 1..len :
           /\ mem'.scopes[i].view = mem.scopes[i].view
           /\ mem'.scopes[i].tracked = mem.scopes[i].tracked
           /\ mem'.scopes[i].root = mem.scopes[i].root
           /\ mem'.scopes[i].saved = mem.scopes[i].saved
           /\ mem'.scopes[i].cacheable = mem.scopes[i].cacheable
           /\ mem'.scopes[i].rolledBack = mem.scopes[i].rolledBack
  <2>1. /\ Typed(Invalidated(mem), db, reader) /\ Invalidated(mem).stale
        /\ Invalidated(mem).enabled = mem.enabled /\ Invalidated(mem).roots = mem.roots
        /\ Len(Invalidated(mem).scopes) = len
        /\ \A i \in 1..len :
             /\ Invalidated(mem).scopes[i].view = mem.scopes[i].view
             /\ Invalidated(mem).scopes[i].tracked = mem.scopes[i].tracked
             /\ Invalidated(mem).scopes[i].root = mem.scopes[i].root
             /\ Invalidated(mem).scopes[i].saved = mem.scopes[i].saved
             /\ Invalidated(mem).scopes[i].cacheable = mem.scopes[i].cacheable
             /\ Invalidated(mem).scopes[i].rolledBack = mem.scopes[i].rolledBack
    BY <1>2, Invalidating
  <2>2. mem' = Invalidated(mem)
    BY <1>1
  <2>3. QED
    BY <2>1, <2>2, Zenon
<1> HIDE DEF len
<1>4. /\ \E v \in 0..len : ViewedTo(mem, v)
      /\ (mem.enabled => Stacked(mem) /\ Active(mem) /\ Unwritten(mem, db))
  BY DEF IInv, Sound, len
<1>5. len = Len(mem.scopes)
  BY DEF len
<1>6. \E v \in 0..Len(mem'.scopes) : ViewedTo(mem', v)
  <2>1. PICK v \in 0..len : ViewedTo(mem, v)
    BY <1>4
  <2>2. \A i \in 1..v : i \in 1..len
    BY <1>2
  <2>3. ViewedTo(mem', v)
    BY <1>3, <1>5, <2>1, <2>2 DEF ViewedTo, Viewed
  <2>4. QED
    BY <1>3, <2>1, <2>3
<1>7. Confined(mem')
  BY <1>3 DEF Confined
<1>8. ASSUME mem'.enabled
      PROVE  Stacked(mem') /\ Active(mem') /\ Unwritten(mem', db)
  <2>1. Stacked(mem) /\ Active(mem) /\ Unwritten(mem, db)
    BY <1>3, <1>4, <1>8
  <2>2. \A i \in 1..len : mem'.scopes[i].tracked => mem'.scopes[i].cacheable
    BY <1>3, <1>5, <2>1 DEF Stacked
  <2>3. len <= len
    BY <1>2
  <2>4. \A i \in 1..len : /\ mem'.scopes[i].tracked = mem.scopes[i].tracked
                          /\ mem'.scopes[i].root = mem.scopes[i].root
                          /\ mem'.scopes[i].tracked => mem'.scopes[i].cacheable
    BY <1>3, <2>2
  <2>5. mem'.roots = mem.roots /\ len = Len(mem'.scopes)
    BY <1>3
  <2>6. Stacked(mem')
    BY <1>2, <1>5, <2>1, <2>3, <2>4, <2>5, StackedBelow
  <2>7. Active(mem')
    <3>1. len > 0 => 1 \in 1..len
      BY <1>2
    <3>2. QED
      BY <1>3, <1>5, <2>1, <3>1 DEF Active, Viewed
  <2>8. \A i \in 0..len : Shown(mem', db, i) = Shown(mem, db, i)
    <3>1. \A i \in 0..len : i < len => i + 1 \in 1..len
      BY <1>2
    <3>2. QED
      BY <1>3, <1>5, <3>1 DEF Shown
  <2>9. Unwritten(mem', db)
    <3> SUFFICES ASSUME NEW i \in 1..len, ~ Viewed(mem', i), NEW j \in i..len
                 PROVE  Shown(mem', db, j) = mem'.scopes[i].saved
      BY <1>3 DEF Unwritten
    <3>1. j \in 0..len /\ ~ Viewed(mem, i)
      BY <1>2, <1>3 DEF Viewed
    <3>2. QED
      BY <1>3, <1>5, <2>1, <2>8, <3>1 DEF Unwritten
  <2>10. QED
    BY <2>6, <2>7, <2>9
<1>9. Sound(mem', db, reader)
  BY <1>3, <1>6, <1>8 DEF Sound
<1>10. QED
  BY <1>1, <1>7, <1>9 DEF IInv

----------------------------------------------------------------------------

LEMMA InitOK == ASSUME Constants, CacheInit PROVE IInv
<1>1. NoRows \in [RowIds -> RowRevisions] /\ 0 \in 0..MaxWrites /\ 0 \in 0..MaxDeletes
      /\ 0 \in 0..MaxRepeats
  BY DEF NoRows, RowRevisions, Constants, CacheAssumption
<1>2. db \in Contents /\ EmptyCache(FALSE) \in Cache
  BY <1>1, SomeCaches DEF CacheInit, EmptyDb, Contents
<1>3. <<>> \in Seq(Scope) /\ Len(<<>>) = 0
  OBVIOUS
<1>4. /\ mem \in Mem /\ mem.scopes = <<>> /\ mem.roots = 0 /\ mem.held = FALSE
      /\ mem.committed = EmptyCache(FALSE)
  BY <1>2, <1>3 DEF CacheInit, Mem
<1>5. Typed(mem, db, reader) /\ Len(mem.scopes) = 0
  BY <1>2, <1>3, <1>4, MaxDepthIsNat DEF CacheInit, Typed, Readers
<1>6. Agrees(mem.committed, db)
  BY <1>4, AgreeEmpty
<1>7. /\ Sound(mem, db, reader) /\ (mem.enabled /\ ~ mem.stale => Calm(mem))
      /\ Confined(mem)
  BY <1>4, <1>5, <1>6, SomeCaches, Outside
<1>8. QED
  BY <1>1, <1>7 DEF CacheInit, IInv

LEMMA NextOK == ASSUME Constants, IInv, [CacheNext]_cacheVars PROVE IInv'
<1>1. CASE Open
  BY <1>1, OpenOK
<1>2. CASE OpenOverlapping
  BY <1>2, OpenOverlappingOK
<1>3. CASE OpenHidden
  BY <1>3, OpenHiddenOK
<1>4. CASE Blind
  BY <1>4, BlindOK
<1>5. CASE Rollback
  BY <1>5, RollbackOK
<1>5a. CASE Repeat
  BY <1>5a, RepeatOK
<1>6. CASE \E a \in RowIds : Write(a) \/ Delete(a) \/ Read(a) \/ Query(a)
  BY <1>6, WriteOK, DeleteOK, ReadOK, QueryOK
<1>7. CASE \E at \in Times \cup {0} : Reconcile(at)
  BY <1>7, ReconcileOK
<1>8. CASE \E b \in BOOLEAN : CloseScope(b) \/ DeleteAll(b)
  BY <1>8, CloseOK, DeleteAllOK
<1>9. CASE KeepRow
  BY <1>9, KeepOK
<1>10. CASE Deliver
  BY <1>10, DeliverOK
<1>11. CASE DeleteAllEnds
  BY <1>11, DeleteAllEndsOK
<1>12. CASE UNCHANGED cacheVars
  <2>1. mem' = mem /\ db' = db /\ reader' = reader
        /\ UNCHANGED <<deleting, writes, deletes, repeats, surprised>>
    BY <1>12 DEF cacheVars
  <2>2. /\ Sound(mem', db', reader') /\ (Calm(mem) => Calm(mem'))
        /\ Confined(mem) => Confined(mem')
    BY <2>1, Zenon DEF IInv
  <2>3. QED
    BY <2>1, <2>2 DEF IInv
<1>13. QED
  BY <1>1, <1>2, <1>3, <1>4, <1>5, <1>5a, <1>6, <1>7, <1>8, <1>9, <1>10, <1>11, <1>12 DEF CacheNext

\* What the inductive invariant says of the component's own properties.
LEMMA Implied ==
    ASSUME Constants, IInv
    PROVE  CacheTypeOK /\ CacheAgrees /\ DoubtIsConfined /\ NoRootLeaks /\ OrdinaryUseKeepsCache
<1>1. /\ mem \in Mem /\ db \in Contents /\ reader \in Readers /\ Top \in Nat
      /\ Top = Len(mem.scopes) /\ Top <= MaxDepth
  BY LenProperties DEF IInv, Sound, Typed, Mem, Top
<1>2. CacheTypeOK
  BY <1>1, MaxDepthIsNat DEF IInv, CacheTypeOK, Mem, Top
<1>3. CacheAgrees
  <2>1. SUFFICES ASSUME mem.enabled, ~ mem.stale
                 PROVE  /\ Top = 0 => Agrees(mem.committed, db)
                        /\ Top > 0 /\ mem.scopes[Top].view # NoView
                             => Agrees(mem.scopes[Top].view, db)
    BY DEF CacheAgrees, Trusted
  <2>2. Truthful(mem, db, reader)
    BY <2>1 DEF IInv, Sound
  <2>3. Shown(mem, db, Top) = db
    BY <1>1 DEF Shown
  <2>4. Top > 0 => Top \in 1..Len(mem.scopes)
    BY <1>1
  <2>5. QED
    BY <1>1, <2>2, <2>3, <2>4 DEF Truthful, Viewed
<1>4. NoRootLeaks
  BY <1>1 DEF NoRootLeaks, IInv, Sound, Active, Mem
<1>5. OrdinaryUseKeepsCache
  BY DEF OrdinaryUseKeepsCache, IInv, Calm
<1>6. DoubtIsConfined
  BY <1>1 DEF DoubtIsConfined, Trusted, IInv, Confined, Viewed
<1>7. QED
  BY <1>2, <1>3, <1>4, <1>5, <1>6

LEMMA AlwaysIInv == ASSUME Constants PROVE CacheSpec => []IInv
<1>1. CacheInit => IInv
  BY InitOK
<1>2. IInv /\ [CacheNext]_cacheVars => IInv'
  BY NextOK
<1>3. QED
  BY <1>1, <1>2, PTL DEF CacheSpec

\* Every variable of the cache model keeps its domain, the scopes their number.
THEOREM CacheTypeCorrect == ASSUME Constants PROVE CacheSpec => []CacheTypeOK
<1>1. IInv => CacheTypeOK
  BY Implied
<1>2. QED
  BY <1>1, AlwaysIInv, PTL

\* What the metadata cache says of rows, table and native alarm is what storage would
\* answer, through nested transactions, failures, rollbacks, overlapping roots, hidden
\* SQL transactions, reads that yield and deleteAll, where the view is not one whose
\* writes were taken back.
THEOREM CacheStaysTrue == ASSUME Constants PROVE CacheSpec => []CacheAgrees
<1>1. IInv => CacheAgrees
  BY Implied
<1>2. QED
  BY <1>1, AlwaysIInv, PTL

\* A callback that goes on after tx.rollback, or opens transactions then, cannot let what
\* it wrote before reach the committed cache or a view outside the rolled back
\* transaction, unless the platform runs a callback again.
THEOREM DoubtStaysWithin == ASSUME Constants PROVE CacheSpec => []DoubtIsConfined
<1>1. IInv => DoubtIsConfined
  BY Implied
<1>2. QED
  BY <1>1, AlwaysIInv, PTL

\* However transactions end, activeRoots is back at zero between them.
THEOREM RootsDoNotLeak == ASSUME Constants PROVE CacheSpec => []NoRootLeaks
<1>1. IInv => NoRootLeaks
  BY Implied
<1>2. QED
  BY <1>1, AlwaysIInv, PTL

\* Transactions of the library alone, nested, failed, rolled back or repeated, never
\* turn the cache off.
THEOREM OrdinaryUseIsCached == ASSUME Constants PROVE CacheSpec => []OrdinaryUseKeepsCache
<1>1. IInv => OrdinaryUseKeepsCache
  BY Implied
<1>2. QED
  BY <1>1, AlwaysIInv, PTL

\* What is promised of the metadata cache, all of it: for any alarms, depth of nesting,
\* size of the cache and sequence of transactions, failures and surprises.
THEOREM CacheIsAlwaysTrue == ASSUME Constants PROVE CacheSpec => []CacheIsTrue
BY CacheTypeCorrect, CacheStaysTrue, DoubtStaysWithin, RootsDoNotLeak, OrdinaryUseIsCached, PTL DEF CacheIsTrue
=============================================================================
