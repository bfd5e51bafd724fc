------------------------------ MODULE ObjectProofs ------------------------------
(***************************************************************************)
(* What the shared RPC targets, the manual alarms, the hibernating sockets   *)
(* and the calls over an RPC boundary promise.  The targets, for any events, *)
(* callers and addresses: none is used across events or after it failed,     *)
(* calls share one, and scoped results are disposed of.  Manual alarms, for  *)
(* any alarms, passes, deadlines and evictions: a claim keeps other passes   *)
(* away, and a newer enrollment is never overwritten by an older pass.       *)
(* Sockets, for any tags, calls and evictions: what is attached comes back,  *)
(* and only what nothing decodes is closed.  Calls, for any contracts,       *)
(* schemas and codecs of two sides deployed apart: what arrives is what was  *)
(* sent, or an error.                                                        *)
(***************************************************************************)
EXTENDS RpcTargets, AlarmManual, SocketAttachments, RpcBoundary, SequenceTheorems, FiniteSetTheorems, TLAPS

----------------------------------------------------------------------------
(* Shared targets. *)

\* What was constructed has an origin, what callers hold was constructed for them.
Origins ==
    /\ \A t \in Targets : IF t \in Made THEN origin[t] \in Events \X Keys ELSE origin[t] = None
    /\ \A c \in Callers : target[c] # None => target[c] \in Made /\ origin[target[c]][1] = Home[c]
    /\ \A c \in Callers : at[c] \in {"held", "sent", "decoding"} => target[c] # None

\* An entry of the cache has its address, and is the last live target of its key.
Entries ==
    \A e \in Events, k \in Keys :
        /\ cached[e][k] # None =>
              /\ active[e] /\ cached[e][k] \in Made \ failed
              /\ cached[e][k] \in known /\ origin[cached[e][k]] = <<e, k>>
        /\ active[e] => \A t \in Made \ failed : origin[t] = <<e, k>> => cached[e][k] = t

NoResultUnderWay == \A c \in Callers : at[c] # "decoding" => results[c] = 0

IInv == TypeOK /\ Origins /\ Entries /\ NoResultUnderWay

LEMMA InitOK == Init => IInv
<1> SUFFICES ASSUME Init PROVE IInv
  OBVIOUS
<1>1. Made = {}
  BY DEF Init, Made
<1>2. TypeOK
  BY <1>1, MaxAssumption DEF Init, TypeOK, Kinds, Targets
<1>3. Origins /\ Entries /\ NoResultUnderWay
  BY <1>1 DEF Init, Origins, Entries, NoResultUnderWay
<1>4. QED
  BY <1>2, <1>3 DEF IInv

LEMMA MadeAreTargets == ASSUME IInv PROVE Made \subseteq Targets /\ None \notin Made
BY MaxAssumption, NoneAssumption DEF IInv, TypeOK, Made, Targets

----------------------------------------------------------------------------
\* Steps of a caller that construct nothing and leave the cache alone.
LEMMA QuietStep ==
    ASSUME IInv, NEW c \in Callers,
           UNCHANGED <<active, cached, known, made, origin, failed>>,
           at' \in [Callers -> {"idle", "held", "sent", "decoding", "done"}],
           target' = target \/ target' = [target EXCEPT ![c] = None],
           kind' \in [Callers -> Kinds], results' \in [Callers -> Nat],
           \A x \in Callers : at'[x] \in {"held", "sent", "decoding"} => target'[x] # None,
           \A x \in Callers : at'[x] # "decoding" => results'[x] = 0
    PROVE  IInv'
<1>1. Made' = Made
  BY DEF Made
<1>2. target' \in [Callers -> Targets \union {None}] /\ \A x \in Callers : target'[x] # None => target'[x] = target[x]
  BY DEF IInv, TypeOK
<1>3. TypeOK'
  BY <1>1, <1>2 DEF IInv, TypeOK
<1>4. Origins'
  BY <1>1, <1>2 DEF IInv, Origins
<1>5. Entries'
  BY <1>1 DEF IInv, Entries
<1>6. QED
  BY <1>3, <1>4, <1>5 DEF IInv, NoResultUnderWay

LEMMA CreateThrowsOK == ASSUME IInv, NEW c \in Callers, NEW k \in Keys, CreateThrows(c, k) PROVE IInv'
<1>1. UNCHANGED <<active, cached, known, made, origin, failed>>
  BY DEF CreateThrows
<1>2. /\ at' \in [Callers -> {"idle", "held", "sent", "decoding", "done"}]
      /\ target' = target \/ target' = [target EXCEPT ![c] = None]
      /\ kind' \in [Callers -> Kinds] /\ results' \in [Callers -> Nat]
  BY DEF CreateThrows, IInv, TypeOK
<1>3. \A x \in Callers : at'[x] \in {"held", "sent", "decoding"} => target'[x] # None
  BY DEF CreateThrows, IInv, TypeOK, Origins
<1>4. \A x \in Callers : at'[x] # "decoding" => results'[x] = 0
  BY DEF CreateThrows, IInv, TypeOK, NoResultUnderWay
<1>5. QED
  BY <1>1, <1>2, <1>3, <1>4, QuietStep

LEMMA FinishOK == ASSUME IInv, NEW c \in Callers, Finish(c) PROVE IInv'
<1>1. UNCHANGED <<active, cached, known, made, origin, failed>>
  BY DEF Finish
<1>2. /\ at' \in [Callers -> {"idle", "held", "sent", "decoding", "done"}]
      /\ target' = target \/ target' = [target EXCEPT ![c] = None]
      /\ kind' \in [Callers -> Kinds] /\ results' \in [Callers -> Nat]
  BY DEF Finish, IInv, TypeOK
<1>3. \A x \in Callers : at'[x] \in {"held", "sent", "decoding"} => target'[x] # None
  BY DEF Finish, IInv, TypeOK, Origins
<1>4. \A x \in Callers : at'[x] # "decoding" => results'[x] = 0
  BY DEF Finish, IInv, TypeOK, NoResultUnderWay
<1>5. QED
  BY <1>1, <1>2, <1>3, <1>4, QuietStep

LEMMA EncodeFailsOK == ASSUME IInv, NEW c \in Callers, EncodeFails(c) PROVE IInv'
<1>1. UNCHANGED <<active, cached, known, made, origin, failed>>
  BY DEF EncodeFails
<1>2. /\ at' \in [Callers -> {"idle", "held", "sent", "decoding", "done"}]
      /\ target' = target \/ target' = [target EXCEPT ![c] = None]
      /\ kind' \in [Callers -> Kinds] /\ results' \in [Callers -> Nat]
  BY DEF EncodeFails, IInv, TypeOK
<1>3. \A x \in Callers : at'[x] \in {"held", "sent", "decoding"} => target'[x] # None
  BY DEF EncodeFails, IInv, TypeOK, Origins
<1>4. \A x \in Callers : at'[x] # "decoding" => results'[x] = 0
  BY DEF EncodeFails, IInv, TypeOK, NoResultUnderWay
<1>5. QED
  BY <1>1, <1>2, <1>3, <1>4, QuietStep

LEMMA SendOK == ASSUME IInv, NEW c \in Callers, NEW how \in Kinds, Send(c, how) PROVE IInv'
<1>1. UNCHANGED <<active, cached, known, made, origin, failed>>
  BY DEF Send
<1>2. /\ at' \in [Callers -> {"idle", "held", "sent", "decoding", "done"}]
      /\ target' = target \/ target' = [target EXCEPT ![c] = None]
      /\ kind' \in [Callers -> Kinds] /\ results' \in [Callers -> Nat]
  BY DEF Send, IInv, TypeOK
<1>3. \A x \in Callers : at'[x] \in {"held", "sent", "decoding"} => target'[x] # None
  BY DEF Send, IInv, TypeOK, Origins
<1>4. \A x \in Callers : at'[x] # "decoding" => results'[x] = 0
  BY DEF Send, IInv, TypeOK, NoResultUnderWay
<1>5. QED
  BY <1>1, <1>2, <1>3, <1>4, QuietStep

LEMMA ResolveOK == ASSUME IInv, NEW c \in Callers, Resolve(c) PROVE IInv'
<1>1. UNCHANGED <<active, cached, known, made, origin, failed>>
  BY DEF Resolve
<1>2. /\ at' \in [Callers -> {"idle", "held", "sent", "decoding", "done"}]
      /\ target' = target \/ target' = [target EXCEPT ![c] = None]
      /\ kind' \in [Callers -> Kinds] /\ results' \in [Callers -> Nat]
  BY DEF Resolve, IInv, TypeOK
<1>3. \A x \in Callers : at'[x] \in {"held", "sent", "decoding"} => target'[x] # None
  BY DEF Resolve, IInv, TypeOK, Origins
<1>4. \A x \in Callers : at'[x] # "decoding" => results'[x] = 0
  BY DEF Resolve, IInv, TypeOK, NoResultUnderWay
<1>5. QED
  BY <1>1, <1>2, <1>3, <1>4, QuietStep

LEMMA DecodeOK == ASSUME IInv, NEW c \in Callers, Decode(c) PROVE IInv'
<1>1. UNCHANGED <<active, cached, known, made, origin, failed>>
  BY DEF Decode
<1>2. /\ at' \in [Callers -> {"idle", "held", "sent", "decoding", "done"}]
      /\ target' = target \/ target' = [target EXCEPT ![c] = None]
      /\ kind' \in [Callers -> Kinds] /\ results' \in [Callers -> Nat]
  BY DEF Decode, IInv, TypeOK
<1>3. \A x \in Callers : at'[x] \in {"held", "sent", "decoding"} => target'[x] # None
  BY DEF Decode, IInv, TypeOK, Origins
<1>4. \A x \in Callers : at'[x] # "decoding" => results'[x] = 0
  BY DEF Decode, IInv, TypeOK, NoResultUnderWay
<1>5. QED
  BY <1>1, <1>2, <1>3, <1>4, QuietStep

----------------------------------------------------------------------------
LEMMA LookupOK == ASSUME IInv, NEW c \in Callers, NEW k \in Keys, Lookup(c, k) PROVE IInv'
<1> DEFINE e == Home[c]
<1>0. e \in Events /\ at[c] = "idle" /\ at' = [at EXCEPT ![c] = "held"] /\ UNCHANGED <<active, kind, results, failed>>
  BY HomeAssumption DEF Lookup
<1>1. CASE Caches(e) /\ cached[e][k] # None
  <2>1. target' = [target EXCEPT ![c] = cached[e][k]] /\ UNCHANGED <<made, cached, known, origin>>
    BY <1>1 DEF Lookup
  <2>2. Made' = Made
    BY <2>1 DEF Made
  <2>3. cached[e][k] \in Made /\ origin[cached[e][k]] = <<e, k>> /\ cached[e][k] \in Targets
    BY <1>0, <1>1 DEF IInv, TypeOK, Entries
  <2>4. TypeOK'
    BY <1>0, <2>1, <2>2, <2>3 DEF IInv, TypeOK
  <2>5. Origins'
    BY <1>0, <2>1, <2>2, <2>3, NoneAssumption DEF IInv, TypeOK, Origins, Targets
  <2>6. Entries' /\ NoResultUnderWay'
    BY <1>0, <2>1, <2>2 DEF IInv, TypeOK, Entries, NoResultUnderWay
  <2>7. QED
    BY <2>4, <2>5, <2>6 DEF IInv
<1>2. CASE ~ (Caches(e) /\ cached[e][k] # None)
  <2> DEFINE n == made + 1
  <2>1. /\ made < MaxTargets /\ made' = n /\ origin' = [origin EXCEPT ![n] = <<e, k>>]
        /\ target' = [target EXCEPT ![c] = n]
        /\ cached' = IF active[e] THEN [cached EXCEPT ![e][k] = n] ELSE cached
        /\ known' = IF active[e] THEN known \union {n} ELSE known
    BY <1>2 DEF Lookup, Caches
  <2>2. n \in Targets /\ n \notin Made /\ Made' = Made \union {n} /\ n # None
    BY <2>1, MaxAssumption, NoneAssumption DEF IInv, TypeOK, Made, Targets
  <2> HIDE DEF n
  <2>3. TypeOK'
    <3>1. /\ made' \in 0..MaxTargets /\ failed' \subseteq Made' /\ active' \in [Events -> BOOLEAN]
      BY <1>0, <2>1, <2>2, MaxAssumption DEF IInv, TypeOK, n
    <3>2. cached' \in [Events -> [Keys -> Targets \union {None}]]
      BY <1>0, <2>1, <2>2 DEF IInv, TypeOK
    <3>3. origin' \in [Targets -> (Events \X Keys) \union {None}] /\ origin'[n] = <<e, k>>
      BY <1>0, <2>1, <2>2 DEF IInv, TypeOK
    <3>4. known' \subseteq {t \in Made' : active'[origin'[t][1]]}
      BY <1>0, <2>1, <2>2, <3>3 DEF IInv, TypeOK
    <3>5. QED
      BY <1>0, <2>1, <2>2, <3>1, <3>2, <3>3, <3>4 DEF IInv, TypeOK
  <2>4. Origins'
    BY <1>0, <2>1, <2>2 DEF IInv, TypeOK, Origins
  <2>5. Entries'
    <3> SUFFICES ASSUME NEW d \in Events, NEW l \in Keys PROVE
          /\ cached'[d][l] # None =>
                /\ active'[d] /\ cached'[d][l] \in Made' \ failed'
                /\ cached'[d][l] \in known' /\ origin'[cached'[d][l]] = <<d, l>>
          /\ active'[d] => \A t \in Made' \ failed' : origin'[t] = <<d, l>> => cached'[d][l] = t
      BY DEF Entries
    <3>1. n \notin failed /\ origin'[n] = <<e, k>> /\ \A t \in Targets : t # n => origin'[t] = origin[t]
      BY <2>1, <2>2 DEF IInv, TypeOK
    <3>2. Made \subseteq Targets
      BY MadeAreTargets
    <3>3. CASE active[e] /\ d = e /\ l = k
      <4>1. cached'[d][l] = n /\ cached[d][l] = None
        BY <1>0, <1>2, <2>1, <3>3 DEF IInv, TypeOK, Caches
      <4>2. \A t \in Made \ failed : origin[t] # <<d, l>>
        BY <3>3, <4>1, <3>2, NoneAssumption DEF IInv, Entries, Targets
      <4>3. QED
        BY <1>0, <2>1, <2>2, <3>1, <3>2, <3>3, <4>1, <4>2
    <3>4. CASE ~ (active[e] /\ d = e /\ l = k)
      <4>1. cached'[d][l] = cached[d][l]
        BY <1>0, <2>1, <3>4 DEF IInv, TypeOK
      <4>2. active[d] => <<d, l>> # <<e, k>>
        BY <3>4
      <4>3. QED
        BY <1>0, <2>1, <2>2, <3>1, <3>2, <4>1, <4>2 DEF IInv, Entries
    <3>5. QED
      BY <3>3, <3>4
  <2>6. NoResultUnderWay'
    BY <1>0 DEF IInv, TypeOK, NoResultUnderWay
  <2>7. QED
    BY <2>3, <2>4, <2>5, <2>6 DEF IInv
<1>3. QED
  BY <1>1, <1>2

\* A failure takes its target out of the cache, and no other.
LEMMA InvalidateOK ==
    ASSUME IInv, NEW c \in Callers, target[c] # None, Invalidate(c), UNCHANGED <<active, made, origin>>
    PROVE  /\ Entries' /\ Made' = Made /\ failed' \subseteq Made
           /\ known' \subseteq known /\ cached' \in [Events -> [Keys -> Targets \union {None}]]
<1> DEFINE e == Home[c]
           t == target[c]
<1>1. e \in Events /\ t \in Made /\ t \in Targets /\ origin[t] \in Events \X Keys /\ origin[t][1] = e
  BY HomeAssumption DEF IInv, TypeOK, Origins
<1>2. PICK k \in Keys : origin[t] = <<e, k>>
  BY <1>1
<1>3. /\ cached' = IF active[e] /\ IsEntry(e, t) THEN [cached EXCEPT ![e][k] = None] ELSE cached
      /\ known' = known \ {t} /\ failed' = failed \union {t} /\ Made' = Made
  BY <1>2 DEF Invalidate, Made
<1>4. active[e] /\ IsEntry(e, t) <=> cached[e][k] = t
  BY <1>1, <1>2, NoneAssumption DEF IInv, Entries, IsEntry, Targets
<1> HIDE DEF e, t
<1>5. \A d \in Events, l \in Keys : cached'[d][l] = IF cached[d][l] = t THEN None ELSE cached[d][l]
  <2> SUFFICES ASSUME NEW d \in Events, NEW l \in Keys
               PROVE  cached'[d][l] = IF cached[d][l] = t THEN None ELSE cached[d][l]
    OBVIOUS
  <2>1. cached[d][l] = t => d = e /\ l = k
    BY <1>1, <1>2, NoneAssumption DEF IInv, Entries, Targets
  <2>2. QED
    BY <1>1, <1>3, <1>4, <2>1 DEF IInv, TypeOK
<1>6. Entries'
  <2>1. \A x \in Made \ failed' : x \in Made \ failed /\ x # t
    BY <1>3
  <2>2. QED
    BY <1>1, <1>3, <1>5, <2>1 DEF IInv, Entries
<1>7. QED
  BY <1>1, <1>3, <1>5, <1>6 DEF IInv, TypeOK

LEMMA FailOK == ASSUME IInv, NEW c \in Callers, Fail(c) PROVE IInv'
<1>1. target[c] # None /\ Invalidate(c) /\ UNCHANGED <<active, made, origin, kind, results>>
  BY DEF Fail, IInv, Origins
<1>2. Entries' /\ Made' = Made /\ failed' \subseteq Made /\ known' \subseteq known
      /\ cached' \in [Events -> [Keys -> Targets \union {None}]]
  BY <1>1, InvalidateOK
<1>3. \E place \in {"idle", "held"} :
        /\ at' = [at EXCEPT ![c] = place]
        /\ IF place = "idle" THEN target' = [target EXCEPT ![c] = None] ELSE target' = target
  BY DEF Fail
<1>4. /\ at' \in [Callers -> {"idle", "held", "sent", "decoding", "done"}]
      /\ target' \in [Callers -> Targets \union {None}]
  BY <1>3 DEF IInv, TypeOK
<1>5. TypeOK'
  BY <1>1, <1>2, <1>4 DEF IInv, TypeOK
<1>6. Origins'
  BY <1>1, <1>2, <1>3 DEF IInv, TypeOK, Origins
<1>7. NoResultUnderWay'
  BY <1>1, <1>3 DEF Fail, IInv, TypeOK, NoResultUnderWay
<1>8. QED
  BY <1>2, <1>5, <1>6, <1>7 DEF IInv

LEMMA InterruptOK == ASSUME IInv, NEW c \in Callers, Interrupt(c) PROVE IInv'
<1>1. /\ target[c] # None /\ at[c] = "sent" /\ UNCHANGED <<active, made, origin, kind, results>>
      /\ at' = [at EXCEPT ![c] = "done"] /\ target' = [target EXCEPT ![c] = None]
  BY DEF Interrupt, Interruptible, IInv, Origins
<1>2. CASE Invalidate(c)
  <2>1. Entries' /\ Made' = Made /\ failed' \subseteq Made /\ known' \subseteq known
        /\ cached' \in [Events -> [Keys -> Targets \union {None}]]
    BY <1>1, <1>2, InvalidateOK
  <2>2. TypeOK'
    BY <1>1, <2>1 DEF IInv, TypeOK
  <2>3. Origins' /\ NoResultUnderWay'
    BY <1>1, <2>1 DEF IInv, TypeOK, Origins, NoResultUnderWay
  <2>4. QED
    BY <2>1, <2>2, <2>3 DEF IInv
<1>3. CASE UNCHANGED <<cached, known, failed>>
  <2>1. /\ at' \in [Callers -> {"idle", "held", "sent", "decoding", "done"}]
        /\ kind' \in [Callers -> Kinds] /\ results' \in [Callers -> Nat]
    BY <1>1 DEF IInv, TypeOK
  <2>2. \A x \in Callers : at'[x] \in {"held", "sent", "decoding"} => target'[x] # None
    BY <1>1 DEF IInv, TypeOK, Origins
  <2>3. \A x \in Callers : at'[x] # "decoding" => results'[x] = 0
    BY <1>1 DEF IInv, TypeOK, NoResultUnderWay
  <2>4. QED
    BY <1>1, <1>3, <2>1, <2>2, <2>3, QuietStep
<1>4. QED
  BY <1>2, <1>3 DEF Interrupt

LEMMA CloseOK == ASSUME IInv, NEW e \in Events, Close(e) PROVE IInv'
<1>1. /\ active' = [active EXCEPT ![e] = FALSE]
      /\ cached' = [cached EXCEPT ![e] = [k \in Keys |-> None]]
      /\ known' = {t \in known : origin[t][1] # e}
      /\ UNCHANGED <<made, origin, at, target, kind, results, failed>>
  BY DEF Close, OtherAddresses
<1>2. Made' = Made
  BY <1>1 DEF Made
<1>3. known' \subseteq {t \in Made' : active'[origin'[t][1]]}
  <2> SUFFICES ASSUME NEW t \in known' PROVE t \in Made /\ active'[origin[t][1]]
    BY <1>1, <1>2
  <2>1. t \in Made /\ t \in Targets /\ active[origin[t][1]] /\ origin[t][1] # e
    BY <1>1, MadeAreTargets DEF IInv, TypeOK
  <2>2. origin[t][1] \in Events
    BY <2>1 DEF IInv, Origins
  <2>3. QED
    BY <1>1, <2>1, <2>2 DEF IInv, TypeOK
<1>4. TypeOK'
  BY <1>1, <1>2, <1>3 DEF IInv, TypeOK
<1>5. Origins' /\ NoResultUnderWay'
  BY <1>1, <1>2 DEF IInv, Origins, NoResultUnderWay
<1>6. Entries'
  <2> SUFFICES ASSUME NEW d \in Events, NEW l \in Keys PROVE
        /\ cached'[d][l] # None =>
              /\ active'[d] /\ cached'[d][l] \in Made' \ failed'
              /\ cached'[d][l] \in known' /\ origin'[cached'[d][l]] = <<d, l>>
        /\ active'[d] => \A t \in Made' \ failed' : origin'[t] = <<d, l>> => cached'[d][l] = t
    BY DEF Entries
  <2>1. CASE d = e
    BY <1>1, <2>1 DEF IInv, TypeOK
  <2>2. CASE d # e
    BY <1>1, <1>2, <2>2 DEF IInv, TypeOK, Entries
  <2>3. QED
    BY <2>1, <2>2
<1>7. QED
  BY <1>4, <1>5, <1>6 DEF IInv

LEMMA Invariance == Spec => []IInv
<1>1. ASSUME IInv, Next PROVE IInv'
  <2>1. ASSUME NEW c \in Callers, Step(c) PROVE IInv'
    BY <1>1, <2>1, LookupOK, CreateThrowsOK, SendOK, EncodeFailsOK, FailOK, InterruptOK, ResolveOK, DecodeOK, FinishOK
       DEF Step
  <2>2. ASSUME Terminated PROVE IInv'
    BY <1>1, <2>2 DEF Terminated, vars, IInv, TypeOK, Made, Origins, Entries, NoResultUnderWay
  <2>3. QED
    BY <1>1, <2>1, <2>2, CloseOK DEF Next
<1>2. ASSUME IInv, UNCHANGED vars PROVE IInv'
  BY <1>2 DEF vars, IInv, TypeOK, Made, Origins, Entries, NoResultUnderWay
<1>3. IInv /\ [Next]_vars => IInv'
  BY <1>1, <1>2
<1>4. QED
  BY InitOK, <1>3, PTL DEF Spec

----------------------------------------------------------------------------
\* Every variable keeps its domain; no address outlives the scope of its event.
THEOREM TypeCorrect == Spec => []TypeOK
BY Invariance, PTL DEF IInv

\* A lookup never gives out a target that a call of the event has failed on.
THEOREM FailedIsNeverGivenOut == Spec => []FailedIsDiscarded
<1>1. IInv => FailedIsDiscarded
  BY MadeAreTargets DEF IInv, TypeOK, Entries, FailedIsDiscarded
<1>2. QED
  BY Invariance, <1>1, PTL

LEMMA AtMostOne == ASSUME NEW S, NEW x, S \subseteq {x} PROVE Cardinality(S) <= 1
<1>1. IsFiniteSet({x}) /\ Cardinality({x}) = 1
  BY FS_Singleton
<1>2. Cardinality(S) <= Cardinality({x})
  BY <1>1, FS_Subset
<1>3. QED
  BY <1>1, <1>2

\* Calls of an open event share their target: there is never a second one that works.
THEOREM TargetsAreShared == Spec => []OneLiveTarget
<1>1. IInv => OneLiveTarget
  <2> SUFFICES ASSUME IInv, NEW e \in Events, NEW k \in Keys, active[e]
               PROVE  Cardinality({t \in Made \ failed : origin[t] = <<e, k>>}) <= 1
    BY DEF OneLiveTarget
  <2> DEFINE S == {t \in Made \ failed : origin[t] = <<e, k>>}
  <2>1. S \subseteq {cached[e][k]}
    BY DEF IInv, Entries
  <2>2. QED
    BY <2>1, AtMostOne
<1>2. QED
  BY Invariance, <1>1, PTL

\* A target is never used by another event than the one it was constructed for.
THEOREM TargetsStayAtHome == Spec => []NeverAcrossEvents
<1>1. IInv => NeverAcrossEvents
  BY DEF IInv, Origins, Entries, NeverAcrossEvents
<1>2. QED
  BY Invariance, <1>1, PTL

\* The result of a scoped call is disposed of, however the call ended.
THEOREM ScopedResultsGo == Spec => []ScopedResultsDisposed
<1>1. IInv => ScopedResultsDisposed
  BY DEF IInv, NoResultUnderWay, ScopedResultsDisposed
<1>2. QED
  BY Invariance, <1>1, PTL

\* What events share of their targets, all of it: for any events, keys and callers.
THEOREM SharingIsSafe == Spec => []TargetsAreSafe
BY TypeCorrect, FailedIsNeverGivenOut, TargetsAreShared, TargetsStayAtHome, ScopedResultsGo, PTL
   DEF TargetsAreSafe

----------------------------------------------------------------------------
(* Manual alarms. *)

Held(p, a) == phase[p] = "claimed" /\ claims[p][a] # NoClaim

\* Only a pass that has claimed has begun with a row, and only a known one runs.
InOrder ==
    \A p \in Passes, a \in Alarms :
      /\ phase[p] = "idle" => claims[p][a] = NoClaim
      /\ claims[p][a] # NoClaim /\ claims[p][a].stage # "queued" => phase[p] = "claimed"
      /\ claims[p][a] # NoClaim /\ claims[p][a].stage = "running" => a \in Known

\* What a pass has selected and nobody touched is due; what it claimed and nobody touched
\* is marked as claimed and no newer enrollment.  A row that was touched has a new revision.
Fenced ==
    \A p \in Passes, a \in Alarms : Holds(p, a) =>
      /\ <<p, a>> \notin superseded
      /\ phase[p] = "selected" => rows[a].left = 0
      /\ phase[p] = "claimed" => rows[a].claimed /\ ~ fresh[a]

\* Two claims of one row have different revisions, whatever became of the row.
Apart ==
    \A p, q \in Passes, a \in Alarms :
      p # q /\ Held(p, a) /\ Held(q, a) => claims[p][a].revision # claims[q][a].revision

\* Until it runs out or its row is touched, a claim is the row's.
Lasting ==
    \A p \in Passes, a \in Known :
      Held(p, a) /\ <<p, a>> \notin superseded /\ claims[p][a].left # 0 =>
        Holds(p, a) /\ rows[a].left = claims[p][a].left

ManualIInv == ManualTypeOK /\ InOrder /\ Fenced /\ Apart /\ Lasting /\ CheckpointWins

LEMMA LongestOK ==
  ASSUME ManualAssumption
  PROVE  /\ Longest \in Nat /\ InFlightRecovery \in 0..Longest /\ ParkedRetryDelay \in 0..Longest
         /\ Deadlines \subseteq 0..Longest
<1> DEFINE D == Deadlines \cup {InFlightRecovery, ParkedRetryDelay}
<1>1. Longest \in D /\ \A e \in D : e <= Longest
  BY DEF Longest, ManualAssumption, DelayAssumption
<1>2. D \subseteq Nat
  BY DEF ManualAssumption, DelayAssumption
<1>3. QED
  BY <1>1, <1>2

\* A new revision is one that the row and its claims do not have.
LEMMA NewRevisionOK ==
  ASSUME ManualAssumption, ManualTypeOK, NEW a \in Alarms
  PROVE  /\ NewRevision(a) \in Revisions
         /\ rows[a] # NoRow => rows[a].revision # NewRevision(a)
         /\ \A p \in Passes : claims[p][a] # NoClaim => claims[p][a].revision # NewRevision(a)
<1>1. PICK z : z \in Revisions
  BY DEF ManualAssumption
<1> DEFINE r == IF rows[a] # NoRow THEN rows[a].revision ELSE z
           claimed == [p \in Passes |-> IF claims[p][a] # NoClaim THEN claims[p][a].revision ELSE z]
<1>2. r \in Revisions /\ claimed \in [Passes -> Revisions]
  BY <1>1 DEF ManualTypeOK, Row, Claim
<1> HIDE DEF r, claimed
<1>3. PICK new \in Revisions : new # r /\ \A p \in Passes : new # claimed[p]
  BY <1>2 DEF ManualAssumption, RevisionAssumption
<1>4. /\ rows[a] # NoRow => rows[a].revision # new
      /\ \A p \in Passes : claims[p][a] # NoClaim => claims[p][a].revision # new
  BY <1>3 DEF r, claimed
<1>5. QED
  BY <1>4 DEF NewRevision

LEMMA LessOK ==
  ASSUME ManualAssumption, NEW d \in Delays, NEW e \in Nat
  PROVE  Less(d, e) \in Delays /\ (Less(d, e) # 0 => d # 0)
BY LongestOK DEF Less, Delays

LEMMA ShorterOK ==
  ASSUME ManualAssumption, NEW d \in Delays, NEW e \in Nat
  PROVE  Shorter(d, e) \in Delays /\ Shorter(e, d) \in Delays
BY LongestOK DEF Shorter, Delays

LEMMA ManualInitOK == ASSUME ManualAssumption, ManualInit PROVE ManualIInv
<1>1. ManualTypeOK
  BY LongestOK DEF ManualInit, ManualTypeOK, ManualAssumption, DelayAssumption, Delays
<1>2. QED
  BY <1>1 DEF ManualInit, ManualIInv, InOrder, Fenced, Apart, Lasting, CheckpointWins, Held, Holds

-----------------------------------------------------------------------------
\* Whoever touches a row gives it a revision no claim has, or takes it away.
LEMMA TouchedIsLost ==
  ASSUME ManualAssumption, ManualTypeOK, NEW p \in Passes, NEW a \in Alarms, claims'[p] = claims[p],
         rows'[a] = NoRow \/ rows'[a].revision = NewRevision(a)
  PROVE  ~ Holds(p, a)'
BY NewRevisionOK DEF Holds

LEMMA EnrolledOK ==
  ASSUME ManualAssumption, ManualTypeOK, NEW a \in Alarms, NEW d \in Deadlines, NEW e \in BOOLEAN
  PROVE  /\ Enrolled(a, d, e) \in Row
         /\ Enrolled(a, d, e).left = IF rows[a] # NoRow /\ e THEN Shorter(rows[a].left, d) ELSE d
         /\ \/ Enrolled(a, d, e) = rows[a] /\ rows[a] # NoRow /\ ~ rows[a].claimed
            \/ Enrolled(a, d, e).revision = NewRevision(a) /\ Enrolled(a, d, e) # rows[a]
<1> DEFINE left == IF rows[a] # NoRow /\ e THEN Shorter(rows[a].left, d) ELSE d
           new == [left |-> left, revision |-> NewRevision(a), claimed |-> FALSE]
<1>1. rows[a] # NoRow => rows[a] \in Row /\ rows[a].left \in Delays
  BY DEF ManualTypeOK, Row
<1>2. d \in Delays /\ d \in Nat
  BY LongestOK DEF Delays
<1>3. left \in Delays
  BY <1>1, <1>2, ShorterOK
<1>4. new \in Row
  BY <1>3, NewRevisionOK DEF Row
<1>5. new # rows[a]
  <2>1. CASE rows[a] = NoRow
    BY <1>4, <2>1 DEF ManualAssumption
  <2>2. CASE rows[a] # NoRow
    BY <2>2, NewRevisionOK
  <2>3. QED
    BY <2>1, <2>2
<1>6. CASE rows[a] # NoRow /\ e /\ rows[a].left = left /\ ~ rows[a].claimed
  <2>1. Enrolled(a, d, e) = rows[a]
    BY <1>6 DEF Enrolled
  <2>2. QED
    BY <1>1, <1>6, <2>1
<1>7. CASE ~ (rows[a] # NoRow /\ e /\ rows[a].left = left /\ ~ rows[a].claimed)
  <2>1. Enrolled(a, d, e) = new
    BY <1>7 DEF Enrolled
  <2>2. QED
    BY <1>4, <1>5, <2>1
<1>8. QED
  BY <1>6, <1>7

LEMMA EnrollOK ==
  ASSUME ManualAssumption, ManualIInv, NEW a \in Alarms, NEW d \in Deadlines, NEW e \in BOOLEAN,
         Enroll(a, d, e)
  PROVE  ManualIInv'
<1> USE DEF ManualIInv
<1>1. /\ enrollments < MaxEnrollments /\ enrollments' = enrollments + 1
      /\ rows' = [rows EXCEPT ![a] = Enrolled(a, d, e)]
      /\ wanted' = [wanted EXCEPT ![a] = Enrolled(a, d, e).left]
      /\ fresh' = [fresh EXCEPT ![a] = TRUE]
      /\ superseded' = IF rows'[a] = rows[a] THEN superseded
                      ELSE superseded \cup {<<p, a>> : p \in Passes}
      /\ owed' = owed \cup {a}
      /\ UNCHANGED <<phase, age, claims, evictions>>
  BY EnrolledOK DEF Enroll, passes
<1>2. /\ Enrolled(a, d, e) \in Row /\ Enrolled(a, d, e).left \in Delays
      /\ rows'[a] = Enrolled(a, d, e) /\ rows'[a] # NoRow /\ wanted'[a] = rows'[a].left
      /\ \A b \in Alarms \ {a} : rows'[b] = rows[b] /\ wanted'[b] = wanted[b] /\ fresh'[b] = fresh[b]
      /\ \A b \in Alarms \ {a}, p \in Passes : <<p, b>> \in superseded' <=> <<p, b>> \in superseded
      /\ fresh'[a] = TRUE
  BY <1>1, EnrolledOK DEF ManualTypeOK, Row, ManualAssumption
<1>3. ManualTypeOK'
  <2>1. enrollments' \in 0..MaxEnrollments
    BY <1>1 DEF ManualTypeOK, ManualAssumption, DelayAssumption
  <2>2. rows' \in [Alarms -> Row \cup {NoRow}] /\ wanted' \in [Alarms -> Delays]
        /\ fresh' \in [Alarms -> BOOLEAN]
    BY <1>1, <1>2 DEF ManualTypeOK
  <2>3. superseded' \subseteq Passes \X Alarms /\ owed' \subseteq Alarms
    BY <1>1 DEF ManualTypeOK
  <2>4. QED
    BY <1>1, <2>1, <2>2, <2>3 DEF ManualTypeOK
<1>4. InOrder' /\ Apart'
  BY <1>1 DEF InOrder, Apart, Held
<1>5. CASE rows'[a] = rows[a]
  <2>1. /\ rows' = rows /\ superseded' = superseded /\ ~ rows[a].claimed /\ rows[a] # NoRow
        /\ \A p \in Passes, b \in Alarms : (Holds(p, b)' <=> Holds(p, b)) /\ (Held(p, b)' <=> Held(p, b))
    <3>1. rows[a] # NoRow /\ ~ rows[a].claimed
      <4>1. Enrolled(a, d, e) = rows[a]
        BY <1>2, <1>5
      <4>2. QED
        BY <4>1, EnrolledOK
    <3>2. rows' = rows
      BY <1>1, <1>2, <1>5 DEF ManualTypeOK
    <3>3. QED
      BY <1>1, <3>1, <3>2 DEF Holds, Held
  <2>2. Fenced' /\ Lasting' /\ CheckpointWins'
    BY <1>1, <1>2, <2>1 DEF Fenced, Lasting, CheckpointWins, ManualAssumption, DelayAssumption
  <2>3. QED
    BY <1>3, <1>4, <2>2
<1>6. CASE rows'[a] # rows[a]
  <2>1. \A p \in Passes : ~ Holds(p, a)' /\ <<p, a>> \in superseded'
    BY <1>1, <1>2, <1>6, EnrolledOK, TouchedIsLost
  <2>2. \A p \in Passes, b \in Alarms \ {a} : (Holds(p, b)' <=> Holds(p, b)) /\ (Held(p, b)' <=> Held(p, b))
    BY <1>1, <1>2 DEF Holds, Held
  <2>3. Fenced'
    <3>1. SUFFICES ASSUME NEW p \in Passes, NEW b \in Alarms, Holds(p, b)'
                   PROVE  /\ <<p, b>> \notin superseded'
                          /\ phase'[p] = "selected" => rows'[b].left = 0
                          /\ phase'[p] = "claimed" => rows'[b].claimed /\ ~ fresh'[b]
      BY DEF Fenced
    <3>2. b # a /\ Holds(p, b)
      BY <2>1, <2>2, <3>1
    <3>3. /\ <<p, b>> \notin superseded
          /\ phase[p] = "selected" => rows[b].left = 0
          /\ phase[p] = "claimed" => rows[b].claimed /\ ~ fresh[b]
      BY <3>2 DEF Fenced
    <3>4. QED
      BY <1>1, <1>2, <3>2, <3>3
  <2>4. Lasting'
    <3>1. SUFFICES ASSUME NEW p \in Passes, NEW b \in Known,
                          Held(p, b)', <<p, b>> \notin superseded', claims'[p][b].left # 0
                   PROVE  Holds(p, b)' /\ rows'[b].left = claims'[p][b].left
      BY DEF Lasting
    <3>2. b \in Alarms \ {a}
      BY <2>1, <3>1 DEF ManualAssumption, DelayAssumption
    <3>3. QED
      BY <1>1, <1>2, <2>2, <3>1, <3>2 DEF Lasting
  <2>5. CheckpointWins'
    BY <1>1, <1>2 DEF CheckpointWins
  <2>6. QED
    BY <1>3, <1>4, <2>3, <2>4, <2>5
<1>7. QED
  BY <1>5, <1>6

LEMMA CancelOK == ASSUME ManualAssumption, ManualIInv, NEW a \in Alarms, Cancel(a) PROVE ManualIInv'
<1> USE DEF ManualIInv
<1>1. /\ rows' = [rows EXCEPT ![a] = NoRow] /\ fresh' = [fresh EXCEPT ![a] = FALSE]
      /\ superseded' = superseded \cup {<<p, a>> : p \in Passes} /\ owed' = owed \ {a}
      /\ UNCHANGED <<phase, age, claims, wanted, enrollments, evictions>>
  BY DEF Cancel, passes
<1>2. /\ rows'[a] = NoRow /\ fresh'[a] = FALSE
      /\ \A b \in Alarms \ {a} : rows'[b] = rows[b] /\ fresh'[b] = fresh[b]
      /\ \A b \in Alarms \ {a}, p \in Passes : <<p, b>> \in superseded' <=> <<p, b>> \in superseded
      /\ \A p \in Passes : <<p, a>> \in superseded' /\ ~ Holds(p, a)'
  BY <1>1 DEF ManualTypeOK, Holds
<1>3. ManualTypeOK'
  BY <1>1 DEF ManualTypeOK
<1>4. InOrder' /\ Apart'
  BY <1>1 DEF InOrder, Apart, Held
<1>5. \A p \in Passes, b \in Alarms \ {a} : (Holds(p, b)' <=> Holds(p, b)) /\ (Held(p, b)' <=> Held(p, b))
  BY <1>1, <1>2 DEF Holds, Held
<1>6. Fenced'
  BY <1>1, <1>2, <1>5 DEF Fenced
<1>7. Lasting'
  BY <1>1, <1>2, <1>5 DEF Lasting, ManualAssumption, DelayAssumption
<1>8. CheckpointWins'
  BY <1>1, <1>2 DEF CheckpointWins
<1>9. QED
  BY <1>3, <1>4, <1>6, <1>7, <1>8

-----------------------------------------------------------------------------
LEMMA SelectOK == ASSUME ManualAssumption, ManualIInv, NEW p \in Passes, Select(p) PROVE ManualIInv'
<1> USE DEF ManualIInv
<1> DEFINE taken(a) == IF a \in Due THEN [revision |-> rows[a].revision, left |-> 0, stage |-> "queued"]
                       ELSE NoClaim
<1>1. /\ phase[p] = "idle" /\ phase' = [phase EXCEPT ![p] = "selected"] /\ age' = [age EXCEPT ![p] = 0]
      /\ claims' = [claims EXCEPT ![p] = [a \in Alarms |-> taken(a)]]
      /\ superseded' = {x \in superseded : x[1] # p}
      /\ UNCHANGED <<rows, wanted, fresh, owed, enrollments, evictions>>
  BY DEF Select
<1>2. /\ phase'[p] = "selected" /\ \A q \in Passes \ {p} : phase'[q] = phase[q] /\ claims'[q] = claims[q]
      /\ \A a \in Alarms : claims'[p][a] = taken(a) /\ <<p, a>> \notin superseded'
      /\ \A q \in Passes \ {p}, a \in Alarms : <<q, a>> \in superseded' <=> <<q, a>> \in superseded
  BY <1>1 DEF ManualTypeOK
<1>3. \A a \in Alarms : /\ taken(a) \in Claim \cup {NoClaim}
                        /\ taken(a) # NoClaim => taken(a).stage = "queued" /\ rows[a].left = 0
  BY LongestOK DEF ManualTypeOK, Due, Claim, Row, Delays
<1> HIDE DEF taken
<1>4. ManualTypeOK'
  <2>1. claims' \in [Passes -> [Alarms -> Claim \cup {NoClaim}]]
    BY <1>1, <1>3 DEF ManualTypeOK
  <2>2. age' \in [Passes -> Delays]
    BY <1>1, LongestOK DEF ManualTypeOK, Delays
  <2>3. QED
    BY <1>1, <2>1, <2>2 DEF ManualTypeOK
<1>5. InOrder'
  <2>1. \A q \in Passes \ {p}, a \in Alarms :
          /\ phase'[q] = "idle" => claims'[q][a] = NoClaim
          /\ claims'[q][a] # NoClaim /\ claims'[q][a].stage # "queued" => phase'[q] = "claimed"
          /\ claims'[q][a] # NoClaim /\ claims'[q][a].stage = "running" => a \in Known
    BY <1>2 DEF InOrder
  <2>2. \A a \in Alarms : claims'[p][a] # NoClaim => claims'[p][a].stage = "queued"
    BY <1>2, <1>3
  <2>3. QED
    BY <1>2, <2>1, <2>2 DEF InOrder
<1>6. \A q \in Passes \ {p}, a \in Alarms : (Holds(q, a)' <=> Holds(q, a)) /\ (Held(q, a)' <=> Held(q, a))
  BY <1>1, <1>2 DEF Holds, Held
<1>7. \A a \in Alarms : ~ Held(p, a)' /\ (Holds(p, a)' => rows'[a].left = 0)
  BY <1>1, <1>2, <1>3 DEF Held, Holds
<1>8. Fenced'
  BY <1>1, <1>2, <1>6, <1>7 DEF Fenced
<1>9. Apart'
  BY <1>2, <1>6, <1>7 DEF Apart
<1>10. Lasting'
  BY <1>1, <1>2, <1>6, <1>7 DEF Lasting, ManualAssumption, DelayAssumption
<1>11. CheckpointWins'
  BY <1>1 DEF CheckpointWins
<1>12. QED
  BY <1>4, <1>5, <1>8, <1>9, <1>10, <1>11

LEMMA MovedOK ==
  ASSUME ManualAssumption, ManualTypeOK, NEW p \in Passes, NEW a \in Alarms
  PROVE  /\ MovedBy(p, a) \in Delays /\ Less(InFlightRecovery, age[p]) \in Delays
         /\ a \in Known => MovedBy(p, a) = Less(InFlightRecovery, age[p])
<1>1. age[p] \in Nat /\ InFlightRecovery \in Delays /\ ParkedRetryDelay \in Delays
  BY LongestOK DEF ManualTypeOK, Delays
<1>2. QED
  BY <1>1, LessOK DEF MovedBy

LEMMA ClaimRowsOK ==
  ASSUME ManualAssumption, ManualIInv, NEW p \in Passes, ClaimRows(p)
  PROVE  ManualIInv'
<1> USE DEF ManualIInv
<1>1. /\ phase[p] = "selected" /\ phase' = [phase EXCEPT ![p] = "claimed"]
      /\ superseded' = {x \in superseded : x[1] # p}
      /\ UNCHANGED <<age, wanted, owed, enrollments, evictions>>
  BY DEF ClaimRows
<1>2. \A a \in Alarms :
        /\ rows'[a] = IF Holds(p, a)
                      THEN [left |-> MovedBy(p, a), revision |-> NewRevision(a), claimed |-> TRUE]
                      ELSE rows[a]
        /\ claims'[p][a] = IF Holds(p, a)
                           THEN [revision |-> NewRevision(a), left |-> Less(InFlightRecovery, age[p]),
                                 stage |-> "queued"]
                           ELSE NoClaim
        /\ fresh'[a] = (fresh[a] /\ ~ Holds(p, a))
        /\ <<p, a>> \notin superseded'
        /\ \A q \in Passes \ {p} : <<q, a>> \in superseded' <=> <<q, a>> \in superseded
  BY <1>1 DEF ClaimRows, ManualTypeOK
<1>3. phase'[p] = "claimed" /\ \A q \in Passes \ {p} : phase'[q] = phase[q] /\ claims'[q] = claims[q]
  BY <1>1 DEF ClaimRows, ManualTypeOK
<1>4. \A a \in Alarms : Holds(p, a) =>
        /\ rows'[a] \in Row /\ claims'[p][a] \in Claim
        /\ rows'[a].revision = NewRevision(a) /\ claims'[p][a].revision = NewRevision(a)
        /\ rows'[a].left = MovedBy(p, a) /\ claims'[p][a].left = Less(InFlightRecovery, age[p])
        /\ rows'[a].claimed /\ claims'[p][a].stage = "queued" /\ ~ fresh'[a] /\ rows[a].left = 0
        /\ rows'[a] # NoRow /\ claims'[p][a] # NoClaim
  <2>1. TAKE a \in Alarms
  <2>2. HAVE Holds(p, a)
  <2>3. rows[a].left = 0
    BY <1>1, <2>2 DEF Fenced
  <2>4. rows'[a] = [left |-> MovedBy(p, a), revision |-> NewRevision(a), claimed |-> TRUE] /\ rows'[a] \in Row
    <3>1. rows'[a] = [left |-> MovedBy(p, a), revision |-> NewRevision(a), claimed |-> TRUE]
      BY <1>2, <2>2
    <3>2. MovedBy(p, a) \in Delays /\ NewRevision(a) \in Revisions
      BY MovedOK, NewRevisionOK
    <3>3. QED
      BY <3>1, <3>2 DEF Row
  <2>5. /\ claims'[p][a] = [revision |-> NewRevision(a), left |-> Less(InFlightRecovery, age[p]),
                            stage |-> "queued"]
        /\ claims'[p][a] \in Claim
    <3>1. claims'[p][a] = [revision |-> NewRevision(a), left |-> Less(InFlightRecovery, age[p]),
                           stage |-> "queued"]
      BY <1>2, <2>2
    <3>2. Less(InFlightRecovery, age[p]) \in Delays /\ NewRevision(a) \in Revisions
      BY MovedOK, NewRevisionOK
    <3>3. QED
      BY <3>1, <3>2 DEF Claim
  <2>6. QED
    <3>1. ~ fresh'[a]
      BY <1>2, <2>2
    <3>2. rows'[a] # NoRow /\ claims'[p][a] # NoClaim
      BY <2>4, <2>5 DEF ManualAssumption
    <3>3. QED
      BY <2>3, <2>4, <2>5, <3>1, <3>2
<1>5. ManualTypeOK'
  <2>1. rows' \in [Alarms -> Row \cup {NoRow}]
    <3>1. \A a \in Alarms : rows'[a] \in Row \cup {NoRow}
      BY <1>2, <1>4 DEF ManualTypeOK
    <3>2. QED
      BY <3>1 DEF ClaimRows
  <2>2. claims' \in [Passes -> [Alarms -> Claim \cup {NoClaim}]]
    <3>1. \A a \in Alarms : claims'[p][a] \in Claim \cup {NoClaim}
      BY <1>2, <1>4
    <3>2. claims'[p] \in [Alarms -> Claim \cup {NoClaim}]
      BY <3>1 DEF ClaimRows, ManualTypeOK
    <3>3. claims' = [claims EXCEPT ![p] = claims'[p]]
      BY DEF ClaimRows, ManualTypeOK
    <3>4. QED
      BY <3>2, <3>3 DEF ManualTypeOK
  <2>3. fresh' \in [Alarms -> BOOLEAN]
    BY DEF ClaimRows, ManualTypeOK
  <2>4. QED
    BY <1>1, <2>1, <2>2, <2>3 DEF ManualTypeOK
<1>6. InOrder'
  <2>1. \A q \in Passes \ {p}, a \in Alarms :
          /\ phase'[q] = "idle" => claims'[q][a] = NoClaim
          /\ claims'[q][a] # NoClaim /\ claims'[q][a].stage # "queued" => phase'[q] = "claimed"
          /\ claims'[q][a] # NoClaim /\ claims'[q][a].stage = "running" => a \in Known
    BY <1>3 DEF InOrder
  <2>2. \A a \in Alarms : claims'[p][a] # NoClaim => claims'[p][a].stage = "queued"
    BY <1>2, <1>4
  <2>3. QED
    BY <1>3, <2>1, <2>2 DEF InOrder
<1>7. \A q \in Passes \ {p}, a \in Alarms :
        /\ Held(q, a)' <=> Held(q, a)
        /\ Holds(p, a) => ~ Holds(q, a)'
        /\ ~ Holds(p, a) => (Holds(q, a)' <=> Holds(q, a)) /\ rows'[a] = rows[a]
  <2>1. TAKE q \in Passes \ {p}, a \in Alarms
  <2>2. Held(q, a)' <=> Held(q, a)
    BY <1>3 DEF Held
  <2>3. ASSUME Holds(p, a) PROVE ~ Holds(q, a)'
    BY <1>3, <1>4, <2>3, TouchedIsLost
  <2>4. ASSUME ~ Holds(p, a) PROVE (Holds(q, a)' <=> Holds(q, a)) /\ rows'[a] = rows[a]
    BY <1>2, <1>3, <2>4 DEF Holds
  <2>5. QED
    BY <2>2, <2>3, <2>4
<1>8. \A a \in Alarms : /\ Holds(p, a)' => Holds(p, a)
                        /\ Held(p, a)' => Holds(p, a) /\ Holds(p, a)'
  BY <1>2, <1>3, <1>4 DEF Holds, Held
<1>9. Fenced'
  <2>1. SUFFICES ASSUME NEW q \in Passes, NEW a \in Alarms, Holds(q, a)'
                 PROVE  /\ <<q, a>> \notin superseded'
                        /\ phase'[q] = "selected" => rows'[a].left = 0
                        /\ phase'[q] = "claimed" => rows'[a].claimed /\ ~ fresh'[a]
    BY DEF Fenced
  <2>2. CASE q = p
    BY <1>2, <1>3, <1>4, <1>8, <2>1, <2>2
  <2>3. CASE q # p
    <3>1. ~ Holds(p, a) /\ Holds(q, a) /\ rows'[a] = rows[a]
      BY <1>7, <2>1, <2>3
    <3>2. fresh'[a] = fresh[a]
      BY <1>2, <3>1 DEF ManualTypeOK
    <3>3. /\ <<q, a>> \notin superseded
          /\ phase[q] = "selected" => rows[a].left = 0
          /\ phase[q] = "claimed" => rows[a].claimed /\ ~ fresh[a]
      BY <3>1 DEF Fenced
    <3>4. <<q, a>> \notin superseded' /\ phase'[q] = phase[q]
      BY <1>2, <1>3, <2>3, <3>3
    <3>5. QED
      BY <3>1, <3>2, <3>3, <3>4
  <2>4. QED
    BY <2>2, <2>3
<1>10. Apart'
  <2>1. \A q \in Passes \ {p}, a \in Alarms :
          Held(p, a)' /\ Held(q, a)' => claims'[p][a].revision # claims'[q][a].revision
    BY <1>3, <1>4, <1>7, <1>8, NewRevisionOK DEF Held
  <2>2. SUFFICES ASSUME NEW q \in Passes, NEW r \in Passes, NEW a \in Alarms,
                        q # r, Held(q, a)', Held(r, a)'
                 PROVE  claims'[q][a].revision # claims'[r][a].revision
    BY DEF Apart
  <2>3. CASE q = p \/ r = p
    BY <2>1, <2>2, <2>3
  <2>4. CASE q # p /\ r # p
    BY <1>3, <1>7, <2>2, <2>4 DEF Apart
  <2>5. QED
    BY <2>3, <2>4
<1>11. Lasting'
  <2>1. SUFFICES ASSUME NEW q \in Passes, NEW a \in Known,
                        Held(q, a)', <<q, a>> \notin superseded', claims'[q][a].left # 0
                 PROVE  Holds(q, a)' /\ rows'[a].left = claims'[q][a].left
    BY DEF Lasting
  <2>2. a \in Alarms
    BY DEF ManualAssumption, DelayAssumption
  <2>3. CASE q = p
    BY <1>4, <1>8, <2>1, <2>2, <2>3, MovedOK
  <2>4. CASE q # p
    <3>1. Held(q, a) /\ <<q, a>> \notin superseded /\ claims[q][a].left # 0
      BY <1>2, <1>3, <1>7, <2>1, <2>2, <2>4
    <3>2. Holds(q, a) /\ rows[a].left = claims[q][a].left
      BY <3>1 DEF Lasting
    <3>3. ~ Holds(p, a)
      BY <1>4, <2>2, <3>1, <3>2
    <3>4. QED
      BY <1>3, <1>7, <2>2, <2>4, <3>2, <3>3
  <2>5. QED
    BY <2>3, <2>4
<1>12. CheckpointWins'
  BY <1>1, <1>2 DEF CheckpointWins
<1>13. QED
  BY <1>5, <1>6, <1>9, <1>10, <1>11, <1>12

\* A pass that gives its claims up, or is lost, leaves rows and the others alone.
LEMMA GivenUpOK ==
  ASSUME ManualAssumption, ManualIInv, NEW P \in SUBSET Passes,
         phase' = [q \in Passes |-> IF q \in P THEN "idle" ELSE phase[q]],
         claims' = [q \in Passes |-> IF q \in P THEN [a \in Alarms |-> NoClaim] ELSE claims[q]],
         UNCHANGED <<rows, age, wanted, fresh, superseded, owed>>,
         enrollments' \in 0..MaxEnrollments, evictions' \in 0..MaxEvictions
  PROVE  ManualIInv'
<1> USE DEF ManualIInv
<1>1. \A q \in Passes \ P : phase'[q] = phase[q] /\ claims'[q] = claims[q]
  OBVIOUS
<1>2. \A q \in P, a \in Alarms : phase'[q] = "idle" /\ claims'[q][a] = NoClaim
  OBVIOUS
<1>3. \A q \in Passes, a \in Alarms :
        /\ q \in P => ~ Holds(q, a)' /\ ~ Held(q, a)'
        /\ q \notin P => (Holds(q, a)' <=> Holds(q, a)) /\ (Held(q, a)' <=> Held(q, a))
  BY <1>1, <1>2 DEF Holds, Held
<1>4. ManualTypeOK'
  <2>1. phase' \in [Passes -> {"idle", "selected", "claimed"}]
    BY DEF ManualTypeOK
  <2>2. claims' \in [Passes -> [Alarms -> Claim \cup {NoClaim}]]
    BY DEF ManualTypeOK
  <2>3. QED
    BY <2>1, <2>2 DEF ManualTypeOK
<1>5. InOrder'
  BY <1>1, <1>2 DEF InOrder
<1>6. Fenced'
  BY <1>1, <1>3 DEF Fenced
<1>7. Apart'
  BY <1>1, <1>3 DEF Apart
<1>8. Lasting'
  BY <1>1, <1>3 DEF Lasting, ManualAssumption, DelayAssumption
<1>9. CheckpointWins'
  BY DEF CheckpointWins
<1>10. QED
  BY <1>4, <1>5, <1>6, <1>7, <1>8, <1>9

LEMMA FaultOK == ASSUME ManualAssumption, ManualIInv, NEW p \in Passes, Fault(p) PROVE ManualIInv'
<1>1. /\ phase' = [q \in Passes |-> IF q \in {p} THEN "idle" ELSE phase[q]]
      /\ claims' = [q \in Passes |-> IF q \in {p} THEN [a \in Alarms |-> NoClaim] ELSE claims[q]]
      /\ UNCHANGED <<rows, age, wanted, fresh, superseded, owed, enrollments, evictions>>
  BY DEF Fault, history, ManualIInv, ManualTypeOK
<1>2. enrollments' \in 0..MaxEnrollments /\ evictions' \in 0..MaxEvictions
  BY <1>1 DEF ManualIInv, ManualTypeOK
<1>3. QED
  BY <1>1, <1>2, GivenUpOK

LEMMA EvictOK == ASSUME ManualAssumption, ManualIInv, Evict PROVE ManualIInv'
<1>1. /\ phase' = [q \in Passes |-> IF q \in Passes THEN "idle" ELSE phase[q]]
      /\ claims' = [q \in Passes |-> IF q \in Passes THEN [a \in Alarms |-> NoClaim] ELSE claims[q]]
      /\ UNCHANGED <<rows, age, wanted, fresh, superseded, owed, enrollments>>
      /\ evictions < MaxEvictions /\ evictions' = evictions + 1
  BY DEF Evict, history
<1>2. enrollments' \in 0..MaxEnrollments /\ evictions' \in 0..MaxEvictions
  BY <1>1 DEF ManualIInv, ManualTypeOK, ManualAssumption, DelayAssumption
<1>3. QED
  BY <1>1, <1>2, GivenUpOK

\* A claim goes on, with its revision and deadline.
LEMMA StageOK ==
  ASSUME ManualAssumption, ManualIInv, NEW p \in Passes, NEW a \in Alarms,
         NEW s \in {"running", "done"}, Held(p, a), s = "running" => a \in Known,
         claims' = [claims EXCEPT ![p][a].stage = s],
         owed' \subseteq Alarms, UNCHANGED <<rows, phase, age, wanted, fresh, superseded, enrollments, evictions>>
  PROVE  ManualIInv'
<1> USE DEF ManualIInv
<1>1. claims[p][a] \in Claim
  BY DEF Held, ManualTypeOK
<1>2. /\ claims'[p][a] = [claims[p][a] EXCEPT !.stage = s]
      /\ \A b \in Alarms \ {a} : claims'[p][b] = claims[p][b]
      /\ \A q \in Passes \ {p} : claims'[q] = claims[q]
  BY DEF ManualTypeOK
<1>3. claims'[p][a] \in Claim /\ claims'[p][a].stage = s /\ claims'[p][a].left = claims[p][a].left
      /\ claims'[p][a].revision = claims[p][a].revision /\ claims'[p][a] # NoClaim
  BY <1>1, <1>2 DEF Claim, ManualAssumption
<1>4. \A q \in Passes, b \in Alarms :
        /\ claims'[q][b] # NoClaim <=> claims[q][b] # NoClaim
        /\ claims[q][b] # NoClaim => /\ claims'[q][b].left = claims[q][b].left
                                     /\ claims'[q][b].revision = claims[q][b].revision
        /\ <<q, b>> # <<p, a>> => claims'[q][b] = claims[q][b]
  BY <1>2, <1>3 DEF Held
<1>5. \A q \in Passes, b \in Alarms : (Holds(q, b)' <=> Holds(q, b)) /\ (Held(q, b)' <=> Held(q, b))
  BY <1>4 DEF Holds, Held
<1>6. ManualTypeOK'
  <2>1. claims' \in [Passes -> [Alarms -> Claim \cup {NoClaim}]]
    BY <1>2, <1>3 DEF ManualTypeOK
  <2>2. QED
    BY <2>1 DEF ManualTypeOK
<1>7. InOrder'
  BY <1>3, <1>4 DEF InOrder, Held
<1>8. Fenced'
  BY <1>5 DEF Fenced
<1>9. Apart'
  BY <1>4, <1>5 DEF Apart, Held
<1>10. Lasting'
  BY <1>4, <1>5 DEF Lasting, Held, ManualAssumption, DelayAssumption
<1>11. CheckpointWins'
  BY DEF CheckpointWins
<1>12. QED
  BY <1>6, <1>7, <1>8, <1>9, <1>10, <1>11

LEMMA StartOK ==
  ASSUME ManualAssumption, ManualIInv, NEW p \in Passes, NEW a \in Alarms, Start(p, a)
  PROVE  ManualIInv'
<1> DEFINE starts == Current(p, a) /\ a \in Known
<1>1. /\ Held(p, a)
      /\ claims' = [claims EXCEPT ![p][a].stage = IF starts THEN "running" ELSE "done"]
      /\ owed' = IF starts THEN owed \ {a} ELSE owed
      /\ UNCHANGED <<rows, phase, age, wanted, fresh, superseded, enrollments, evictions>>
  BY DEF Start, Held
<1>2. owed' \subseteq Alarms
  BY <1>1 DEF ManualIInv, ManualTypeOK
<1>3. CASE starts
  BY <1>1, <1>2, <1>3, StageOK
<1>4. CASE ~ starts
  BY <1>1, <1>2, <1>4, StageOK
<1>5. QED
  BY <1>3, <1>4

LEMMA EndOK ==
  ASSUME ManualAssumption, ManualIInv, NEW p \in Passes, NEW a \in Alarms, End(p, a)
  PROVE  ManualIInv'
<1>1. /\ Held(p, a) /\ claims' = [claims EXCEPT ![p][a].stage = "done"]
      /\ UNCHANGED <<rows, phase, age, wanted, fresh, superseded, owed, enrollments, evictions>>
  BY DEF End, Running, Held, history, ManualIInv, InOrder
<1>2. owed' \subseteq Alarms
  BY <1>1 DEF ManualIInv, ManualTypeOK
<1>3. QED
  BY <1>1, <1>2, StageOK

LEMMA RetireOK ==
  ASSUME ManualAssumption, ManualIInv, NEW p \in Passes, Retire(p)
  PROVE  ManualIInv'
<1> USE DEF ManualIInv
<1>1. /\ phase[p] = "claimed" /\ phase' = [phase EXCEPT ![p] = "idle"]
      /\ claims' = [claims EXCEPT ![p] = [a \in Alarms |-> NoClaim]]
      /\ UNCHANGED <<age, wanted, fresh, superseded, owed, enrollments, evictions>>
  BY DEF Retire, history
<1>2. /\ phase'[p] = "idle" /\ \A a \in Alarms : claims'[p][a] = NoClaim
      /\ \A q \in Passes \ {p} : phase'[q] = phase[q] /\ claims'[q] = claims[q]
  BY <1>1 DEF ManualTypeOK
<1>3. \A a \in Alarms : rows'[a] = IF Holds(p, a)
                        THEN [left |-> ParkedRetryDelay, revision |-> NewRevision(a), claimed |-> FALSE]
                        ELSE rows[a]
  BY DEF Retire, Unchanged
<1>4. ManualTypeOK'
  <2>1. \A a \in Alarms : rows'[a] \in Row \cup {NoRow}
    <3>1. TAKE a \in Alarms
    <3>2. ParkedRetryDelay \in Delays /\ NewRevision(a) \in Revisions
      BY LongestOK, NewRevisionOK DEF Delays
    <3>3. [left |-> ParkedRetryDelay, revision |-> NewRevision(a), claimed |-> FALSE] \in Row
      BY <3>2 DEF Row
    <3>4. QED
      BY <1>3, <3>3 DEF ManualTypeOK
  <2>2. rows' \in [Alarms -> Row \cup {NoRow}]
    BY <2>1 DEF Retire
  <2>3. QED
    BY <1>1, <2>2 DEF ManualTypeOK
<1>5. InOrder'
  BY <1>2 DEF InOrder
<1>6. \A a \in Alarms : ~ Holds(p, a)' /\ ~ Held(p, a)'
  BY <1>2 DEF Holds, Held
<1>7. \A q \in Passes \ {p}, a \in Alarms :
        /\ Held(q, a)' <=> Held(q, a)
        /\ Holds(p, a) => ~ Holds(q, a)'
        /\ ~ Holds(p, a) => (Holds(q, a)' <=> Holds(q, a)) /\ rows'[a] = rows[a]
  <2>1. TAKE q \in Passes \ {p}, a \in Alarms
  <2>2. Held(q, a)' <=> Held(q, a)
    BY <1>2 DEF Held
  <2>3. ASSUME Holds(p, a) PROVE ~ Holds(q, a)'
    <3>1. rows'[a] = [left |-> ParkedRetryDelay, revision |-> NewRevision(a), claimed |-> FALSE]
      BY <1>3, <2>3
    <3>2. rows'[a].revision = NewRevision(a)
      BY <3>1
    <3>3. QED
      BY <1>2, <3>2, TouchedIsLost
  <2>4. ASSUME ~ Holds(p, a) PROVE (Holds(q, a)' <=> Holds(q, a)) /\ rows'[a] = rows[a]
    BY <1>2, <1>3, <2>4 DEF Holds
  <2>5. QED
    BY <2>2, <2>3, <2>4
<1>8. Fenced'
  BY <1>1, <1>2, <1>6, <1>7 DEF Fenced
<1>9. Apart'
  BY <1>2, <1>6, <1>7 DEF Apart
<1>10. Lasting'
  <2>1. SUFFICES ASSUME NEW q \in Passes, NEW a \in Known,
                        Held(q, a)', <<q, a>> \notin superseded', claims'[q][a].left # 0
                 PROVE  Holds(q, a)' /\ rows'[a].left = claims'[q][a].left
    BY DEF Lasting
  <2>2. a \in Alarms /\ q # p
    BY <1>6, <2>1 DEF ManualAssumption, DelayAssumption
  <2>3. Held(q, a) /\ claims'[q] = claims[q] /\ Holds(q, a) /\ rows[a].left = claims[q][a].left
    BY <1>1, <1>2, <1>7, <2>1, <2>2 DEF Lasting
  <2>4. ~ Holds(p, a)
    <3>1. ASSUME Holds(p, a) PROVE FALSE
      <4>1. claims[p][a].revision = claims[q][a].revision /\ Held(p, a)
        BY <1>1, <2>3, <3>1 DEF Holds, Held
      <4>2. QED
        BY <2>2, <2>3, <4>1 DEF Apart
    <3>2. QED
      BY <3>1
  <2>5. QED
    BY <1>7, <2>2, <2>3, <2>4
<1>11. CheckpointWins'
  BY <1>1, <1>3 DEF CheckpointWins, Fenced
<1>12. QED
  BY <1>4, <1>5, <1>8, <1>9, <1>10, <1>11

LEMMA TickOK == ASSUME ManualAssumption, ManualIInv, Tick PROVE ManualIInv'
<1> USE DEF ManualIInv
<1>1. /\ \A a \in Alarms : /\ rows'[a] = IF rows[a] = NoRow THEN NoRow
                                         ELSE [rows[a] EXCEPT !.left = Less(rows[a].left, 1)]
                           /\ wanted'[a] = Less(wanted[a], 1)
      /\ \A p \in Passes, a \in Alarms :
           claims'[p][a] = IF claims[p][a] = NoClaim THEN NoClaim
                           ELSE [claims[p][a] EXCEPT !.left = Less(claims[p][a].left, 1)]
      /\ UNCHANGED <<phase, fresh, superseded, owed, enrollments, evictions>>
  BY DEF Tick, ManualTypeOK
<1>2. \A a \in Alarms :
        /\ rows[a] # NoRow => /\ rows'[a] \in Row /\ rows'[a].left = Less(rows[a].left, 1)
                              /\ rows'[a].revision = rows[a].revision /\ rows'[a].claimed = rows[a].claimed
                              /\ rows'[a] # NoRow
        /\ rows[a] = NoRow => rows'[a] = NoRow
  <2>1. TAKE a \in Alarms
  <2>2. ASSUME rows[a] # NoRow
        PROVE  /\ rows'[a] \in Row /\ rows'[a].left = Less(rows[a].left, 1)
               /\ rows'[a].revision = rows[a].revision /\ rows'[a].claimed = rows[a].claimed
    <3>1. rows[a] \in Row /\ rows[a].left \in Delays
      BY <2>2 DEF ManualTypeOK, Row
    <3>2. Less(rows[a].left, 1) \in Delays
      BY <3>1, LessOK
    <3>3. QED
      BY <1>1, <2>2, <3>1, <3>2 DEF Row
  <2>3. QED
    BY <1>1, <2>2 DEF ManualAssumption
<1>3. \A p \in Passes, a \in Alarms :
        /\ claims[p][a] # NoClaim =>
             /\ claims'[p][a] \in Claim /\ claims'[p][a].left = Less(claims[p][a].left, 1)
             /\ claims'[p][a].revision = claims[p][a].revision /\ claims'[p][a].stage = claims[p][a].stage
             /\ claims'[p][a] # NoClaim /\ (claims'[p][a].left # 0 => claims[p][a].left # 0)
        /\ claims[p][a] = NoClaim => claims'[p][a] = NoClaim
  <2>1. TAKE p \in Passes, a \in Alarms
  <2>2. ASSUME claims[p][a] # NoClaim
        PROVE  /\ claims'[p][a] \in Claim /\ claims'[p][a].left = Less(claims[p][a].left, 1)
               /\ claims'[p][a].revision = claims[p][a].revision /\ claims'[p][a].stage = claims[p][a].stage
               /\ claims'[p][a].left # 0 => claims[p][a].left # 0
    <3>1. claims[p][a] \in Claim /\ claims[p][a].left \in Delays
      BY <2>2 DEF ManualTypeOK, Claim
    <3>2. Less(claims[p][a].left, 1) \in Delays
          /\ (Less(claims[p][a].left, 1) # 0 => claims[p][a].left # 0)
      BY <3>1, LessOK
    <3>3. claims'[p][a] = [claims[p][a] EXCEPT !.left = Less(claims[p][a].left, 1)]
      BY <1>1, <2>2
    <3>4. /\ claims'[p][a] \in Claim /\ claims'[p][a].left = Less(claims[p][a].left, 1)
          /\ claims'[p][a].revision = claims[p][a].revision /\ claims'[p][a].stage = claims[p][a].stage
      BY <3>1, <3>2, <3>3 DEF Claim
    <3>5. QED
      BY <3>2, <3>4
  <2>3. QED
    BY <1>1, <2>2 DEF ManualAssumption
<1>4. \A p \in Passes, a \in Alarms : (Holds(p, a)' <=> Holds(p, a)) /\ (Held(p, a)' <=> Held(p, a))
  BY <1>1, <1>2, <1>3 DEF Holds, Held
<1>5. Less(0, 1) = 0
  BY DEF Less
<1>6. ManualTypeOK'
  <2>1. rows' \in [Alarms -> Row \cup {NoRow}]
    BY <1>2 DEF Tick
  <2>2. claims' \in [Passes -> [Alarms -> Claim \cup {NoClaim}]]
    BY <1>3 DEF Tick
  <2>3. wanted' \in [Alarms -> Delays]
    <3>1. \A a \in Alarms : wanted'[a] \in Delays
      <4>1. TAKE a \in Alarms
      <4>2. wanted[a] \in Delays /\ 1 \in Nat
        BY DEF ManualTypeOK
      <4>3. Less(wanted[a], 1) \in Delays
        BY <4>2, LessOK
      <4>4. QED
        BY <1>1, <4>3
    <3>2. QED
      BY <3>1 DEF Tick
  <2>4. age' \in [Passes -> Delays]
    <3>1. \A p \in Passes : Shorter(age[p] + 1, Longest) \in Delays /\ 0 \in Delays
      <4>1. TAKE p \in Passes
      <4>2. age[p] + 1 \in Nat /\ Longest \in Delays /\ 0 \in Delays
        BY LongestOK DEF ManualTypeOK, Delays
      <4>3. QED
        BY <4>2, ShorterOK
    <3>2. QED
      BY <3>1 DEF Tick
  <2>5. QED
    BY <1>1, <2>1, <2>2, <2>3, <2>4 DEF ManualTypeOK
<1>7. InOrder'
  BY <1>1, <1>3 DEF InOrder
<1>8. Fenced'
  BY <1>1, <1>2, <1>4, <1>5 DEF Fenced, Holds
<1>9. Apart'
  BY <1>3, <1>4 DEF Apart, Held
<1>10. Lasting'
  <2>1. SUFFICES ASSUME NEW p \in Passes, NEW a \in Known,
                        Held(p, a)', <<p, a>> \notin superseded', claims'[p][a].left # 0
                 PROVE  Holds(p, a)' /\ rows'[a].left = claims'[p][a].left
    BY DEF Lasting
  <2>2. a \in Alarms
    BY DEF ManualAssumption, DelayAssumption
  <2>3. Held(p, a) /\ <<p, a>> \notin superseded /\ claims[p][a].left # 0 /\ claims[p][a] # NoClaim
    BY <1>1, <1>3, <1>4, <2>1, <2>2 DEF Held
  <2>4. Holds(p, a) /\ rows[a].left = claims[p][a].left /\ rows[a] # NoRow
    BY <2>3 DEF Lasting, Holds
  <2>5. QED
    BY <1>2, <1>3, <1>4, <2>2, <2>3, <2>4
<1>11. CheckpointWins'
  <2>1. SUFFICES ASSUME NEW a \in Alarms, rows'[a] # NoRow, fresh'[a] PROVE rows'[a].left = wanted'[a]
    BY DEF CheckpointWins
  <2>2. rows[a] # NoRow /\ fresh[a]
    BY <1>1, <1>2, <2>1
  <2>3. rows[a].left = wanted[a] /\ rows'[a].left = Less(rows[a].left, 1) /\ wanted'[a] = Less(wanted[a], 1)
    BY <1>1, <1>2, <2>2 DEF CheckpointWins
  <2>4. QED
    BY <2>3
<1>12. QED
  BY <1>6, <1>7, <1>8, <1>9, <1>10, <1>11

LEMMA ManualStutterOK == ASSUME ManualIInv, UNCHANGED manualVars PROVE ManualIInv'
BY DEF manualVars, ManualIInv, ManualTypeOK, InOrder, Fenced, Apart, Lasting, CheckpointWins, Held, Holds

LEMMA ManualNextOK == ASSUME ManualAssumption, ManualIInv, [ManualNext]_manualVars PROVE ManualIInv'
BY EnrollOK, CancelOK, SelectOK, ClaimRowsOK, FaultOK, RetireOK, StartOK, EndOK, EvictOK, TickOK,
   ManualStutterOK
   DEF ManualNext

LEMMA ManualInvariance == ASSUME ManualAssumption PROVE ManualSpec => []ManualIInv
<1>1. ManualInit => ManualIInv
  BY ManualInitOK
<1>2. ManualIInv /\ [ManualNext]_manualVars => ManualIInv'
  BY ManualNextOK
<1>3. QED
  BY <1>1, <1>2, PTL DEF ManualSpec

-----------------------------------------------------------------------------
\* Every variable of the manual lifecycle keeps its domain.
THEOREM ManualTypeCorrect == ASSUME ManualAssumption PROVE ManualSpec => []ManualTypeOK
BY ManualInvariance, PTL DEF ManualIInv

\* Until a pass claims it, a row is due exactly when its last enrollment asked for it,
\* whatever older passes retire meanwhile.
THEOREM NewerCheckpointsWin == ASSUME ManualAssumption PROVE ManualSpec => []CheckpointWins
BY ManualInvariance, PTL DEF ManualIInv

\* Two handlers of one alarm run at once only if the claim of one has run out or its
\* row was enrolled again or cancelled since.
THEOREM ClaimsKeepOthersAway == ASSUME ManualAssumption PROVE ManualSpec => []ClaimsExclude
<1>1. ASSUME ManualIInv, NEW p \in Passes, NEW q \in Passes, NEW a \in Running(p) \cap Running(q), p # q
      PROVE  \E x \in {p, q} : claims[x][a].left = 0 \/ <<x, a>> \in superseded
  <2>1. a \in Alarms /\ a \in Known /\ Held(p, a) /\ Held(q, a)
    BY <1>1 DEF Running, Held, ManualIInv, InOrder
  <2>2. ASSUME \A x \in {p, q} : claims[x][a].left # 0 /\ <<x, a>> \notin superseded PROVE FALSE
    <3>1. Holds(p, a) /\ Holds(q, a)
      BY <1>1, <2>1, <2>2 DEF ManualIInv, Lasting
    <3>2. claims[p][a].revision = claims[q][a].revision
      BY <3>1 DEF Holds
    <3>3. QED
      BY <1>1, <2>1, <3>2 DEF ManualIInv, Apart
  <2>3. QED
    BY <2>2
<1>2. ManualIInv => ClaimsExclude
  BY <1>1 DEF ClaimsExclude
<1>3. QED
  BY <1>2, ManualInvariance, PTL

\* A step of a pass changes a row only if nobody enrolled or cancelled it after the pass
\* read it.
THEOREM OlderPassesYield == ASSUME ManualAssumption PROVE ManualSpec => PassesRespectNewerRows
<1> DEFINE Respects ==
      \A p \in Passes, a \in Alarms :
        (claims[p][a] # NoClaim /\ phase'[p] # phase[p] /\ rows'[a] # rows[a])
          => <<p, a>> \notin superseded
<1>1. ASSUME ManualIInv, ManualNext PROVE Respects
  <2>1. SUFFICES ASSUME NEW p \in Passes, NEW a \in Alarms, phase'[p] # phase[p], rows'[a] # rows[a]
                 PROVE  <<p, a>> \notin superseded
    OBVIOUS
  <2>2. ASSUME NEW q \in Passes, ClaimRows(q) \/ Retire(q) PROVE q = p /\ Holds(p, a)
    BY <2>1, <2>2, <1>1 DEF ClaimRows, Retire, Unchanged, ManualIInv, ManualTypeOK
  <2>3. Holds(p, a)
    BY <1>1, <2>1, <2>2
       DEF ManualNext, Enroll, Cancel, Select, Fault, Start, End, Evict, Tick, passes
  <2>4. QED
    BY <1>1, <2>3 DEF ManualIInv, Fenced
<1>2. ManualIInv /\ [ManualNext]_manualVars => [Respects]_manualVars
  BY <1>1
<1>3. QED
  BY <1>2, ManualInvariance, PTL DEF ManualSpec, PassesRespectNewerRows

\* What is promised of claims and newer enrollments, all of it: for any alarms, passes,
\* deadlines, delays and evictions.
THEOREM ClaimsStayKept == ASSUME ManualAssumption PROVE ManualSpec => ClaimsAreKept
BY ManualTypeCorrect, NewerCheckpointsWin, ClaimsKeepOthersAway, OlderPassesYield, PTL
   DEF ClaimsAreKept

----------------------------------------------------------------------------
(* Sockets and their attachments. *)

LEMMA HeadAndTail ==
  ASSUME NEW S, NEW q \in Seq(S), q # <<>>
  PROVE  /\ Head(q) \in S /\ Tail(q) \in Seq(S) /\ ToSet(q) = {Head(q)} \cup ToSet(Tail(q))
         /\ IsInjective(q) => IsInjective(Tail(q)) /\ Head(q) \notin ToSet(Tail(q))
<1>1. /\ Len(q) \in Nat \ {0} /\ DOMAIN q = 1..Len(q) /\ Head(q) = q[1]
      /\ Head(q) \in S /\ Tail(q) \in Seq(S) /\ Len(Tail(q)) = Len(q) - 1
      /\ DOMAIN Tail(q) = 1..(Len(q) - 1) /\ \A i \in 1..(Len(q) - 1) : Tail(q)[i] = q[i + 1]
  BY HeadTailProperties, LenProperties, EmptySeq
<1>2. \A i \in 1..Len(q) : i = 1 \/ (i - 1 \in 1..(Len(q) - 1) /\ q[i] = Tail(q)[i - 1])
  BY <1>1
<1>3. ToSet(q) = {Head(q)} \cup ToSet(Tail(q))
  <2>1. ASSUME NEW i \in 1..Len(q) PROVE q[i] \in {Head(q)} \cup ToSet(Tail(q))
    <3>1. CASE i = 1
      BY <1>1, <3>1
    <3>2. CASE i # 1
      <4>1. i - 1 \in DOMAIN Tail(q) /\ q[i] = Tail(q)[i - 1]
        BY <1>1, <1>2, <3>2
      <4>2. QED
        BY <4>1 DEF ToSet
    <3>3. QED
      BY <3>1, <3>2
  <2>2. \A i \in 1..(Len(q) - 1) : i + 1 \in 1..Len(q)
    BY <1>1
  <2>3. 1 \in 1..Len(q)
    BY <1>1
  <2>4. QED
    BY <1>1, <2>1, <2>2, <2>3 DEF ToSet
<1>4. ASSUME IsInjective(q) PROVE IsInjective(Tail(q)) /\ Head(q) \notin ToSet(Tail(q))
  <2>1. \A i, j \in 1..Len(q) : q[i] = q[j] => i = j
    BY <1>1, <1>4 DEF IsInjective
  <2>2. \A i \in 1..(Len(q) - 1) : i + 1 \in 1..Len(q) /\ i + 1 # 1
    BY <1>1
  <2>3. ASSUME NEW i \in 1..(Len(q) - 1), NEW j \in 1..(Len(q) - 1), Tail(q)[i] = Tail(q)[j] PROVE i = j
    BY <1>1, <2>1, <2>2, <2>3
  <2>4. \A i \in 1..(Len(q) - 1) : Tail(q)[i] # Head(q)
    BY <1>1, <2>1, <2>2
  <2>5. QED
    BY <1>1, <2>3, <2>4 DEF IsInjective, ToSet
<1>5. QED
  BY <1>1, <1>3, <1>4

LEMMA AppendedSet ==
  ASSUME NEW S, NEW q \in Seq(S), NEW x \in S
  PROVE  /\ Append(q, x) \in Seq(S) /\ ToSet(Append(q, x)) = ToSet(q) \cup {x}
         /\ IsInjective(q) /\ x \notin ToSet(q) => IsInjective(Append(q, x))
<1>1. /\ Len(q) \in Nat /\ DOMAIN q = 1..Len(q) /\ Append(q, x) \in Seq(S)
      /\ DOMAIN Append(q, x) = 1..(Len(q) + 1) /\ Append(q, x)[Len(q) + 1] = x
      /\ \A i \in 1..Len(q) : Append(q, x)[i] = q[i]
  BY AppendProperties, LenProperties
<1>2. \A i \in 1..(Len(q) + 1) : i \in 1..Len(q) \/ i = Len(q) + 1
  BY <1>1
<1>3. 1..Len(q) \subseteq 1..(Len(q) + 1) /\ Len(q) + 1 \in 1..(Len(q) + 1)
  BY <1>1
<1>4. ToSet(Append(q, x)) = ToSet(q) \cup {x}
  BY <1>1, <1>2, <1>3 DEF ToSet
<1>5. ASSUME IsInjective(q), x \notin ToSet(q) PROVE IsInjective(Append(q, x))
  <2>1. \A i \in 1..Len(q) : q[i] # x
    BY <1>1, <1>5 DEF ToSet
  <2>2. QED
    BY <1>1, <1>2, <1>5, <2>1 DEF IsInjective
<1>6. QED
  BY <1>1, <1>4, <1>5

LEMMA JoinedSets ==
  ASSUME NEW S, NEW p \in Seq(S), NEW q \in Seq(S), ToSet(p) \cap ToSet(q) = {}, IsInjective(p), IsInjective(q)
  PROVE  IsInjective(p \o q) /\ ToSet(p \o q) = ToSet(p) \cup ToSet(q)
<1> DEFINE m == Len(p)  n == Len(q)  c == p \o q
<1>1. m \in Nat /\ n \in Nat /\ DOMAIN p = 1..m /\ DOMAIN q = 1..n /\ DOMAIN c = 1..(m + n)
  BY ConcatProperties, LenProperties
<1>2. \A i \in 1..(m + n) : c[i] = IF i <= m THEN p[i] ELSE q[i - m]
  BY ConcatProperties
<1>3. \A i \in 1..(m + n) : IF i <= m THEN i \in 1..m ELSE i - m \in 1..n
  BY <1>1
<1>4. \A i \in 1..m : i \in 1..(m + n) /\ c[i] = p[i]
  BY <1>1, <1>2
<1>5. \A i \in 1..n : m + i \in 1..(m + n) /\ c[m + i] = q[i]
  BY <1>1, <1>2
<1> HIDE DEF m, n, c
<1>6. \A i \in 1..m, j \in 1..n : p[i] # q[j]
  BY <1>1 DEF ToSet
<1>7. \A i, j \in 1..m : p[i] = p[j] => i = j
  BY <1>1 DEF IsInjective
<1>8. \A i, j \in 1..n : q[i] = q[j] => i = j
  BY <1>1 DEF IsInjective
<1>9. ASSUME NEW i \in 1..(m + n), NEW j \in 1..(m + n), c[i] = c[j] PROVE i = j
  <2>1. CASE i <= m /\ j <= m
    BY <1>2, <1>3, <1>7, <1>9, <2>1
  <2>2. CASE ~ (i <= m) /\ ~ (j <= m)
    <3>1. i - m \in 1..n /\ j - m \in 1..n /\ q[i - m] = q[j - m]
      BY <1>2, <1>3, <1>9, <2>2
    <3>2. i - m = j - m
      BY <1>8, <3>1
    <3>3. QED
      BY <1>1, <3>2
  <2>3. CASE (i <= m) # (j <= m)
    BY <1>2, <1>3, <1>6, <1>9, <2>3
  <2>4. QED
    BY <2>1, <2>2, <2>3
<1>10. ToSet(c) = ToSet(p) \cup ToSet(q)
  <2>1. ToSet(c) \subseteq ToSet(p) \cup ToSet(q)
    BY <1>1, <1>2, <1>3 DEF ToSet
  <2>2. ToSet(p) \subseteq ToSet(c)
    BY <1>1, <1>4 DEF ToSet
  <2>3. ToSet(q) \subseteq ToSet(c)
    BY <1>1, <1>5 DEF ToSet
  <2>4. QED
    BY <2>1, <2>2, <2>3
<1>11. IsInjective(c)
  BY <1>1, <1>9 DEF IsInjective
<1>12. QED
  BY <1>10, <1>11 DEF c

LEMMA ListedOnce ==
  ASSUME NEW S, IsFiniteSet(S)
  PROVE  SetToSeq(S) \in Seq(S) /\ ToSet(SetToSeq(S)) = S /\ IsInjective(SetToSeq(S))
<1> DEFINE n == Cardinality(S)
<1>1. n \in Nat /\ ExistsBijection(1..n, S)
  BY FS_CardinalityType
<1>2. \E f \in [1..n -> S] : IsInjective(f)
  BY <1>1 DEF ExistsBijection, Bijection, Injection, IsInjective
<1>3. SetToSeq(S) \in [1..n -> S] /\ IsInjective(SetToSeq(S))
  BY <1>2 DEF SetToSeq
<1>4. Cardinality(1..n) = n
  BY <1>1, FS_Interval
<1>5. SetToSeq(S) \in Injection(1..n, S)
  BY <1>3 DEF Injection, IsInjective
<1>6. SetToSeq(S) \in Surjection(1..n, S)
  BY <1>4, <1>5, FS_Injection
<1>7. ToSet(SetToSeq(S)) = S
  BY <1>3, <1>6 DEF Surjection, ToSet
<1>8. SetToSeq(S) \in Seq(S)
  BY <1>1, <1>3, IsASeq
<1>9. QED
  BY <1>3, <1>7, <1>8

----------------------------------------------------------------------------
(* What is attached to a socket is of its tag, or garbled.                         *)
Labelled ==
    \A s \in Sockets :
      /\ state[s] = "fresh" => attached[s] = Missing /\ s \notin promised
      /\ attached[s] \in Schemas => tag[s] = attached[s]

(* A call lists accepted sockets of its tag once and has read those that are not   *)
(* in todo; a listed attachment of its schema is not replaced by another.          *)
Reading ==
    /\ call = NoCall => Idle
    /\ call # NoCall =>
         /\ DOMAIN listed \subseteq Sockets
         /\ \A s \in DOMAIN listed :
              /\ state[s] # "fresh" /\ call.tag \in {NoTag, tag[s]}
              /\ listed[s] = call.schema => attached[s] = call.schema
         /\ ReadableAreRestored

Listing ==
    /\ todo \in Seq(Sockets) /\ restored \in Seq(Sockets)
    /\ IsInjective(todo) /\ IsInjective(restored) /\ ToSet(todo) \cap ToSet(restored) = {}
    /\ ToSet(todo) \subseteq DOMAIN listed /\ ToSet(restored) \subseteq DOMAIN listed

AttachmentsDomains ==
    /\ state \in [Sockets -> {"fresh", "open", "closed", "rejected"}]
    /\ attached \in [Sockets -> Schemas \cup {Missing, Garbled}] /\ tag \in [Sockets -> Schemas \cup {NoTag}]
    /\ autoResponse \in Keepalives \cup {NoPair} /\ hibernations \in 0..MaxHibernations
    /\ answering \in [Sockets -> Keepalives \cup {NoPair}] /\ promised \subseteq Sockets
    /\ call \in Calls \cup {NoCall}

AttachmentsIInv ==
    /\ AttachmentsDomains /\ Labelled /\ Listing /\ Reading /\ AcceptedIsAttached /\ KeepaliveHolds
    /\ ClosesItsOwn => OnlyGarbledAreRejected

LEMMA NothingToRead ==
  ASSUME todo = <<>>, restored = <<>>, listed = <<>>
  PROVE  Listing
<1>1. <<>> \in Seq(Sockets) /\ ToSet(<<>>) = {} /\ IsInjective(<<>>)
  BY DEF ToSet, IsInjective
<1>2. QED
  BY <1>1 DEF Listing

LEMMA AttachmentsInitOK == ASSUME AttachmentsAssumption, AttachmentsInit PROVE AttachmentsIInv
<1>1. Listing
  BY NothingToRead DEF AttachmentsInit, Idle
<1>2. AttachmentsDomains /\ Labelled /\ AcceptedIsAttached /\ KeepaliveHolds /\ OnlyGarbledAreRejected
  BY DEF AttachmentsAssumption, AttachmentsInit, Idle, AttachmentsDomains, Labelled, AcceptedIsAttached,
         KeepaliveHolds, OnlyGarbledAreRejected, Missing, Garbled
<1>3. Reading
  BY DEF AttachmentsInit, Idle, Reading
<1>4. QED
  BY <1>1, <1>2, <1>3 DEF AttachmentsIInv

(* Sockets come, get attachments and go, while a call reads.                       *)
LEMMA SocketsOK ==
  ASSUME AttachmentsAssumption, AttachmentsIInv, NEW s \in Sockets,
         \/ \E t \in Schemas : AcceptBare(s, t) \/ Serialize(s, t) \/ Accept(s, t, t) \/ Accept(s, t, Garbled)
         \/ PeerCloses(s)
  PROVE  AttachmentsIInv'
<1> USE DEF AttachmentsIInv, AttachmentsAssumption
<1>0. Missing \notin Schemas /\ Garbled \notin Schemas /\ Missing # Garbled
  BY DEF Missing, Garbled
<1>1. UNCHANGED loopVars /\ UNCHANGED <<autoResponse, installed, hibernations>>
  BY DEF AcceptBare, Serialize, Accept, PeerCloses
<1>2. Listing'
  BY <1>1 DEF Listing, loopVars
<1>3. /\ \A r \in Sockets : r # s => state'[r] = state[r] /\ tag'[r] = tag[r] /\ attached'[r] = attached[r]
                                      /\ answering'[r] = answering[r]
      /\ promised' \in {promised, promised \cup {s}}
  BY DEF AcceptBare, Serialize, Accept, PeerCloses, AttachmentsDomains
<1>4. AttachmentsDomains'
  BY <1>1 DEF AcceptBare, Serialize, Accept, PeerCloses, AttachmentsDomains, loopVars
<1>5. CASE PeerCloses(s)
  BY <1>1, <1>2, <1>4, <1>5 DEF PeerCloses, AttachmentsDomains, Labelled, Reading, Idle, loopVars, AcceptedIsAttached,
     KeepaliveHolds, OnlyGarbledAreRejected, ReadableAreRestored
<1>6. ASSUME state[s] = "fresh", state'[s] = "open",
             \/ attached'[s] = Missing /\ promised' = promised
             \/ attached'[s] \in {tag'[s], Garbled},
             tag'[s] \in Schemas, answering'[s] \in {answering[s], autoResponse}
      PROVE  AttachmentsIInv'
  <2>1. Labelled'
    BY <1>0, <1>3, <1>6 DEF Labelled
  <2>2. AcceptedIsAttached'
    <3>1. promised' \subseteq Sockets /\ s \notin promised
      BY <1>4, <1>6 DEF AttachmentsDomains, Labelled
    <3>2. s \in promised' => attached'[s] # Missing
      BY <1>0, <1>6, <3>1
    <3>3. QED
      BY <1>3, <3>1, <3>2 DEF AcceptedIsAttached
  <2>3. KeepaliveHolds' /\ (ClosesItsOwn => OnlyGarbledAreRejected')
    BY <1>1, <1>3, <1>6 DEF KeepaliveHolds, OnlyGarbledAreRejected
  <2>4. Reading'
    <3>1. call # NoCall => s \notin DOMAIN listed /\ s \notin ToSet(restored)
      BY <1>6 DEF Reading, Listing
    <3>2. QED
      BY <1>1, <1>3, <3>1 DEF Reading, Idle, Listing, loopVars, ReadableAreRestored
  <2>5. QED
    BY <1>2, <1>4, <2>1, <2>2, <2>3, <2>4
<1>7. ASSUME NEW t \in Schemas, AcceptBare(s, t) PROVE AttachmentsIInv'
  BY <1>6, <1>7 DEF AcceptBare, AttachmentsDomains, Labelled
<1>8. ASSUME NEW t \in Schemas, NEW v \in {t, Garbled}, Accept(s, t, v) PROVE AttachmentsIInv'
  BY <1>6, <1>8 DEF Accept, AttachmentsDomains
<1>9. ASSUME NEW t \in Schemas, Serialize(s, t) PROVE AttachmentsIInv'
  <2>1. /\ state[s] = "open" /\ tag[s] = t /\ attached'[s] = t
        /\ UNCHANGED <<state, tag, promised, answering>>
    BY <1>9 DEF Serialize, AttachmentsDomains
  <2>2. Labelled' /\ AcceptedIsAttached'
    BY <1>0, <1>3, <2>1 DEF AttachmentsDomains, Labelled, AcceptedIsAttached
  <2>3. KeepaliveHolds' /\ (ClosesItsOwn => OnlyGarbledAreRejected')
    BY <1>1, <1>3, <2>1 DEF KeepaliveHolds, OnlyGarbledAreRejected
  <2>4. ASSUME call # NoCall, attached[s] = call.schema PROVE attached'[s] = call.schema
    BY <2>1, <2>4 DEF Labelled, AttachmentsDomains
  <2>5. Reading'
    BY <1>1, <1>3, <2>1, <2>4 DEF Reading, Idle, Listing, loopVars, ReadableAreRestored
  <2>6. QED
    BY <1>2, <1>4, <2>2, <2>3, <2>5
<1>10. QED
  BY <1>5, <1>7, <1>8, <1>9

-----------------------------------------------------------------------------
(* The constructor, an eviction and the two ends of a call.                        *)
LEMMA AroundCallsOK ==
  ASSUME AttachmentsAssumption, AttachmentsIInv,
         (\E p \in Keepalives : InstallKeepalive(p)) \/ FailRead \/ Return \/ Hibernate
  PROVE  AttachmentsIInv'
<1> USE DEF AttachmentsIInv, AttachmentsAssumption
<1>1. CASE FailRead \/ Return \/ Hibernate
  <2>1. call' = NoCall /\ todo' = <<>> /\ restored' = <<>> /\ listed' = <<>> /\ UNCHANGED <<socketVars, autoResponse>>
    BY <1>1 DEF FailRead, Return, Hibernate
  <2>2. Listing'
    <3>1. <<>> \in Seq(Sockets) /\ ToSet(<<>>) = {} /\ IsInjective(<<>>)
      BY DEF ToSet, IsInjective
    <3>2. QED
      BY <2>1, <3>1 DEF Listing
  <2>3. Reading'
    BY <2>1 DEF Reading, Idle
  <2>4. hibernations' \in 0..MaxHibernations
    BY <1>1 DEF FailRead, Return, Hibernate, AttachmentsDomains
  <2>5. QED
    BY <2>1, <2>2, <2>3, <2>4 DEF AttachmentsDomains, Labelled, AcceptedIsAttached, KeepaliveHolds,
       OnlyGarbledAreRejected, socketVars
<1>2. ASSUME NEW p \in Keepalives, InstallKeepalive(p) PROVE AttachmentsIInv'
  BY <1>2 DEF InstallKeepalive, socketVars, loopVars, AttachmentsDomains, Labelled, Listing, Reading, Idle,
     AcceptedIsAttached, KeepaliveHolds, OnlyGarbledAreRejected, ReadableAreRestored
<1>3. QED
  BY <1>1, <1>2

LEMMA RehydrateOK ==
  ASSUME AttachmentsAssumption, AttachmentsIInv, NEW c \in Calls, Rehydrate(c)
  PROVE  AttachmentsIInv'
<1> USE DEF AttachmentsIInv, AttachmentsAssumption
<1> DEFINE S == Selected(c)
<1>1. S \subseteq Sockets /\ IsFiniteSet(S)
  BY FS_Subset DEF Selected
<1>2. SetToSeq(S) \in Seq(S) /\ ToSet(SetToSeq(S)) = S /\ IsInjective(SetToSeq(S))
  BY <1>1, ListedOnce
<1>3. SetToSeq(S) \in Seq(Sockets)
  BY <1>1, <1>2, SeqMonotonic
<1>4. \A s \in S : state[s] = "open" /\ c.tag \in {NoTag, tag[s]}
  BY DEF Selected
<1>5. /\ call' = c /\ todo' = SetToSeq(S) /\ restored' = <<>> /\ listed' = [s \in S |-> attached[s]]
      /\ UNCHANGED <<socketVars, autoResponse, installed, hibernations>>
  BY DEF Rehydrate
<1> HIDE DEF S
<1>6. Listing'
  <2>1. <<>> \in Seq(Sockets) /\ ToSet(<<>>) = {} /\ IsInjective(<<>>)
    BY DEF ToSet, IsInjective
  <2>2. QED
    BY <1>2, <1>3, <1>5, <2>1 DEF Listing
<1>7. Reading'
  <2>1. c # NoCall
    BY DEF NoCall
  <2>2. ToSet(<<>>) = {}
    BY DEF ToSet
  <2>3. ReadableAreRestored'
    BY <1>2, <1>5, <2>2 DEF ReadableAreRestored
  <2>4. QED
    BY <1>1, <1>4, <1>5, <2>1, <2>3 DEF Reading, socketVars
<1>8. QED
  BY <1>5, <1>6, <1>7 DEF AttachmentsDomains, Labelled, AcceptedIsAttached, KeepaliveHolds,
     OnlyGarbledAreRejected, socketVars

(* One socket is read.                                                             *)
LEMMA ReadNextOK == ASSUME AttachmentsAssumption, AttachmentsIInv, ReadNext PROVE AttachmentsIInv'
<1> USE DEF AttachmentsIInv, AttachmentsAssumption
<1> DEFINE s == Head(todo)
<1>1. /\ todo \in Seq(Sockets) /\ todo # <<>> /\ restored \in Seq(Sockets)
      /\ IsInjective(todo) /\ IsInjective(restored)
  BY DEF Listing, ReadNext
<1>2. /\ s \in Sockets /\ Tail(todo) \in Seq(Sockets) /\ ToSet(todo) = {s} \cup ToSet(Tail(todo))
      /\ IsInjective(Tail(todo)) /\ s \notin ToSet(Tail(todo))
  BY <1>1, HeadAndTail
<1>3. s \in DOMAIN listed /\ s \notin ToSet(restored)
  BY <1>2 DEF Listing
<1>4. /\ Append(restored, s) \in Seq(Sockets) /\ ToSet(Append(restored, s)) = ToSet(restored) \cup {s}
      /\ IsInjective(Append(restored, s))
  BY <1>1, <1>2, <1>3, AppendedSet
<1>5. /\ call # NoCall /\ todo' = Tail(todo)
      /\ restored' = IF attached[s] = call.schema THEN Append(restored, s) ELSE restored
      /\ UNCHANGED <<tag, attached, promised, answering, autoResponse, installed, call, listed, hibernations>>
  BY DEF ReadNext
<1>6. \/ state' = state
      \/ /\ state' = [state EXCEPT ![s] = "rejected"] /\ IsInvalid(s) /\ state[s] = "open"
         /\ call.onInvalid = "ignore-and-close"
  BY DEF ReadNext
<1> HIDE DEF s
<1>7. Listing'
  BY <1>1, <1>2, <1>3, <1>4, <1>5 DEF Listing
<1>8. \A r \in Sockets : (state'[r] = "fresh" <=> state[r] = "fresh")
  BY <1>2, <1>6 DEF AttachmentsDomains
<1>9. ReadableAreRestored'
  BY <1>2, <1>3, <1>4, <1>5 DEF Reading, ReadableAreRestored
<1>10. Reading'
  BY <1>5, <1>8, <1>9 DEF Reading
<1>11. ClosesItsOwn => OnlyGarbledAreRejected'
  <2> SUFFICES ASSUME ClosesItsOwn, NEW r \in Sockets, state'[r] = "rejected" PROVE attached'[r] = Garbled
    BY DEF OnlyGarbledAreRejected
  <2>1. CASE state[r] = "rejected"
    BY <1>5, <2>1 DEF OnlyGarbledAreRejected
  <2>2. CASE state[r] # "rejected"
    <3>1. r = s /\ IsInvalid(s) /\ call.onInvalid = "ignore-and-close"
      BY <1>2, <1>6, <2>2 DEF AttachmentsDomains
    <3>2. call \in Calls /\ call.tag = call.schema
      BY <1>5, <3>1 DEF AttachmentsDomains, ClosesItsOwn
    <3>3. tag[s] = call.schema
      BY <1>3, <1>5, <3>2 DEF Reading
    <3>4. attached[s] # Missing /\ attached[s] \notin Schemas
      BY <1>2, <3>1, <3>3 DEF IsInvalid, Labelled
    <3>5. QED
      BY <1>2, <1>5, <3>1, <3>4 DEF AttachmentsDomains
  <2>3. QED
    BY <2>1, <2>2
<1>12. AttachmentsDomains' /\ Labelled' /\ AcceptedIsAttached' /\ KeepaliveHolds'
  BY <1>2, <1>5, <1>6, <1>8 DEF AttachmentsDomains, Labelled, AcceptedIsAttached, KeepaliveHolds
<1>13. QED
  BY <1>7, <1>10, <1>11, <1>12

LEMMA AttachmentsInvariance == ASSUME AttachmentsAssumption PROVE AttachmentsSpec => []AttachmentsIInv
<1>1. ASSUME AttachmentsIInv, [AttachmentsNext]_attachmentVars PROVE AttachmentsIInv'
  <2>1. CASE UNCHANGED attachmentVars
    BY <1>1, <2>1 DEF attachmentVars, AttachmentsIInv, AttachmentsDomains, Labelled, Listing, Reading, Idle,
       AcceptedIsAttached, KeepaliveHolds, OnlyGarbledAreRejected, ReadableAreRestored
  <2>2. CASE AttachmentsNext
    BY <1>1, <2>2, SocketsOK, AroundCallsOK, RehydrateOK, ReadNextOK DEF AttachmentsNext
  <2>3. QED
    BY <1>1, <2>1, <2>2
<1>2. QED
  BY <1>1, AttachmentsInitOK, PTL DEF AttachmentsSpec

\* The variables stay within their sets, and a call holds each socket once.
THEOREM AttachmentsTypeCorrect ==
  ASSUME AttachmentsAssumption PROVE AttachmentsSpec => []AttachmentsTypeOK
<1>1. ASSUME AttachmentsIInv PROVE AttachmentsTypeOK
  <2>1. IsInjective(restored \o todo) /\ ToSet(restored \o todo) = ToSet(restored) \cup ToSet(todo)
    BY <1>1, JoinedSets DEF AttachmentsIInv, Listing
  <2>2. QED
    BY <1>1, <2>1 DEF AttachmentsIInv, AttachmentsDomains, Listing, AttachmentsTypeOK
<1>2. QED
  BY <1>1, AttachmentsInvariance, PTL

\* A socket accepted with an attachment carries one, for any crashes and failures.
THEOREM AcceptanceAttaches == ASSUME AttachmentsAssumption PROVE AttachmentsSpec => []AcceptedIsAttached
BY AttachmentsInvariance, PTL DEF AttachmentsIInv

\* A call that asks for sockets of its own schema closes only those that are garbled.
THEOREM RejectedAreGarbled ==
  ASSUME AttachmentsAssumption, ClosesItsOwn PROVE AttachmentsSpec => []OnlyGarbledAreRejected
<1>1. AttachmentsIInv => OnlyGarbledAreRejected
  BY DEF AttachmentsIInv
<1>2. QED
  BY <1>1, AttachmentsInvariance, PTL

\* Whatever other handlers and peers do between two reads, what has been read of the
\* listed sockets is restored.
THEOREM ReadablesComeBack == ASSUME AttachmentsAssumption PROVE AttachmentsSpec => []ReadableAreRestored
<1>1. AttachmentsIInv => ReadableAreRestored
  BY DEF AttachmentsIInv, Reading, ReadableAreRestored
<1>2. QED
  BY <1>1, AttachmentsInvariance, PTL

\* No later constructor takes away the keepalive pair that a socket was accepted under.
THEOREM KeepalivesLast == ASSUME AttachmentsAssumption PROVE AttachmentsSpec => []KeepaliveHolds
BY AttachmentsInvariance, PTL DEF AttachmentsIInv

\* Hibernation ends an object's memory, not its sockets: all of the above at once, for
\* listings that close what is garbled among sockets of their own schema.
THEOREM AttachedSocketsComeBack ==
  ASSUME AttachmentsAssumption, ClosesItsOwn PROVE AttachmentsSpec => []SocketsComeBack
<1>1. AttachmentsSpec => []OnlyGarbledAreRejected
  BY RejectedAreGarbled
<1>2. QED
  BY <1>1, AttachmentsTypeCorrect, AcceptanceAttaches, ReadablesComeBack, KeepalivesLast, PTL
  DEF SocketsComeBack

----------------------------------------------------------------------------
(* Calls across the boundary of services and workers. *)

\* What crosses the boundary: values in a wire form, and trace contexts.
Contexts == {<<"context", c, by>> : c \in RpcCalls, by \in {"caller", "client"}}
Packets == Domain \cup {Lowered} \cup Contexts

\* What the two sides make of the arguments of a call.
Encoded(c) == IF caller.defined THEN encodeArgs(caller, given[c]) ELSE Ok(given[c])
Posted(c) == IF caller.traces THEN withRpcTraceContext(c, Encoded(c).with) ELSE Encoded(c).with
Decoded(c) ==
    IF receiver.defined THEN decodeArgs(receiver, handlerArgs(wire[c])) ELSE Ok(handlerArgs(wire[c]))
Parent(c) == IF HasContext(wire[c]) THEN <<Last(wire[c])>> ELSE <<>>

\* Every variable keeps its kind.
CallTypes ==
    /\ caller \in Sides /\ receiver \in Sides
    /\ pc \in [RpcCalls -> {"idle", "encode", "invoke", "await", "cut", "decode", "done"}]
    /\ spc \in [RpcCalls -> {"none", "arriving", "decode", "handler", "encode", "answered"}]
    /\ op \in [RpcCalls -> {"rpc", "call", "scopedCall"}] /\ tracer \in [RpcCalls -> {"live", "off"}]
    /\ ran \in [RpcCalls -> {0, 1}] /\ value \in [RpcCalls -> Domain]
    /\ given \in [RpcCalls -> Seq(Domain)] /\ wire \in [RpcCalls -> Seq(Packets)]
    /\ inv = [c \in RpcCalls |-> inv[c]] /\ seen = [c \in RpcCalls |-> seen[c]]
    /\ reply = [c \in RpcCalls |-> reply[c]] /\ exit = [c \in RpcCalls |-> exit[c]]
    /\ held \in [RpcCalls -> [scope : {"open", "closed"}, value : BOOLEAN, disposed : {0, 1}]]
    /\ span \in [RpcCalls -> Spans] /\ sspan \in [RpcCalls -> Spans]

\* What is in flight is what the caller's side made of the arguments.
SentOK(c) ==
    /\ pc[c] \in {"idle", "encode", "invoke"} => spc[c] = "none"
    /\ pc[c] \in {"await", "cut", "decode"} => spc[c] # "none"
    /\ pc[c] = "invoke" => Encoded(c).ok /\ wire[c] = Encoded(c).with
    /\ spc[c] # "none" => Encoded(c).ok /\ wire[c] = Posted(c) /\ Instance \notin ToSet(wire[c])

\* The receiver's record of the call is of what arrived, and the handler has what decoded.
Noted(c) ==
    IF spc[c] = "decode" \/ (ran[c] = 0 /\ spc[c] = "answered") \/ ~receiver.defined
    THEN <<>> ELSE <<seen[c]>>
ReceivedOK(c) ==
    /\ inv[c] = IF spc[c] \in {"none", "arriving"} THEN <<>>
                ELSE <<[args |-> handlerArgs(wire[c]), decoded |-> Noted(c), parent |-> Parent(c)]>>
    /\ spc[c] \in {"none", "arriving", "decode", "handler"} => ran[c] = 0
    /\ spc[c] = "encode" => ran[c] = 1
    /\ (spc[c] \in {"handler", "encode"} \/ ran[c] = 1) => Decoded(c).ok /\ seen[c] = Decoded(c).with

\* What an error that a caller is given tells, of how often the handler ran and of
\* the receiver's place.
Tells(times, place, e) ==
    /\ e.def = "svc" /\ e.tag \in {"Count", "ArgEncode", "ArgDecode"} => times = 0 /\ place \in {"none", "answered"}
    /\ e.def = "svc" /\ e.tag \in {"SuccessEncode", "SuccessDecode"} => times = 1
    /\ e.tag = "Error" => times = 1 /\ place = "answered"
\* What came back, and what the caller got: a value of the handler or an error that tells.
RepliedOK(c) ==
    /\ reply[c] # <<>> =>
          /\ reply[c] = <<reply[c][1]>> /\ reply[c][1].ok \in BOOLEAN /\ spc[c] # "none"
          /\ IF reply[c][1].ok THEN ran[c] = 1 ELSE Tells(ran[c], spc[c], decodeWireError(reply[c][1].with))
    /\ pc[c] = "decode" => reply[c] # <<>> /\ reply[c][1].ok
GotOK(c) ==
    exit[c] # <<>> =>
      /\ pc[c] = "done" /\ exit[c] = <<exit[c][1]>> /\ exit[c][1].ok \in BOOLEAN
      /\ ~exit[c][1].ok => Tells(ran[c], spc[c], exit[c][1].with)

\* Spans and scopes end with what they were opened for.
EndedOK(c) ==
    /\ span[c].shown = {} /\ sspan[c].shown = {}
    /\ (pc[c] = "done" => span[c].state # "open") /\ (spc[c] = "answered" => sspan[c].state # "open")
    /\ held[c].disposed = IF held[c].value /\ held[c].scope = "closed" THEN 1 ELSE 0
    /\ pc[c] \in {"idle", "encode", "invoke", "await", "cut"} => ~held[c].value

\* A contract is one that is deployed, and what was asked of it answered by its name.
ContractOK ==
    contract # <<>> =>
      /\ contract = [of |-> contract.of, at |-> contract.at, asked |-> contract.asked, ran |-> contract.ran]
      /\ contract.of \in Entrypoints
      /\ contract.at \in {"written", "declared", "refused", "served", "unservable"}
      /\ (contract.at \in {"declared", "served", "unservable"} /\ contract.of.defined) => Declarable(contract.of)
      /\ contract.at = "served" => Servable(contract.of)
      /\ contract.at = "unservable" => ~Servable(contract.of)
      /\ contract.ran # <<>> => contract.ran[1] = contract.asked[2]

CallOK(c) == SentOK(c) /\ ReceivedOK(c) /\ RepliedOK(c) /\ GotOK(c) /\ EndedOK(c)
BoundaryIInv == CallTypes /\ ContractOK /\ \A c \in RpcCalls : CallOK(c)

\* A value in its wire form is of one domain value only.
LEMMA OneValue ==
  ASSUME BoundaryAssumption, NEW s \in ValueSchemas, NEW r \in ValueSchemas, NEW v \in Domain,
         wireCodec(s, v) # Instance, NEW u \in Decodings(r, wireCodec(s, v))
  PROVE  u = v
<1>1. u \in Domain /\ wireCodec(r, u) = wireCodec(s, v)
  BY DEF Decodings, ValueSchemas
<1>2. Instance \notin {Plain, Lowered, Ctx} /\ Lowered \notin {Plain, Ctx}
  BY DEF BoundaryAssumption
<1> QED
  BY <1>1, <1>2 DEF wireCodec, Lower, Domain, ValueSchemas

\* What a list of arguments that encodes is made of.
Matches(side, args, sent) ==
    /\ sent \in Seq(Domain \cup {Lowered})
    /\ Len(sent) = Len(args) /\ Len(args) = Len(side.args)
    /\ \A i \in 1..Len(args) : sent[i] = wireCodec(side.args[i], args[i])

LEMMA EncodedMatch ==
  ASSUME NEW side \in Sides, NEW args \in Seq(Domain), encodeArgs(side, args).ok
  PROVE  Matches(side, args, encodeArgs(side, args).with)
<1> DEFINE sent == [i \in DOMAIN args |-> wireCodec(side.args[i], args[i])]
<1>1. /\ Len(args) = Len(side.args) /\ encodeArgs(side, args).with = sent
  BY DEF encodeArgs, Ok, Failed, Err
<1>2. Len(args) \in Nat /\ DOMAIN args = 1..Len(args) /\ \A i \in 1..Len(args) : args[i] \in Domain
  BY LenProperties, ElementOfSeq
<1>3. \A i \in 1..Len(args) : wireCodec(side.args[i], args[i]) \in Domain \cup {Lowered}
  BY <1>2 DEF wireCodec, Lower
<1>4. sent \in Seq(Domain \cup {Lowered}) /\ Len(sent) = Len(args)
  BY <1>2, <1>3
<1>5. \A i \in 1..Len(args) : sent[i] = wireCodec(side.args[i], args[i])
  BY <1>2
<1> QED
  BY <1>1, <1>4, <1>5 DEF Matches

LEMMA EncodeAnswers ==
  ASSUME NEW side, NEW args
  PROVE  /\ encodeArgs(side, args).ok \in BOOLEAN
         /\ ~encodeArgs(side, args).ok =>
               encodeArgs(side, args) \in {Failed(Err("Count", "svc")), Failed(Err("ArgEncode", "svc"))}
         /\ decodeArgs(side, args).ok \in BOOLEAN
         /\ ~decodeArgs(side, args).ok =>
               decodeArgs(side, args) \in {Failed(Err("Count", "svc")), Failed(Err("ArgDecode", "svc"))}
  BY DEF encodeArgs, decodeArgs, Ok, Failed, Err

\* Arguments that encode, cross and decode are the same arguments.
LEMMA RoundTrip ==
  ASSUME BoundaryAssumption, NEW from \in Sides, NEW to \in Sides, NEW args \in Seq(Domain), NEW sent,
         Matches(from, args, sent), Instance \notin ToSet(sent), decodeArgs(to, sent).ok
  PROVE  decodeArgs(to, sent).with = args
<1> DEFINE got == [i \in DOMAIN sent |-> CHOOSE v \in Decodings(to.args[i], sent[i]) : TRUE]
<1>1. /\ Len(sent) = Len(to.args) /\ decodeArgs(to, sent).with = got
      /\ \A i \in DOMAIN sent : Decodings(to.args[i], sent[i]) # {}
  BY DEF decodeArgs, Ok, Failed, Err
<1>2. /\ Len(args) \in Nat /\ DOMAIN args = 1..Len(args) /\ DOMAIN sent = 1..Len(args)
      /\ Len(from.args) = Len(args) /\ Len(to.args) = Len(args)
      /\ \A i \in 1..Len(args) : args[i] \in Domain
  BY <1>1, LenProperties, ElementOfSeq DEF Matches
<1>3. from.args \in Seq(ValueSchemas) /\ to.args \in Seq(ValueSchemas)
  BY DEF Sides
<1>4. \A i \in 1..Len(args) : from.args[i] \in ValueSchemas /\ to.args[i] \in ValueSchemas
  BY <1>2, <1>3, ElementOfSeq
<1>5. ASSUME NEW i \in 1..Len(args) PROVE got[i] = args[i]
  <2>1. sent[i] = wireCodec(from.args[i], args[i]) /\ sent[i] # Instance
    BY <1>2 DEF Matches, ToSet
  <2>2. got[i] \in Decodings(to.args[i], sent[i])
    BY <1>1, <1>2
  <2>3. args[i] \in Domain /\ from.args[i] \in ValueSchemas /\ to.args[i] \in ValueSchemas
    BY <1>2, <1>4
  <2>4. /\ wireCodec(from.args[i], args[i]) # Instance
        /\ got[i] \in Decodings(to.args[i], wireCodec(from.args[i], args[i]))
    BY <2>1, <2>2
  <2> HIDE DEF got
  <2> QED
    BY <2>3, <2>4, OneValue
<1>6. got = args
  BY <1>2, <1>5
<1> QED
  BY <1>1, <1>6

\* A context that was appended is found, and without it the arguments are as they were.
LEMMA FrontOfAppend ==
  ASSUME NEW S, NEW s \in Seq(S), NEW e \in S
  PROVE  Front(Append(s, e)) = s /\ Last(Append(s, e)) = e /\ Append(s, e) # <<>>
<1>1. /\ Append(s, e) \in Seq(S) /\ Len(Append(s, e)) = Len(s) + 1 /\ Len(s) \in Nat
      /\ Append(s, e)[Len(s) + 1] = e
      /\ \A i \in 1..Len(s) : Append(s, e)[i] = s[i]
  BY AppendProperties, LenProperties
<1>2. \A i \in 1..Len(s) : s[i] \in S
  BY ElementOfSeq
<1>3. /\ Front(Append(s, e)) \in Seq(S) /\ Len(Front(Append(s, e))) = Len(s)
      /\ \A i \in 1..Len(s) : Front(Append(s, e))[i] = s[i]
  BY <1>1, <1>2, SubSeqProperties DEF Front
<1>4. Front(Append(s, e)) = s
  BY <1>1, <1>3, SeqEqual
<1> QED
  BY <1>1, <1>4, AppendProperties DEF Last
LEMMA FrontShorter ==
  ASSUME NEW S, NEW s \in Seq(S), s # <<>>
  PROVE  Front(s) \in Seq(S) /\ Len(Front(s)) = Len(s) - 1 /\ Len(s) \in Nat
<1>1. Len(s) \in Nat \ {0}
  BY EmptySeq
<1>2. \A i \in 1..Len(s) - 1 : s[i] \in S
  BY <1>1, ElementOfSeq
<1>3. PICK n \in Nat : n = Len(s) - 1
  BY <1>1
<1>4. SubSeq(s, 1, n) \in Seq(S) /\ Len(SubSeq(s, 1, n)) = IF 1 <= n THEN n - 1 + 1 ELSE 0
  BY <1>2, <1>3, SubSeqProperties
<1> QED
  BY <1>1, <1>3, <1>4 DEF Front

\* An action at one call leaves the state of the others alone.
Untouched(c) ==
    /\ pc'[c] = pc[c] /\ spc'[c] = spc[c] /\ op'[c] = op[c] /\ tracer'[c] = tracer[c]
    /\ given'[c] = given[c] /\ wire'[c] = wire[c] /\ inv'[c] = inv[c] /\ seen'[c] = seen[c]
    /\ ran'[c] = ran[c] /\ reply'[c] = reply[c] /\ exit'[c] = exit[c] /\ held'[c] = held[c]
    /\ span'[c] = span[c] /\ sspan'[c] = sspan[c]

LEMMA SameSent ==
  ASSUME NEW c, UNCHANGED sides, given'[c] = given[c], op'[c] = op[c], tracer'[c] = tracer[c]
  PROVE  Encoded(c)' = Encoded(c) /\ Posted(c)' = Posted(c)
  BY DEF sides, Encoded, Posted, withRpcTraceContext, Context
LEMMA SameReceived ==
  ASSUME NEW c, UNCHANGED sides, wire'[c] = wire[c]
  PROVE  /\ Decoded(c)' = Decoded(c) /\ Parent(c)' = Parent(c) /\ HasContext(wire[c])' = HasContext(wire[c])
         /\ handlerArgs(wire[c])' = handlerArgs(wire[c])
<1>1. HasContext(wire[c])' = HasContext(wire[c])
  BY DEF sides, HasContext
<1>2. handlerArgs(wire[c])' = handlerArgs(wire[c])
  BY <1>1 DEF handlerArgs
<1>3. Decoded(c)' = Decoded(c) /\ Parent(c)' = Parent(c)
  BY <1>1, <1>2 DEF sides, Decoded, Parent
<1> QED
  BY <1>1, <1>2, <1>3

LEMMA UntouchedOK ==
  ASSUME NEW c, UNCHANGED sides, Untouched(c), CallOK(c)
  PROVE  CallOK(c)'
<1> USE DEF CallOK, Untouched
<1>1. Encoded(c)' = Encoded(c) /\ Posted(c)' = Posted(c)
  BY SameSent
<1>2. Decoded(c)' = Decoded(c) /\ Parent(c)' = Parent(c) /\ handlerArgs(wire[c])' = handlerArgs(wire[c])
  BY SameReceived
<1>3. SentOK(c)'
  BY <1>1 DEF SentOK
<1>4. ReceivedOK(c)'
  <2>1. Noted(c)' = Noted(c)
    BY DEF Noted, sides
  <2> QED
    BY <2>1, <1>2 DEF ReceivedOK
<1>5. RepliedOK(c)' /\ GotOK(c)'
  BY DEF RepliedOK, GotOK, Tells, decodeWireError
<1>6. EndedOK(c)'
  BY DEF EndedOK
<1> QED
  BY <1>3, <1>4, <1>5, <1>6

\* The actions of one call, by who takes them.
CallerStep(c) ==
    \/ \E o \in {"rpc", "call", "scopedCall"}, t \in {"live", "off"}, args \in Inputs : StartCall(c, o, t, args)
    \/ Encode(c) \/ Invoke(c) \/ ResolveCall(c) \/ DecodeResult(c) \/ InterruptCall(c) \/ CloseResultScope(c)
ReceiverStep(c) ==
    Receive(c) \/ DecodeCall(c) \/ HandlerReturns(c) \/ HandlerFails(c) \/ EncodeResult(c) \/ Lose(c)

LEMMA Elsewhere ==
  ASSUME NEW c \in RpcCalls, CallerStep(c) \/ ReceiverStep(c), CallTypes, NEW d \in RpcCalls, d # c
  PROVE  Untouched(d) /\ UNCHANGED sides
<1> USE DEF Untouched, CallTypes, callVars, clientVars, serverVars
<1>1. ASSUME NEW o, NEW t, NEW args, StartCall(c, o, t, args) PROVE Untouched(d) /\ UNCHANGED sides
  BY <1>1 DEF StartCall
<1>2. CASE Encode(c)
  BY <1>2 DEF Encode, FinishCall
<1>3. CASE Invoke(c)
  BY <1>3 DEF Invoke, FinishCall
<1>4. CASE ResolveCall(c)
  BY <1>4 DEF ResolveCall, FinishCall, Acquired
<1>5. CASE DecodeResult(c)
  BY <1>5 DEF DecodeResult, FinishCall
<1>6. CASE InterruptCall(c) \/ CloseResultScope(c)
  BY <1>6 DEF InterruptCall, CloseResultScope
<1>7. CASE Receive(c) \/ HandlerReturns(c) \/ Lose(c)
  BY <1>7 DEF Receive, HandlerReturns, Lose
<1>8. CASE DecodeCall(c)
  BY <1>8 DEF DecodeCall, recordDecodedArgs, Answer
<1>9. CASE HandlerFails(c) \/ EncodeResult(c)
  BY <1>9 DEF HandlerFails, EncodeResult, Answer
<1> QED
  BY <1>1, <1>2, <1>3, <1>4, <1>5, <1>6, <1>7, <1>8, <1>9 DEF CallerStep, ReceiverStep

LEMMA SpansStay ==
  ASSUME NEW f \in [RpcCalls -> Spans], NEW c \in RpcCalls, NEW r \in {"ok", "failed", "interrupted"}
  PROVE  /\ [f EXCEPT ![c] = EndSpan(@, r)] \in [RpcCalls -> Spans]
         /\ [f EXCEPT ![c] = EndSpan(@, r)][c] = EndSpan(f[c], r)
         /\ EndSpan(f[c], r).state # "open"
         /\ f[c].shown = {} => EndSpan(f[c], r).shown = {}
<1>1. f[c] \in Spans
  OBVIOUS
<1>2. EndSpan(f[c], r) \in Spans
  BY <1>1 DEF EndSpan, Spans
<1> QED
  BY <1>1, <1>2 DEF EndSpan
LEMMA Outcomes ==
  ASSUME NEW r
  PROVE  Outcome(r) \in {"ok", "failed"} /\ Outcome(r) \in {"ok", "failed", "interrupted"}
  BY DEF Outcome

\* What a caller's step makes of its own call.
LEMMA StartCallOK ==
  ASSUME BoundaryAssumption, BoundaryIInv, NEW c \in RpcCalls, NEW o \in {"rpc", "call", "scopedCall"},
         NEW t \in {"live", "off"}, NEW args \in Inputs, StartCall(c, o, t, args)
  PROVE  CallTypes' /\ CallOK(c)'
<1>1. args \in Seq(Domain)
  BY DEF BoundaryAssumption
<1>2. CallTypes'
  <2>1. span' \in [RpcCalls -> Spans]
    <3>1. span[c] \in Spans /\ span \in [RpcCalls -> Spans]
      BY DEF BoundaryIInv, CallTypes
    <3>2. \A s \in {"none", "open"} : [span[c] EXCEPT !.state = s] \in Spans
      BY <3>1 DEF Spans
    <3>3. span' = [span EXCEPT ![c] = [span[c] EXCEPT !.state = IF o = "rpc" THEN "none" ELSE "open"]]
      BY DEF StartCall
    <3> QED
      BY <3>1, <3>2, <3>3
  <2>2. given' \in [RpcCalls -> Seq(Domain)]
    BY <1>1 DEF BoundaryIInv, CallTypes, StartCall
  <2> QED
    BY <2>1, <2>2 DEF BoundaryIInv, CallTypes, StartCall, sides, serverVars
<1>3. CallOK(c) /\ CallTypes /\ spc[c] = "none" /\ pc[c] = "idle"
  BY DEF BoundaryIInv, StartCall, CallOK, SentOK
<1>4. SentOK(c)'
  BY <1>3 DEF StartCall, CallTypes, SentOK, serverVars
<1>5. ReceivedOK(c)'
  BY <1>3 DEF StartCall, CallTypes, CallOK, ReceivedOK, serverVars
<1>6. RepliedOK(c)' /\ GotOK(c)'
  BY <1>3 DEF StartCall, CallTypes, CallOK, RepliedOK, GotOK, Tells, serverVars
<1>7. EndedOK(c)'
  BY <1>3 DEF StartCall, CallTypes, CallOK, EndedOK, serverVars, Spans
<1> QED
  BY <1>2, <1>4, <1>5, <1>6, <1>7 DEF CallOK

LEMMA EncodeCallOK ==
  ASSUME BoundaryIInv, NEW c \in RpcCalls, Encode(c)
  PROVE  CallTypes' /\ CallOK(c)'
<1> DEFINE r == Encoded(c)
<1>1. CallOK(c) /\ CallTypes /\ spc[c] = "none" /\ pc[c] = "encode" /\ ran[c] = 0 /\ given[c] \in Seq(Domain)
  BY DEF BoundaryIInv, Encode, CallOK, SentOK, ReceivedOK, CallTypes
<1>2. /\ r.ok \in BOOLEAN
      /\ ~r.ok => r \in {Failed(Err("Count", "svc")), Failed(Err("ArgEncode", "svc"))}
  BY EncodeAnswers DEF Encoded, Ok
<1>3. ASSUME r.ok PROVE r.with \in Seq(Packets)
  <2>1. caller.defined => r.with \in Seq(Domain \cup {Lowered})
    BY <1>1, <1>3, EncodedMatch DEF Encoded, Matches, CallTypes
  <2>2. ~caller.defined => r.with \in Seq(Domain)
    BY <1>1 DEF Encoded, Ok
  <2> QED
    BY <2>1, <2>2, SeqMonotonic DEF Packets
<1>4. UNCHANGED sides /\ Encoded(c)' = Encoded(c) /\ Posted(c)' = Posted(c)
  BY SameSent DEF Encode
<1>5. CASE r.ok
  <2>1. /\ pc' = [pc EXCEPT ![c] = "invoke"] /\ wire' = [wire EXCEPT ![c] = r.with]
        /\ UNCHANGED <<sides, op, tracer, given, serverVars, reply, held, exit, span>>
    BY <1>5 DEF Encode, Encoded
  <2>2. CallTypes'
    BY <2>1, <1>1, <1>3, <1>5 DEF CallTypes, sides, serverVars
  <2>3. SentOK(c)'
    BY <2>1, <1>1, <1>4, <1>5 DEF SentOK, CallTypes, serverVars
  <2>4. ReceivedOK(c)'
    BY <2>1, <1>1 DEF ReceivedOK, CallOK, serverVars
  <2>5. RepliedOK(c)' /\ GotOK(c)' /\ EndedOK(c)'
    BY <2>1, <1>1 DEF RepliedOK, GotOK, EndedOK, Tells, CallOK, CallTypes, serverVars
  <2> QED
    BY <2>2, <2>3, <2>4, <2>5 DEF CallOK
<1>6. CASE ~r.ok
  <2>1. FinishCall(c, r) /\ UNCHANGED <<sides, op, tracer, given, serverVars, reply, held, wire>>
    BY <1>6 DEF Encode, Encoded
  <2>2. CallTypes'
    BY <2>1, <1>1 DEF CallTypes, sides, serverVars, FinishCall, EndSpan, Outcome, Spans
  <2>3. SentOK(c)' /\ ReceivedOK(c)'
    BY <2>1, <1>1 DEF SentOK, ReceivedOK, CallOK, CallTypes, FinishCall, serverVars
  <2>4. RepliedOK(c)' /\ EndedOK(c)'
    BY <2>1, <1>1 DEF RepliedOK, EndedOK, Tells, CallOK, CallTypes, FinishCall, EndSpan, Outcome, Spans, serverVars
  <2>5. GotOK(c)'
    <3>1. exit'[c] = <<r>> /\ pc'[c] = "done" /\ ran'[c] = 0 /\ spc'[c] = "none"
      BY <2>1, <1>1 DEF CallTypes, FinishCall, serverVars
    <3>2. ~r.ok /\ r.ok \in BOOLEAN /\ r.with.tag \in {"Count", "ArgEncode"}
      <4>1. \A x \in {"Count", "ArgEncode"} :
              /\ Failed(Err(x, "svc")).ok = FALSE /\ Failed(Err(x, "svc")).with.tag = x
        BY DEF Failed, Err
      <4>2. r = Failed(Err("Count", "svc")) \/ r = Failed(Err("ArgEncode", "svc"))
        BY <1>2, <1>6
      <4> HIDE DEF r
      <4> QED
        BY <4>1, <4>2
    <3> QED
      BY <3>1, <3>2 DEF GotOK, Tells
  <2> QED
    BY <2>2, <2>3, <2>4, <2>5 DEF CallOK
<1> QED
  BY <1>2, <1>5, <1>6

LEMMA InvokeCallOK ==
  ASSUME BoundaryAssumption, BoundaryIInv, NEW c \in RpcCalls, Invoke(c)
  PROVE  CallTypes' /\ CallOK(c)'
<1> DEFINE args == Posted(c)
<1>1. /\ CallOK(c) /\ CallTypes /\ spc[c] = "none" /\ pc[c] = "invoke" /\ ran[c] = 0
      /\ Encoded(c).ok /\ wire[c] = Encoded(c).with /\ wire[c] \in Seq(Packets)
  BY DEF BoundaryIInv, Invoke, CallOK, SentOK, ReceivedOK, CallTypes
<1>2. args = IF caller.traces THEN withRpcTraceContext(c, wire[c]) ELSE wire[c]
  BY <1>1 DEF Posted
<1>3. args \in Seq(Packets)
  <2>1. Context(c) \in Packets
    BY DEF Packets, Contexts, Context
  <2> QED
    BY <1>1, <1>2, <2>1, AppendProperties DEF withRpcTraceContext
<1>4. Encoded(c)' = Encoded(c) /\ Posted(c)' = Posted(c)
  BY SameSent DEF Invoke
<1> HIDE DEF args
<1>5. CASE Instance \in ToSet(args)
  <2>1. /\ FinishCall(c, Failed(Err("Platform", "none")))
        /\ UNCHANGED <<sides, op, tracer, given, inv, seen, ran, value, sspan, reply, held, wire, spc>>
    BY <1>2, <1>5 DEF Invoke
  <2>2. CallTypes'
    BY <2>1, <1>1 DEF CallTypes, sides, FinishCall, EndSpan, Outcome, Spans, Failed
  <2>3. SentOK(c)' /\ ReceivedOK(c)' /\ RepliedOK(c)'
    BY <2>1, <1>1 DEF SentOK, ReceivedOK, RepliedOK, Tells, CallOK, CallTypes, FinishCall
  <2>4. GotOK(c)'
    BY <2>1, <1>1 DEF GotOK, Tells, CallTypes, FinishCall, Failed, Err
  <2>5. EndedOK(c)'
    BY <2>1, <1>1 DEF EndedOK, CallOK, CallTypes, FinishCall, EndSpan, Outcome, Spans, Failed
  <2> QED
    BY <2>2, <2>3, <2>4, <2>5 DEF CallOK
<1>6. CASE Instance \notin ToSet(args)
  <2>1. /\ wire' = [wire EXCEPT ![c] = args] /\ spc' = [spc EXCEPT ![c] = "arriving"]
        /\ IF op[c] = "rpc" THEN FinishCall(c, Ok("promise"))
           ELSE pc' = [pc EXCEPT ![c] = "await"] /\ UNCHANGED <<exit, span>>
        /\ UNCHANGED <<sides, op, tracer, given, inv, seen, ran, value, sspan, reply, held>>
    BY <1>2, <1>6 DEF Invoke
  <2>2. CallTypes'
    <3>1. wire' \in [RpcCalls -> Seq(Packets)]
      BY <2>1, <1>1, <1>3 DEF CallTypes
    <3>2. spc' \in [RpcCalls -> {"none", "arriving", "decode", "handler", "encode", "answered"}]
      BY <2>1, <1>1 DEF CallTypes
    <3>3. CASE op[c] = "rpc"
      <4>1. FinishCall(c, Ok("promise"))
        BY <2>1, <3>3
      <4>2. span' = [span EXCEPT ![c] = EndSpan(@, Outcome(Ok("promise")))] /\ span \in [RpcCalls -> Spans]
        BY <4>1, <1>1 DEF FinishCall, CallTypes
      <4>3. span' \in [RpcCalls -> Spans]
        BY <4>2, SpansStay, Outcomes
      <4>4. pc' \in [RpcCalls -> {"idle", "encode", "invoke", "await", "cut", "decode", "done"}]
        BY <4>1, <1>1 DEF FinishCall, CallTypes
      <4>5. exit' = [x \in RpcCalls |-> exit'[x]]
        BY <4>1, <1>1 DEF FinishCall, CallTypes
      <4>6. UNCHANGED <<caller, receiver, op, tracer, given, inv, seen, ran, value, sspan, reply, held>>
        BY <2>1 DEF sides
      <4> QED
        BY <1>1, <3>1, <3>2, <4>3, <4>4, <4>5, <4>6 DEF CallTypes
    <3>4. CASE op[c] # "rpc"
      <4>1. pc' = [pc EXCEPT ![c] = "await"] /\ UNCHANGED <<exit, span>>
        BY <2>1, <3>4
      <4>2. pc' \in [RpcCalls -> {"idle", "encode", "invoke", "await", "cut", "decode", "done"}]
        BY <4>1, <1>1 DEF CallTypes
      <4>3. UNCHANGED <<caller, receiver, op, tracer, given, inv, seen, ran, value, sspan, reply, held>>
        BY <2>1 DEF sides
      <4> QED
        BY <1>1, <3>1, <3>2, <4>1, <4>2, <4>3 DEF CallTypes
    <3> QED
      BY <3>3, <3>4
  <2>3. wire'[c] = Posted(c)' /\ Instance \notin ToSet(wire'[c])
    BY <2>1, <1>1, <1>4, <1>6 DEF CallTypes, args
  <2>4. SentOK(c)'
    BY <2>1, <2>3, <1>1, <1>4 DEF SentOK, CallTypes, FinishCall
  <2>5. ReceivedOK(c)' /\ RepliedOK(c)'
    BY <2>1, <1>1 DEF ReceivedOK, RepliedOK, Tells, CallOK, CallTypes, FinishCall
  <2>6. GotOK(c)'
    <3>1. exit[c] = <<>>
      BY <1>1 DEF CallOK, GotOK
    <3>2. CASE op[c] = "rpc"
      <4>1. exit'[c] = <<Ok("promise")>> /\ pc'[c] = "done"
        BY <2>1, <3>2, <1>1 DEF CallTypes, FinishCall
      <4>2. exit'[c][1] = Ok("promise") /\ Ok("promise").ok = TRUE
        BY <4>1 DEF Ok
      <4>3. exit'[c] = <<exit'[c][1]>>
        BY <4>1
      <4> QED
        BY <4>1, <4>2, <4>3 DEF GotOK
    <3>3. CASE op[c] # "rpc"
      BY <2>1, <3>1, <3>3 DEF GotOK
    <3> QED
      BY <3>2, <3>3
  <2>7. EndedOK(c)'
    BY <2>1, <1>1 DEF EndedOK, CallOK, CallTypes, FinishCall, EndSpan, Outcome, Spans, Ok
  <2> QED
    BY <2>2, <2>4, <2>5, <2>6, <2>7 DEF CallOK
<1> QED
  BY <1>5, <1>6

\* An error that was sent is told apart by the caller when the boundary raised it.
LEMMA WireErrors ==
  /\ \A t \in WireTags, s \in {"svc", "other"} : decodeWireError(Sent(Failed(Err(t, s))).with) = Err(t, s)
  /\ decodeWireError(Sent(Failed(Err("App", "none"))).with) = Err("Error", "none")
  /\ decodeWireError(Err("Platform", "none")) = Err("Platform", "none")
  /\ \A r : ~r.ok => Sent(r).ok = FALSE
<1> QED
  BY DEF WireTags, decodeWireError, Sent, Failed, Err, Crossed, encodeWireError, isWireError

LEMMA ResolveCallOK ==
  ASSUME BoundaryIInv, NEW c \in RpcCalls, ResolveCall(c)
  PROVE  CallTypes' /\ CallOK(c)'
<1> DEFINE r == reply[c][1]
<1>1. /\ CallOK(c) /\ CallTypes /\ spc[c] # "none" /\ pc[c] \in {"await", "cut"}
      /\ reply[c] = <<r>> /\ r.ok \in BOOLEAN /\ ~held[c].value
      /\ IF r.ok THEN ran[c] = 1 ELSE Tells(ran[c], spc[c], decodeWireError(r.with))
      /\ UNCHANGED <<sides, op, tracer, given, wire, serverVars, reply>>
  BY DEF BoundaryIInv, ResolveCall, CallOK, SentOK, RepliedOK, EndedOK, CallTypes
<1>2. Encoded(c)' = Encoded(c) /\ Posted(c)' = Posted(c)
  BY SameSent DEF ResolveCall
<1>3. /\ Decoded(c)' = Decoded(c) /\ Parent(c)' = Parent(c)
      /\ handlerArgs(wire[c])' = handlerArgs(wire[c]) /\ Noted(c)' = Noted(c)
  BY <1>1, SameReceived DEF Noted, serverVars, sides
<1>4. ReceivedOK(c)'
  BY <1>1, <1>3 DEF ReceivedOK, CallOK, serverVars
<1> HIDE DEF r
<1>5. CASE ~r.ok
  <2>1. FinishCall(c, Failed(decodeWireError(r.with))) /\ UNCHANGED held
    BY <1>5 DEF ResolveCall, r
  <2>2. CallTypes'
    BY <2>1, <1>1 DEF CallTypes, sides, serverVars, FinishCall, EndSpan, Outcome, Spans, Failed
  <2>3. SentOK(c)' /\ RepliedOK(c)'
    BY <2>1, <1>1, <1>2 DEF SentOK, RepliedOK, Tells, CallOK, CallTypes, FinishCall, serverVars
  <2>4. GotOK(c)'
    BY <2>1, <1>1, <1>5 DEF GotOK, Tells, CallTypes, FinishCall, Failed, serverVars
  <2>5. EndedOK(c)'
    BY <2>1, <1>1 DEF EndedOK, CallOK, CallTypes, FinishCall, EndSpan, Outcome, Spans, Failed, serverVars
  <2> QED
    BY <2>2, <2>3, <2>4, <2>5, <1>4 DEF CallOK
<1>6. CASE r.ok
  <2>1. /\ held' = Acquired(c)
        /\ IF pc[c] = "cut"
           THEN pc' = [pc EXCEPT ![c] = "done"] /\ span' = [span EXCEPT ![c] = EndSpan(@, "interrupted")]
           ELSE pc' = [pc EXCEPT ![c] = "decode"] /\ UNCHANGED span
        /\ UNCHANGED exit
    BY <1>6 DEF ResolveCall, r
  <2>2. /\ held'[c] \in [scope : {"open", "closed"}, value : BOOLEAN, disposed : {0, 1}]
        /\ held'[c].disposed = IF held'[c].value /\ held'[c].scope = "closed" THEN 1 ELSE 0
    <3>1. held[c] \in [scope : {"open", "closed"}, value : BOOLEAN, disposed : {0, 1}] /\ held[c].disposed = 0
      BY <1>1 DEF CallTypes, CallOK, EndedOK
    <3>2. \/ held'[c] = held[c]
          \/ held'[c] = [held[c] EXCEPT !.value = TRUE, !.disposed = IF held[c].scope = "closed" THEN 1 ELSE 0]
      BY <2>1, <1>1 DEF Acquired, CallTypes
    <3> QED
      BY <1>1, <3>1, <3>2
  <2>3. held' \in [RpcCalls -> [scope : {"open", "closed"}, value : BOOLEAN, disposed : {0, 1}]]
    BY <2>1, <2>2, <1>1 DEF Acquired, CallTypes
  <2>4. CallTypes'
    <3>1. span' \in [RpcCalls -> Spans]
      <4>1. span \in [RpcCalls -> Spans] /\ "interrupted" \in {"ok", "failed", "interrupted"}
        BY <1>1 DEF CallTypes
      <4>2. [span EXCEPT ![c] = EndSpan(@, "interrupted")] \in [RpcCalls -> Spans]
        BY <4>1, SpansStay
      <4> QED
        BY <2>1, <4>1, <4>2
    <3> QED
      BY <2>1, <2>3, <1>1, <3>1 DEF CallTypes, sides, serverVars
  <2>5. SentOK(c)' /\ RepliedOK(c)'
    BY <2>1, <1>1, <1>2, <1>6 DEF SentOK, RepliedOK, Tells, CallOK, CallTypes, serverVars, r
  <2>6. GotOK(c)'
    BY <2>1, <1>1 DEF GotOK, Tells, CallOK, CallTypes, serverVars
  <2>7. EndedOK(c)'
    BY <2>1, <2>2, <1>1 DEF EndedOK, CallOK, CallTypes, EndSpan, Spans, serverVars
  <2> QED
    BY <2>4, <2>5, <2>6, <2>7, <1>4 DEF CallOK
<1> QED
  BY <1>1, <1>5, <1>6

LEMMA DecodeResultOK ==
  ASSUME BoundaryIInv, NEW c \in RpcCalls, DecodeResult(c)
  PROVE  CallTypes' /\ CallOK(c)'
<1> DEFINE r == decodeSuccess(caller, reply[c][1].with)
<1>1. /\ CallOK(c) /\ CallTypes /\ spc[c] # "none" /\ pc[c] = "decode" /\ ran[c] = 1
      /\ FinishCall(c, r)
      /\ UNCHANGED <<sides, op, tracer, given, wire, serverVars, reply, held>>
  BY DEF BoundaryIInv, DecodeResult, CallOK, SentOK, RepliedOK, CallTypes
<1>2. r.ok \in BOOLEAN /\ (~r.ok => r.with.tag = "SuccessDecode")
  BY DEF decodeSuccess, Ok, Failed, Err
<1>3. Encoded(c)' = Encoded(c) /\ Posted(c)' = Posted(c)
  BY SameSent DEF DecodeResult
<1>4. /\ Decoded(c)' = Decoded(c) /\ Parent(c)' = Parent(c)
      /\ handlerArgs(wire[c])' = handlerArgs(wire[c]) /\ Noted(c)' = Noted(c)
  BY <1>1, SameReceived DEF Noted, serverVars, sides
<1> HIDE DEF r
<1>5. ReceivedOK(c)'
  BY <1>1, <1>4 DEF ReceivedOK, CallOK, serverVars
<1>6. SentOK(c)' /\ RepliedOK(c)'
  BY <1>1, <1>3 DEF SentOK, RepliedOK, Tells, CallOK, CallTypes, FinishCall, serverVars
<1>7. span' \in [RpcCalls -> Spans] /\ EndedOK(c)'
  <2>1. span' = [span EXCEPT ![c] = EndSpan(@, Outcome(r))] /\ span \in [RpcCalls -> Spans]
    BY <1>1 DEF FinishCall, CallTypes
  <2>2. /\ span' \in [RpcCalls -> Spans] /\ span'[c].state # "open"
        /\ span[c].shown = {} => span'[c].shown = {}
    BY <2>1, SpansStay, Outcomes
  <2> QED
    BY <2>2, <1>1 DEF EndedOK, CallOK, CallTypes, FinishCall, serverVars
<1>8. CallTypes'
  BY <1>1, <1>7 DEF CallTypes, sides, serverVars, FinishCall
<1>9. GotOK(c)'
  <2>1. exit'[c] = <<r>> /\ pc'[c] = "done" /\ ran'[c] = 1
    BY <1>1 DEF CallTypes, FinishCall, serverVars
  <2> QED
    BY <2>1, <1>2 DEF GotOK, Tells
<1> QED
  BY <1>5, <1>6, <1>7, <1>8, <1>9 DEF CallOK

LEMMA InterruptCallOK ==
  ASSUME BoundaryIInv, NEW c \in RpcCalls, InterruptCall(c)
  PROVE  CallTypes' /\ CallOK(c)'
<1>1. /\ CallOK(c) /\ CallTypes /\ pc[c] \in {"encode", "invoke", "await", "decode"}
      /\ UNCHANGED <<sides, op, tracer, given, exit, wire, serverVars, reply, held>>
  BY DEF BoundaryIInv, InterruptCall
<1>2. \/ pc[c] = "await" /\ pc' = [pc EXCEPT ![c] = "cut"] /\ UNCHANGED span
      \/ pc' = [pc EXCEPT ![c] = "done"] /\ span' = [span EXCEPT ![c] = EndSpan(@, "interrupted")]
  BY DEF InterruptCall
<1>3. Encoded(c)' = Encoded(c) /\ Posted(c)' = Posted(c)
  BY <1>1, SameSent
<1>4. /\ Decoded(c)' = Decoded(c) /\ Parent(c)' = Parent(c)
      /\ handlerArgs(wire[c])' = handlerArgs(wire[c]) /\ Noted(c)' = Noted(c)
  BY <1>1, SameReceived DEF Noted, serverVars, sides
<1>5. ReceivedOK(c)'
  BY <1>1, <1>4 DEF ReceivedOK, CallOK, serverVars
<1>6. SentOK(c)'
  BY <1>1, <1>2, <1>3 DEF SentOK, CallOK, CallTypes, serverVars
<1>7. RepliedOK(c)' /\ GotOK(c)'
  BY <1>1, <1>2 DEF RepliedOK, GotOK, Tells, CallOK, CallTypes, serverVars
<1>8. span' \in [RpcCalls -> Spans] /\ EndedOK(c)'
  <2>1. span \in [RpcCalls -> Spans] /\ "interrupted" \in {"ok", "failed", "interrupted"}
    BY <1>1 DEF CallTypes
  <2>2. CASE pc[c] = "await" /\ pc' = [pc EXCEPT ![c] = "cut"] /\ UNCHANGED span
    BY <1>1, <2>1, <2>2 DEF EndedOK, CallOK, CallTypes, serverVars
  <2>3. CASE pc' = [pc EXCEPT ![c] = "done"] /\ span' = [span EXCEPT ![c] = EndSpan(@, "interrupted")]
    <3>1. /\ span' \in [RpcCalls -> Spans] /\ span'[c].state # "open"
          /\ span[c].shown = {} => span'[c].shown = {}
      BY <2>1, <2>3, SpansStay
    <3> QED
      BY <3>1, <2>3, <1>1 DEF EndedOK, CallOK, CallTypes, serverVars
  <2> QED
    BY <1>2, <2>2, <2>3
<1>9. CallTypes'
  BY <1>1, <1>2, <1>8 DEF CallTypes, sides, serverVars
<1> QED
  BY <1>5, <1>6, <1>7, <1>8, <1>9 DEF CallOK

LEMMA CloseResultScopeOK ==
  ASSUME BoundaryIInv, NEW c \in RpcCalls, CloseResultScope(c)
  PROVE  CallTypes' /\ CallOK(c)'
<1> DEFINE Holding == [scope : {"open", "closed"}, value : BOOLEAN, disposed : {0, 1}]
<1>1. /\ CallOK(c) /\ CallTypes /\ held[c].scope = "open" /\ held[c] \in Holding /\ held[c].disposed = 0
      /\ UNCHANGED <<sides, pc, op, tracer, given, exit, span, wire, serverVars, reply>>
  BY DEF BoundaryIInv, CloseResultScope, CallOK, EndedOK, CallTypes
<1>2. held' = [held EXCEPT ![c] = [held[c] EXCEPT !.scope = "closed",
                                      !.disposed = IF held[c].value THEN @ + 1 ELSE @]]
  BY DEF CloseResultScope
<1>3. /\ held' \in [RpcCalls -> Holding] /\ held'[c].value = held[c].value
      /\ held'[c].disposed = IF held'[c].value /\ held'[c].scope = "closed" THEN 1 ELSE 0
  <2>1. held'[c] = [held[c] EXCEPT !.scope = "closed", !.disposed = IF held[c].value THEN @ + 1 ELSE @]
    BY <1>1, <1>2 DEF CallTypes
  <2>2. held'[c] \in Holding
    <3>1. held'[c] = [held[c] EXCEPT !.scope = "closed", !.disposed = IF held[c].value THEN 1 ELSE 0]
      BY <2>1, <1>1
    <3> QED
      BY <3>1, <1>1
  <2> QED
    BY <2>1, <2>2, <1>1, <1>2 DEF CallTypes
<1>4. CallTypes'
  BY <1>1, <1>3 DEF CallTypes, sides, serverVars
<1>5. Encoded(c)' = Encoded(c) /\ Posted(c)' = Posted(c)
  BY <1>1, SameSent
<1>6. /\ Decoded(c)' = Decoded(c) /\ Parent(c)' = Parent(c)
      /\ handlerArgs(wire[c])' = handlerArgs(wire[c]) /\ Noted(c)' = Noted(c)
  BY <1>1, SameReceived DEF Noted, serverVars, sides
<1>7. SentOK(c)' /\ ReceivedOK(c)'
  BY <1>1, <1>5, <1>6 DEF SentOK, ReceivedOK, CallOK, serverVars
<1>8. RepliedOK(c)' /\ GotOK(c)' /\ EndedOK(c)'
  BY <1>1, <1>3 DEF RepliedOK, GotOK, EndedOK, Tells, CallOK, serverVars
<1> QED
  BY <1>4, <1>7, <1>8 DEF CallOK

\* What a receiver's step makes of the call it serves.
LEMMA ReceiveCallOK ==
  ASSUME BoundaryIInv, NEW c \in RpcCalls, Receive(c)
  PROVE  CallTypes' /\ CallOK(c)'
<1>1. /\ CallOK(c) /\ CallTypes /\ spc[c] = "arriving" /\ ran[c] = 0
      /\ UNCHANGED <<sides, clientVars, wire, seen, ran, value, reply>>
      /\ spc' = [spc EXCEPT ![c] = "decode"] /\ spc'[c] = "decode"
  BY DEF BoundaryIInv, Receive, CallOK, ReceivedOK, CallTypes
<1>2. Encoded(c)' = Encoded(c) /\ Posted(c)' = Posted(c)
  BY <1>1, SameSent DEF clientVars
<1>3. /\ Decoded(c)' = Decoded(c) /\ Parent(c)' = Parent(c)
      /\ handlerArgs(wire[c])' = handlerArgs(wire[c])
  BY <1>1, SameReceived
<1>4. inv'[c] = <<[args |-> handlerArgs(wire[c]), decoded |-> <<>>, parent |-> Parent(c)]>>
  BY <1>1 DEF Receive, CallTypes, Parent
<1>5. Noted(c)' = <<>>
  BY <1>1 DEF Noted
<1>6. ReceivedOK(c)'
  BY <1>1, <1>3, <1>4, <1>5 DEF ReceivedOK
<1>7. SentOK(c)'
  BY <1>1, <1>2 DEF SentOK, CallOK, clientVars
<1>8. RepliedOK(c)' /\ GotOK(c)'
  BY <1>1 DEF RepliedOK, GotOK, Tells, CallOK, clientVars
<1>9. sspan' \in [RpcCalls -> Spans] /\ sspan'[c].shown = sspan[c].shown
  <2>1. sspan[c] \in Spans /\ sspan' = [sspan EXCEPT ![c] = [sspan[c] EXCEPT !.state = "open"]]
    BY <1>1 DEF Receive, CallTypes
  <2>2. [sspan[c] EXCEPT !.state = "open"] \in Spans
    BY <2>1 DEF Spans
  <2> QED
    BY <2>1, <2>2, <1>1 DEF CallTypes
<1>10. EndedOK(c)'
  BY <1>1, <1>9 DEF EndedOK, CallOK, clientVars
<1>11. CallTypes'
  <2>1. inv' = [x \in RpcCalls |-> inv'[x]]
    BY <1>1 DEF Receive, CallTypes
  <2>2. spc' \in [RpcCalls -> {"none", "arriving", "decode", "handler", "encode", "answered"}]
    BY <1>1 DEF CallTypes
  <2> QED
    BY <1>1, <1>9, <2>1, <2>2 DEF CallTypes, sides, clientVars
<1> QED
  BY <1>6, <1>7, <1>8, <1>10, <1>11 DEF CallOK

\* Answering ends the receiver's span and tells the caller once.
LEMMA AnswerOK ==
  ASSUME CallTypes, NEW c \in RpcCalls, CallOK(c), NEW r, Answer(c, r),
         UNCHANGED <<sides, clientVars, wire, value>>, spc[c] # "none",
         inv' = [x \in RpcCalls |-> inv'[x]], seen' = [x \in RpcCalls |-> seen'[x]],
         ran' \in [RpcCalls -> {0, 1}],
         r.ok \in BOOLEAN, IF r.ok THEN ran'[c] = 1 ELSE Tells(ran'[c], spc'[c], decodeWireError(r.with)),
         ran[c] = 1 => ran'[c] = 1, spc[c] # "answered",
         \A e : Tells(ran[c], spc[c], e) => Tells(ran'[c], spc'[c], e)
  PROVE  CallTypes' /\ SentOK(c)' /\ RepliedOK(c)' /\ GotOK(c)' /\ EndedOK(c)' /\ spc'[c] = "answered"
<1>1. spc' = [spc EXCEPT ![c] = "answered"] /\ spc'[c] = "answered"
  BY DEF Answer, CallTypes
<1>2. sspan' \in [RpcCalls -> Spans] /\ EndedOK(c)'
  <2>1. sspan' = [sspan EXCEPT ![c] = EndSpan(@, Outcome(r))] /\ sspan \in [RpcCalls -> Spans]
    BY DEF Answer, CallTypes
  <2>2. /\ sspan' \in [RpcCalls -> Spans] /\ sspan'[c].state # "open"
        /\ sspan[c].shown = {} => sspan'[c].shown = {}
    <3>1. Outcome(r) \in {"ok", "failed", "interrupted"}
      BY Outcomes
    <3> HIDE DEF Outcome
    <3> QED
      BY <2>1, <3>1, SpansStay
  <2> QED
    BY <2>2 DEF EndedOK, CallOK, clientVars
<1>3. Encoded(c)' = Encoded(c) /\ Posted(c)' = Posted(c)
  BY SameSent DEF clientVars
<1>4. SentOK(c)'
  BY <1>1, <1>3 DEF SentOK, CallOK, clientVars
<1>5. GotOK(c)'
  BY DEF GotOK, CallOK, clientVars
<1>6. IF reply[c] = <<>> THEN reply'[c] = <<r>> ELSE reply'[c] = reply[c]
  BY DEF Answer, CallTypes
<1>7. RepliedOK(c)'
  <2>1. CASE reply[c] = <<>>
    <3>1. reply'[c] = <<r>>
      BY <1>6, <2>1
    <3>2. pc'[c] # "decode"
      BY <2>1 DEF CallOK, RepliedOK, clientVars
    <3> QED
      BY <3>1, <3>2, <1>1 DEF RepliedOK, decodeWireError
  <2>2. CASE reply[c] # <<>>
    BY <1>1, <1>6, <2>2 DEF RepliedOK, CallOK, clientVars, decodeWireError
  <2> QED
    BY <2>1, <2>2
<1>8. CallTypes'
  <2>1. spc' \in [RpcCalls -> {"none", "arriving", "decode", "handler", "encode", "answered"}]
    BY <1>1 DEF CallTypes
  <2>2. reply' = [x \in RpcCalls |-> reply'[x]]
    BY DEF Answer, CallTypes
  <2> QED
    BY <1>2, <2>1, <2>2 DEF CallTypes, sides, clientVars
<1> QED
  BY <1>1, <1>2, <1>4, <1>5, <1>7, <1>8

LEMMA DecodeCallOK ==
  ASSUME BoundaryIInv, NEW c \in RpcCalls, DecodeCall(c)
  PROVE  CallTypes' /\ CallOK(c)'
<1> DEFINE r == Decoded(c)
<1>1. /\ CallOK(c) /\ CallTypes /\ spc[c] = "decode" /\ ran[c] = 0
      /\ UNCHANGED <<sides, clientVars, wire, ran, value>>
      /\ inv[c] = <<[args |-> handlerArgs(wire[c]), decoded |-> <<>>, parent |-> Parent(c)]>>
  BY DEF BoundaryIInv, DecodeCall, CallOK, ReceivedOK, Noted, CallTypes
<1>2. r = IF receiver.defined THEN decodeArgs(receiver, inv[c][1].args) ELSE Ok(inv[c][1].args)
  BY <1>1 DEF Decoded
<1>3. /\ r.ok \in BOOLEAN
      /\ ~r.ok => r = Failed(Err("Count", "svc")) \/ r = Failed(Err("ArgDecode", "svc"))
  BY EncodeAnswers DEF Decoded, Ok
<1>4. /\ Decoded(c)' = Decoded(c) /\ Parent(c)' = Parent(c)
      /\ handlerArgs(wire[c])' = handlerArgs(wire[c])
  BY <1>1, SameReceived
<1> HIDE DEF r
<1>5. CASE r.ok
  <2>1. /\ spc' = [spc EXCEPT ![c] = "handler"] /\ seen' = [seen EXCEPT ![c] = r.with]
        /\ inv' = IF receiver.defined THEN recordDecodedArgs(c, r.with) ELSE inv
        /\ UNCHANGED <<sspan, reply>>
    BY <1>2, <1>5 DEF DecodeCall
  <2>2. spc'[c] = "handler" /\ seen'[c] = r.with
    BY <2>1, <1>1 DEF CallTypes
  <2>3. inv' = [x \in RpcCalls |-> inv'[x]]
    BY <2>1, <1>1 DEF CallTypes, recordDecodedArgs
  <2>4. inv'[c] = <<[args |-> handlerArgs(wire[c]), parent |-> Parent(c),
                     decoded |-> IF receiver.defined THEN <<r.with>> ELSE <<>>]>>
    <3>1. CASE receiver.defined
      <4>1. inv' = [inv EXCEPT ![c] = [inv[c] EXCEPT ![1] = [inv[c][1] EXCEPT !.decoded = <<r.with>>]]]
        BY <2>1, <3>1 DEF recordDecodedArgs
      <4>2. inv'[c] = [inv[c] EXCEPT ![1] = [inv[c][1] EXCEPT !.decoded = <<r.with>>]]
        BY <4>1, <1>1 DEF CallTypes
      <4>3. inv[c][1] = [args |-> handlerArgs(wire[c]), decoded |-> <<>>, parent |-> Parent(c)]
        BY <1>1
      <4>4. [inv[c][1] EXCEPT !.decoded = <<r.with>>]
              = [args |-> handlerArgs(wire[c]), decoded |-> <<r.with>>, parent |-> Parent(c)]
        BY <4>3
      <4>5. \A x, y : [<<x>> EXCEPT ![1] = y] = <<y>>
        OBVIOUS
      <4> QED
        BY <3>1, <4>2, <4>4, <4>5, <1>1
    <3>2. CASE ~receiver.defined
      BY <2>1, <3>2, <1>1
    <3> QED
      BY <3>1, <3>2
  <2>5. Noted(c)' = IF receiver.defined THEN <<r.with>> ELSE <<>>
    BY <2>2, <1>1 DEF Noted, sides
  <2>6. ReceivedOK(c)'
    <3>1. inv'[c] = <<[args |-> handlerArgs(wire[c])', decoded |-> Noted(c)', parent |-> Parent(c)']>>
      BY <2>4, <2>5, <1>4
    <3>2. Decoded(c)'.ok /\ seen'[c] = Decoded(c)'.with
      BY <2>2, <1>4, <1>5 DEF r
    <3> QED
      BY <3>1, <3>2, <2>2, <1>1 DEF ReceivedOK
  <2>7. Encoded(c)' = Encoded(c) /\ Posted(c)' = Posted(c)
    BY <1>1, SameSent DEF clientVars
  <2>8. SentOK(c)' /\ RepliedOK(c)' /\ GotOK(c)' /\ EndedOK(c)'
    BY <2>1, <2>2, <2>7, <1>1 DEF SentOK, RepliedOK, GotOK, Tells, EndedOK, CallOK, clientVars
  <2>9. CallTypes'
    <3>1. seen' = [x \in RpcCalls |-> seen'[x]]
      BY <2>1, <1>1 DEF CallTypes
    <3>2. spc' \in [RpcCalls -> {"none", "arriving", "decode", "handler", "encode", "answered"}]
      BY <2>1, <1>1 DEF CallTypes
    <3> QED
      BY <3>1, <3>2, <2>1, <2>3, <1>1 DEF CallTypes, sides, clientVars
  <2> QED
    BY <2>6, <2>8, <2>9 DEF CallOK
<1>6. CASE ~r.ok
  <2>1. Answer(c, Sent(r)) /\ UNCHANGED <<inv, seen>>
    BY <1>2, <1>6 DEF DecodeCall
  <2>2. \E t \in {"Count", "ArgDecode"} : Sent(r).ok = FALSE /\ decodeWireError(Sent(r).with) = Err(t, "svc")
    BY <1>3, <1>6, WireErrors DEF WireTags
  <2>3. spc'[c] = "answered" /\ ran'[c] = 0
    BY <2>1, <1>1 DEF Answer, CallTypes
  <2>4. Tells(ran'[c], spc'[c], decodeWireError(Sent(r).with))
    <3>1. \A t \in {"Count", "ArgDecode"} : Tells(ran'[c], spc'[c], Err(t, "svc"))
      BY <2>3 DEF Tells, Err
    <3> QED
      BY <2>2, <3>1
  <2>5. \A e : Tells(ran[c], spc[c], e) => Tells(ran'[c], spc'[c], e)
    BY <2>3, <1>1 DEF Tells
  <2>6. CallTypes' /\ SentOK(c)' /\ RepliedOK(c)' /\ GotOK(c)' /\ EndedOK(c)'
    <3>1. inv' = [x \in RpcCalls |-> inv'[x]] /\ seen' = [x \in RpcCalls |-> seen'[x]]
      BY <2>1, <1>1 DEF CallTypes
    <3>2. ran' \in [RpcCalls -> {0, 1}]
      BY <1>1 DEF CallTypes
    <3>3. IF Sent(r).ok THEN ran'[c] = 1 ELSE Tells(ran'[c], spc'[c], decodeWireError(Sent(r).with))
      BY <2>2, <2>4
    <3>4. Sent(r).ok \in BOOLEAN
      BY <2>2
    <3> QED
      BY <3>1, <3>2, <3>3, <3>4, <2>1, <2>5, <1>1, AnswerOK
  <2>7. ReceivedOK(c)'
    <3>1. Noted(c)' = <<>>
      BY <2>3 DEF Noted
    <3> QED
      BY <3>1, <2>1, <2>3, <1>1, <1>4 DEF ReceivedOK
  <2> QED
    BY <2>6, <2>7 DEF CallOK
<1> QED
  BY <1>3, <1>5, <1>6

LEMMA ReturnsOK ==
  ASSUME BoundaryIInv, NEW c \in RpcCalls, HandlerReturns(c)
  PROVE  CallTypes' /\ CallOK(c)'
<1>1. /\ CallOK(c) /\ CallTypes /\ spc[c] = "handler" /\ ran[c] = 0 /\ spc'[c] = "encode" /\ ran'[c] = 1
      /\ UNCHANGED <<sides, clientVars, wire, inv, seen, sspan, reply>>
  <2>1. CallOK(c) /\ CallTypes /\ spc[c] = "handler"
    BY DEF BoundaryIInv, HandlerReturns
  <2>2. ran[c] = 0
    BY <2>1 DEF CallOK, ReceivedOK
  <2>3. spc'[c] = "encode" /\ ran'[c] = 1
    BY <2>1, <2>2 DEF HandlerReturns, CallTypes
  <2> QED
    BY <2>1, <2>2, <2>3 DEF HandlerReturns
<1>2. Encoded(c)' = Encoded(c) /\ Posted(c)' = Posted(c)
  BY <1>1, SameSent DEF clientVars
<1>3. /\ Decoded(c)' = Decoded(c) /\ Parent(c)' = Parent(c)
      /\ handlerArgs(wire[c])' = handlerArgs(wire[c])
  BY <1>1, SameReceived
<1>4. Noted(c)' = Noted(c)
  BY <1>1 DEF Noted, sides
<1>5. SentOK(c)' /\ ReceivedOK(c)'
  BY <1>1, <1>2, <1>3, <1>4 DEF SentOK, ReceivedOK, CallOK, clientVars
<1>6. RepliedOK(c)' /\ GotOK(c)' /\ EndedOK(c)'
  BY <1>1 DEF RepliedOK, GotOK, Tells, EndedOK, CallOK, clientVars
<1>7. CallTypes'
  <2>1. ran' \in [RpcCalls -> {0, 1}] /\ value' \in [RpcCalls -> Domain]
    BY <1>1 DEF HandlerReturns, CallTypes
  <2>2. spc' \in [RpcCalls -> {"none", "arriving", "decode", "handler", "encode", "answered"}]
    BY <1>1 DEF HandlerReturns, CallTypes
  <2> QED
    BY <1>1, <2>1, <2>2 DEF CallTypes, sides, clientVars
<1> QED
  BY <1>5, <1>6, <1>7 DEF CallOK

LEMMA FailsOK ==
  ASSUME BoundaryIInv, NEW c \in RpcCalls, HandlerFails(c)
  PROVE  CallTypes' /\ CallOK(c)'
<1>1. /\ CallOK(c) /\ CallTypes /\ spc[c] = "handler" /\ ran[c] = 0 /\ ran'[c] = 1
      /\ ran' \in [RpcCalls -> {0, 1}]
      /\ UNCHANGED <<sides, clientVars, wire, inv, seen, value>>
  <2>1. CallOK(c) /\ CallTypes /\ spc[c] = "handler"
    BY DEF BoundaryIInv, HandlerFails
  <2>2. ran[c] = 0
    BY <2>1 DEF CallOK, ReceivedOK
  <2>3. ran' = [ran EXCEPT ![c] = @ + 1]
    BY DEF HandlerFails
  <2>4. ran'[c] = 1 /\ ran' \in [RpcCalls -> {0, 1}]
    BY <2>1, <2>2, <2>3 DEF CallTypes
  <2> QED
    BY <2>1, <2>2, <2>4 DEF HandlerFails
<1>2. PICK e \in {Err("App", "none"), Err("ArgDecode", "other")} : Answer(c, Sent(Failed(e)))
  BY DEF HandlerFails
<1>3. spc'[c] = "answered"
  BY <1>1, <1>2 DEF Answer, CallTypes
<1>4. Sent(Failed(e)).ok = FALSE
  BY WireErrors DEF Failed
<1>5. Tells(ran'[c], spc'[c], decodeWireError(Sent(Failed(e)).with))
  <2>1. decodeWireError(Sent(Failed(e)).with) \in {Err("Error", "none"), Err("ArgDecode", "other")}
    BY WireErrors DEF WireTags
  <2>2. \A x \in {Err("Error", "none"), Err("ArgDecode", "other")} : Tells(ran'[c], spc'[c], x)
    BY <1>1, <1>3 DEF Tells, Err
  <2> QED
    BY <2>1, <2>2
<1>6. \A x : Tells(ran[c], spc[c], x) => Tells(ran'[c], spc'[c], x)
  BY <1>1, <1>3 DEF Tells
<1>7. CallTypes' /\ SentOK(c)' /\ RepliedOK(c)' /\ GotOK(c)' /\ EndedOK(c)'
  <2>1. inv' = [x \in RpcCalls |-> inv'[x]] /\ seen' = [x \in RpcCalls |-> seen'[x]]
    BY <1>1 DEF CallTypes
  <2> QED
    BY <2>1, <1>1, <1>2, <1>4, <1>5, <1>6, AnswerOK
<1>8. /\ Decoded(c)' = Decoded(c) /\ Parent(c)' = Parent(c)
      /\ handlerArgs(wire[c])' = handlerArgs(wire[c])
  BY <1>1, SameReceived
<1>9. Noted(c)' = Noted(c)
  BY <1>1, <1>3 DEF Noted, sides
<1>10. ReceivedOK(c)'
  BY <1>1, <1>3, <1>8, <1>9 DEF ReceivedOK, CallOK
<1> QED
  BY <1>7, <1>10 DEF CallOK

LEMMA EncodeResultOK ==
  ASSUME BoundaryIInv, NEW c \in RpcCalls, EncodeResult(c)
  PROVE  CallTypes' /\ CallOK(c)'
<1> DEFINE s == encodeSuccess(receiver, value[c])
           r == Sent(s)
<1>1. /\ CallOK(c) /\ CallTypes /\ spc[c] = "encode" /\ ran[c] = 1 /\ ran'[c] = 1 /\ Answer(c, r)
      /\ UNCHANGED <<sides, clientVars, wire, inv, seen, ran, value>>
  BY DEF BoundaryIInv, EncodeResult, CallOK, ReceivedOK, CallTypes
<1>2. s.ok \in BOOLEAN /\ (~s.ok => s = Failed(Err("SuccessEncode", "svc")))
  BY DEF encodeSuccess, Ok, Failed, Err
<1> HIDE DEF s
<1>3. spc'[c] = "answered"
  BY <1>1 DEF Answer, CallTypes
<1>4. r.ok \in BOOLEAN /\ (r.ok \/ Tells(ran'[c], spc'[c], decodeWireError(r.with)))
  <2>1. CASE ~s.ok
    <3>1. decodeWireError(r.with) = Err("SuccessEncode", "svc") /\ r.ok = FALSE
      BY <1>2, <2>1, WireErrors DEF WireTags
    <3>2. Tells(ran'[c], spc'[c], Err("SuccessEncode", "svc"))
      BY <1>1 DEF Tells, Err
    <3> QED
      BY <3>1, <3>2
  <2>2. CASE s.ok /\ s.with = Instance
    <3>1. r = Failed(Err("Platform", "none"))
      BY <2>2 DEF Sent
    <3>2. r.ok = FALSE /\ r.with = Err("Platform", "none")
      BY <3>1 DEF Failed
    <3>3. Tells(ran'[c], spc'[c], Err("Platform", "none"))
      BY DEF Tells, Err
    <3> QED
      BY <3>2, <3>3, WireErrors
  <2>3. CASE s.ok /\ s.with # Instance
    BY <1>2, <2>3 DEF Sent
  <2> QED
    BY <1>2, <2>1, <2>2, <2>3
<1> HIDE DEF r
<1>5. \A x : Tells(ran[c], spc[c], x) => Tells(ran'[c], spc'[c], x)
  BY <1>1, <1>3 DEF Tells
<1>6. CallTypes' /\ SentOK(c)' /\ RepliedOK(c)' /\ GotOK(c)' /\ EndedOK(c)'
  <2>1. inv' = [x \in RpcCalls |-> inv'[x]] /\ seen' = [x \in RpcCalls |-> seen'[x]]
    BY <1>1 DEF CallTypes
  <2>2. ran' \in [RpcCalls -> {0, 1}]
    BY <1>1 DEF CallTypes
  <2> QED
    BY <2>1, <2>2, <1>1, <1>4, <1>5, AnswerOK
<1>7. /\ Decoded(c)' = Decoded(c) /\ Parent(c)' = Parent(c)
      /\ handlerArgs(wire[c])' = handlerArgs(wire[c])
  BY <1>1, SameReceived
<1>8. Noted(c)' = Noted(c)
  BY <1>1, <1>3 DEF Noted, sides
<1>9. ReceivedOK(c)'
  BY <1>1, <1>3, <1>7, <1>8 DEF ReceivedOK, CallOK
<1> QED
  BY <1>6, <1>9 DEF CallOK

LEMMA LoseCallOK ==
  ASSUME BoundaryIInv, NEW c \in RpcCalls, Lose(c)
  PROVE  CallTypes' /\ CallOK(c)'
<1>1. /\ CallOK(c) /\ CallTypes /\ spc[c] # "none" /\ pc[c] = "await"
      /\ UNCHANGED <<sides, clientVars, wire, serverVars>>
      /\ reply'[c] = <<Failed(Err("Platform", "none"))>>
  BY DEF BoundaryIInv, Lose, CallOK, SentOK, CallTypes
<1>2. Encoded(c)' = Encoded(c) /\ Posted(c)' = Posted(c)
  BY <1>1, SameSent DEF clientVars
<1>3. /\ Decoded(c)' = Decoded(c) /\ Parent(c)' = Parent(c)
      /\ handlerArgs(wire[c])' = handlerArgs(wire[c]) /\ Noted(c)' = Noted(c)
  BY <1>1, SameReceived DEF Noted, serverVars, sides
<1>4. SentOK(c)' /\ ReceivedOK(c)' /\ GotOK(c)' /\ EndedOK(c)'
  BY <1>1, <1>2, <1>3 DEF SentOK, ReceivedOK, GotOK, EndedOK, CallOK, clientVars, serverVars
<1>5. RepliedOK(c)'
  <2>1. reply'[c][1] = Failed(Err("Platform", "none")) /\ Failed(Err("Platform", "none")).ok = FALSE
        /\ Failed(Err("Platform", "none")).with = Err("Platform", "none")
    BY <1>1 DEF Failed
  <2>2. Tells(ran'[c], spc'[c], decodeWireError(reply'[c][1].with))
    <3>1. Tells(ran'[c], spc'[c], Err("Platform", "none"))
      BY DEF Tells, Err
    <3> QED
      BY <2>1, <3>1, WireErrors
  <2> QED
    BY <1>1, <2>1, <2>2 DEF RepliedOK, clientVars, serverVars, decodeWireError
<1>6. CallTypes'
  <2>1. reply' = [x \in RpcCalls |-> reply'[x]]
    BY <1>1 DEF Lose, CallTypes
  <2> QED
    BY <1>1, <2>1 DEF CallTypes, sides, clientVars, serverVars
<1> QED
  BY <1>4, <1>5, <1>6 DEF CallOK

\* Every call keeps the invariant, whichever call takes the step.
LEMMA CallsStepOK ==
  ASSUME BoundaryAssumption, BoundaryIInv, CallsNext
  PROVE  CallTypes' /\ \A c \in RpcCalls : CallOK(c)'
<1>1. PICK c \in RpcCalls : CallerStep(c) \/ ReceiverStep(c)
  BY DEF CallsNext, CallerStep, ReceiverStep
<1>2. CallTypes' /\ CallOK(c)'
  BY <1>1, StartCallOK, EncodeCallOK, InvokeCallOK, ResolveCallOK, DecodeResultOK, InterruptCallOK,
     CloseResultScopeOK, ReceiveCallOK, DecodeCallOK, ReturnsOK, FailsOK, EncodeResultOK, LoseCallOK
  DEF CallerStep, ReceiverStep
<1>3. ASSUME NEW d \in RpcCalls, d # c PROVE CallOK(d)'
  BY <1>1, <1>3, Elsewhere, UntouchedOK DEF BoundaryIInv
<1> QED
  BY <1>2, <1>3

----------------------------------------------------------------------------
(* Names. *)

\* What a surface holds by a name: a method only if the contract has it, and every method
\* of a definition, but for names that the surface uses itself.
OwnNames(d) == Operations(d.kind) \cup {"id", "methods", "make", "layer", "definition", "byName", "byId"}
Fits(d, surface) ==
    /\ \A n \in DOMAIN surface : surface[n] = Method(n) => n \in d.names
    /\ d.defined => \A n \in d.names : n \in DOMAIN surface /\ (surface[n] = Method(n) \/ n \in OwnNames(d))

LEMMA NamesApart ==
  \A m, n : Method(m) # Own(n)
  BY DEF Method, Own

LEMMA OwnFits ==
  ASSUME NEW d, NEW surface, NEW more, Fits(d, surface), DOMAIN more \subseteq OwnNames(d),
         \A n \in DOMAIN more : more[n] = Own(n)
  PROVE  Fits(d, Assign(surface, more))
  BY NamesApart DEF Fits, Assign

LEMMA ClientFits ==
  ASSUME NEW d \in Entrypoints
  PROVE  /\ Fits(d, Methods(d)) /\ Fits(d, makeDirectMethods(d)) /\ Fits(d, makeClient(d))
         /\ \A n \in Operations(d.kind) : n \in DOMAIN makeClient(d) /\ makeClient(d)[n] = Own(n)
<1>1. Fits(d, Methods(d))
  <2>1. CASE d.defined
    BY <2>1 DEF Fits, Methods
  <2>2. CASE ~d.defined
    BY <2>2 DEF Fits, Methods
  <2> QED
    BY <2>1, <2>2
<1>2. Fits(d, makeDirectMethods(d))
  <2> DEFINE more == [n \in {"byName", "byId"} |-> Own(n)]
  <2>1. DOMAIN more \subseteq OwnNames(d) /\ \A n \in DOMAIN more : more[n] = Own(n)
    BY DEF OwnNames
  <2> HIDE DEF more
  <2>2. Fits(d, Assign(Methods(d), more))
    BY <1>1, <2>1, OwnFits
  <2> QED
    BY <1>1, <2>2 DEF makeDirectMethods, more
<1>3. /\ Fits(d, makeClient(d))
      /\ \A n \in Operations(d.kind) : n \in DOMAIN makeClient(d) /\ makeClient(d)[n] = Own(n)
  <2> DEFINE more == [n \in Operations(d.kind) |-> Own(n)]
  <2>1. /\ DOMAIN more = Operations(d.kind) /\ DOMAIN more \subseteq OwnNames(d)
        /\ \A n \in DOMAIN more : more[n] = Own(n)
    BY DEF OwnNames
  <2> HIDE DEF more
  <2>2. Fits(d, Assign(makeDirectMethods(d), more))
    BY <1>2, <2>1, OwnFits
  <2>3. \A n \in Operations(d.kind) :
          n \in DOMAIN Assign(makeDirectMethods(d), more) /\ Assign(makeDirectMethods(d), more)[n] = Own(n)
    BY <2>1 DEF Assign
  <2> QED
    BY <2>2, <2>3 DEF makeClient, more
<1> QED
  BY <1>1, <1>2, <1>3

LEMMA ForwardedFits ==
  ASSUME NEW d \in Entrypoints, NEW N, N \subseteq OwnNames(d), "fetch" \notin N
  PROVE  LET forwarded == [n \in Operations(d.kind) |-> makeClient(d)[n]]
             surface == Assign(Assign(makeDirectMethods(d), forwarded), [n \in N |-> Own(n)])
         IN Fits(d, surface) /\ surface["fetch"] = Own("fetch")
<1> DEFINE forwarded == [n \in Operations(d.kind) |-> makeClient(d)[n]]
           under == Assign(makeDirectMethods(d), forwarded)
           more == [n \in N |-> Own(n)]
<1>1. /\ DOMAIN forwarded = Operations(d.kind) /\ DOMAIN forwarded \subseteq OwnNames(d)
      /\ \A n \in DOMAIN forwarded : forwarded[n] = Own(n)
  BY ClientFits DEF OwnNames
<1>2. DOMAIN more = N /\ \A n \in DOMAIN more : more[n] = Own(n)
  OBVIOUS
<1> HIDE DEF forwarded, more
<1>3. Fits(d, under)
  BY <1>1, ClientFits, OwnFits
<1>4. "fetch" \in DOMAIN under /\ under["fetch"] = Own("fetch")
  BY <1>1 DEF Assign, Operations, Calling
<1> HIDE DEF under
<1>5. Fits(d, Assign(under, more))
  BY <1>2, <1>3, OwnFits
<1>6. Assign(under, more)["fetch"] = Own("fetch")
  BY <1>2, <1>4 DEF Assign
<1> QED
  BY <1>5, <1>6 DEF forwarded, under, more

\* What stands on a surface by a name.
LEMMA SurfacesFit ==
  ASSUME NEW d \in Entrypoints, NEW surface \in Surfaces(d)
  PROVE  Fits(d, surface) /\ (Servable(d) => surface["fetch"] = Own("fetch"))
<1>1. CASE surface = makeClient(d)
  BY <1>1, ClientFits DEF Operations, Calling
<1>2. CASE surface = Service(d)
  <2>1. {"definition"} \subseteq OwnNames(d) /\ "fetch" \notin {"definition"}
    BY DEF OwnNames
  <2> QED
    BY <1>2, <2>1, ForwardedFits DEF Service
<1>3. CASE surface = Tag(d)
  <2>1. {"id", "methods", "make", "layer"} \subseteq OwnNames(d) /\ "fetch" \notin {"id", "methods", "make", "layer"}
    BY DEF OwnNames
  <2> QED
    BY <1>3, <2>1, ForwardedFits DEF Tag
<1>4. CASE surface = Named(d) /\ d.defined
  <2>1. Methods(d) = [n \in d.names |-> Method(n)]
    BY <1>4 DEF Methods
  <2>2. Fits(d, surface)
    BY <1>4, <2>1, NamesApart DEF Named, Assign, Fits
  <2>3. Servable(d) => "fetch" \notin d.names
    BY DEF Servable, assertNoReservedMethods, WorkerEntrypointReserved, reservedMethodNames
  <2> QED
    BY <1>4, <2>1, <2>2, <2>3 DEF Named, Assign
<1> QED
  BY <1>1, <1>2, <1>3, <1>4 DEF Surfaces

\* A method that is asked for runs, and an event finds the handler of its name.
LEMMA PrototypeOK ==
  ASSUME NEW d \in Entrypoints
  PROVE  /\ \A n \in d.names : Prototype(d)[n] = Method(n)
         /\ Servable(d) => \A n \in OwnHandlers(d.kind) : Prototype(d)[n] = Own(n)
<1>1. \A n \in d.names : Prototype(d)[n] = Method(n)
  BY DEF Prototype, Assign
<1>2. Servable(d) => \A n \in OwnHandlers(d.kind) : n \notin d.names
  BY DEF Servable, assertNoReservedMethods, WorkerEntrypointReserved, reservedMethodNames, OwnHandlers
<1> QED
  BY <1>1, <1>2 DEF Prototype, Assign

LEMMA DeclarableServable ==
  ASSUME NEW d \in Entrypoints, Declarable(d) PROVE Servable(d)
  BY DEF Declarable, Servable, assertNoReservedMethods, WorkerReserved, ObjectReserved,
         WorkerEntrypointReserved, reservedMethodNames, Entrypoints

LEMMA NamesStepOK ==
  ASSUME ContractOK, NamesNext
  PROVE  ContractOK' /\ UNCHANGED callVars
<1> DEFINE d == contract.of
           Placed(where, asked, executed) == [of |-> d, at |-> where, asked |-> asked, ran |-> executed]
<1>1. /\ contract # <<>> /\ d \in Entrypoints
      /\ contract = Placed(contract.at, contract.asked, contract.ran)
      /\ contract.at \in {"declared", "served", "unservable"} /\ d.defined => Declarable(d)
      /\ contract.at = "served" => Servable(d)
      /\ contract.ran # <<>> => contract.ran[1] = contract.asked[2]
  BY DEF NamesNext, ContractOK, Declare, Serve
<1>2. UNCHANGED callVars
  BY DEF NamesNext, Declare, Serve, Use, DeliverEvent
<1>3. CASE Declare
  <2> DEFINE place == IF d.defined /\ ~Declarable(d) THEN "refused" ELSE "declared"
  <2>1. contract' = Placed(place, contract.asked, contract.ran)
    BY <1>1, <1>3 DEF Declare
  <2> HIDE DEF Placed
  <2>2. place = "refused" \/ (place = "declared" /\ (d.defined => Declarable(d)))
    OBVIOUS
  <2> HIDE DEF place
  <2>3. contract'.of = d /\ contract'.at = place /\ contract'.asked = contract.asked /\ contract'.ran = contract.ran
    BY <2>1 DEF Placed
  <2>4. contract' = [of |-> contract'.of, at |-> contract'.at, asked |-> contract'.asked, ran |-> contract'.ran]
    BY <2>1, <2>3 DEF Placed
  <2> QED
    BY <1>1, <1>2, <2>2, <2>3, <2>4 DEF ContractOK
<1>4. CASE Serve
  <2> DEFINE place == IF Servable(d) THEN "served" ELSE "unservable"
  <2>1. contract' = Placed(place, contract.asked, contract.ran) /\ contract.at = "declared"
    BY <1>1, <1>4 DEF Serve
  <2>2. (place = "served" /\ Servable(d)) \/ (place = "unservable" /\ ~Servable(d))
    OBVIOUS
  <2> HIDE DEF place, Placed
  <2>3. contract'.of = d /\ contract'.at = place /\ contract'.asked = contract.asked /\ contract'.ran = contract.ran
    BY <2>1 DEF Placed
  <2>4. contract' = [of |-> contract'.of, at |-> contract'.at, asked |-> contract'.asked, ran |-> contract'.ran]
    BY <2>1, <2>3 DEF Placed
  <2> QED
    BY <1>1, <1>2, <2>1, <2>2, <2>3, <2>4 DEF ContractOK
<1>5. ASSUME contract.at = "served", NEW asked, NEW executed, contract' = Placed("served", asked, executed),
             executed # <<>> => executed[1] = asked[2]
      PROVE  ContractOK'
  <2> HIDE DEF Placed
  <2>1. contract'.of = d /\ contract'.at = "served" /\ contract'.asked = asked /\ contract'.ran = executed
    BY <1>5 DEF Placed
  <2>2. contract' = [of |-> contract'.of, at |-> contract'.at, asked |-> contract'.asked, ran |-> contract'.ran]
    BY <1>5, <2>1 DEF Placed
  <2> QED
    BY <1>1, <1>5, <2>1, <2>2 DEF ContractOK
<1>6. ASSUME contract.at = "served", NEW surface \in Surfaces(d), NEW n \in DOMAIN surface, Use(surface, n)
      PROVE  ContractOK'
  <2> DEFINE executed == IF surface[n] = Method(n) THEN <<Prototype(d)[n]>> ELSE <<>>
  <2>1. surface[n] = Method(n) => Prototype(d)[n] = surface[n]
    BY <1>1, <1>6, SurfacesFit, PrototypeOK DEF Fits
  <2>2. contract' = Placed("served", <<n, surface[n]>>, executed)
    BY <1>1, <1>6 DEF Use
  <2>3. executed # <<>> => executed[1] = <<n, surface[n]>>[2]
    BY <2>1
  <2> HIDE DEF executed, Placed
  <2> QED
    BY <1>5, <1>6, <2>2, <2>3
<1>7. ASSUME contract.at = "served", NEW n \in OwnHandlers(d.kind), DeliverEvent(n)
      PROVE  ContractOK'
  <2>1. Prototype(d)[n] = Own(n)
    BY <1>1, <1>7, PrototypeOK
  <2>2. contract' = Placed("served", <<n, Own(n)>>, <<Prototype(d)[n]>>)
    BY <1>1, <1>7 DEF DeliverEvent
  <2>3. <<Prototype(d)[n]>>[1] = <<n, Own(n)>>[2]
    BY <2>1
  <2> HIDE DEF Placed
  <2> QED
    BY <1>5, <1>7, <2>2, <2>3
<1> QED
  BY <1>2, <1>3, <1>4, <1>6, <1>7 DEF NamesNext

----------------------------------------------------------------------------
LEMMA BoundaryInitOK ==
  ASSUME BoundaryAssumption, BoundaryInit PROVE BoundaryIInv
<1>1. CallTypes
  <2>1. caller \in Sides /\ receiver \in Sides
    BY DEF BoundaryAssumption, BoundaryInit
  <2>2. <<>> \in Seq(Domain) /\ <<>> \in Seq(Packets)
    BY EmptySeq
  <2>3. given \in [RpcCalls -> Seq(Domain)] /\ wire \in [RpcCalls -> Seq(Packets)]
    BY <2>2 DEF BoundaryInit
  <2>4. /\ span \in [RpcCalls -> Spans] /\ sspan \in [RpcCalls -> Spans] /\ value \in [RpcCalls -> Domain]
        /\ held \in [RpcCalls -> [scope : {"open", "closed"}, value : BOOLEAN, disposed : {0, 1}]]
    BY DEF BoundaryInit, Spans, Domain
  <2> QED
    BY <2>1, <2>3, <2>4 DEF BoundaryInit, CallTypes
<1>2. ContractOK
  <2>1. CASE Contracts = {}
    BY <2>1 DEF BoundaryInit, ContractOK
  <2>2. CASE Contracts # {}
    <3>1. PICK x \in Contracts : contract = [of |-> x, at |-> "written", asked |-> <<>>, ran |-> <<>>]
      BY <2>2 DEF BoundaryInit
    <3> QED
      BY <3>1 DEF ContractOK, BoundaryAssumption
  <2> QED
    BY <2>1, <2>2
<1>3. ASSUME NEW c \in RpcCalls PROVE CallOK(c)
  <2>1. SentOK(c) /\ ReceivedOK(c)
    BY DEF BoundaryInit, SentOK, ReceivedOK
  <2>2. RepliedOK(c) /\ GotOK(c) /\ EndedOK(c)
    BY DEF BoundaryInit, RepliedOK, GotOK, EndedOK
  <2> QED
    BY <2>1, <2>2 DEF CallOK
<1> QED
  BY <1>1, <1>2, <1>3 DEF BoundaryIInv

LEMMA BoundaryStepOK ==
  ASSUME BoundaryAssumption, BoundaryIInv, [BoundaryNext]_boundaryVars PROVE BoundaryIInv'
<1>1. ASSUME UNCHANGED callVars PROVE CallTypes' /\ \A c \in RpcCalls : CallOK(c)'
  <2>1. CallTypes'
    BY <1>1 DEF BoundaryIInv, CallTypes, callVars, sides, clientVars, serverVars
  <2>2. \A c \in RpcCalls : Untouched(c) /\ UNCHANGED sides
    BY <1>1 DEF Untouched, callVars, clientVars, serverVars
  <2> QED
    BY <2>1, <2>2, UntouchedOK DEF BoundaryIInv
<1>2. ASSUME UNCHANGED contract PROVE ContractOK'
  BY <1>2 DEF BoundaryIInv, ContractOK
<1>3. CASE NamesNext
  BY <1>1, <1>3, NamesStepOK DEF BoundaryIInv
<1>4. CASE CallsNext /\ UNCHANGED contract
  BY <1>2, <1>4, CallsStepOK DEF BoundaryIInv
<1>5. CASE UNCHANGED boundaryVars
  BY <1>1, <1>2, <1>5 DEF BoundaryIInv, boundaryVars
<1> QED
  BY <1>3, <1>4, <1>5 DEF BoundaryNext

\* With as many arguments on both sides, the handler's are what the caller encoded.
LEMMA NothingAdded ==
  ASSUME BoundaryAssumption, BoundaryIInv, NEW c \in RpcCalls, spc[c] # "none", caller.defined,
         receiver.defined, Len(caller.args) = Len(receiver.args), Decoded(c).ok
  PROVE  handlerArgs(wire[c]) = Encoded(c).with /\ Matches(caller, given[c], Encoded(c).with)
<1> DEFINE sent == Encoded(c).with
<1>1. /\ CallTypes /\ wire[c] = Posted(c) /\ given[c] \in Seq(Domain) /\ caller \in Sides
      /\ encodeArgs(caller, given[c]).ok /\ sent = encodeArgs(caller, given[c]).with
  BY DEF BoundaryIInv, CallOK, SentOK, CallTypes, Encoded
<1>2. Matches(caller, given[c], sent)
  BY <1>1, EncodedMatch
<1>3. Len(handlerArgs(wire[c])) = Len(receiver.args)
  BY DEF Decoded, decodeArgs, Failed
<1> HIDE DEF sent
<1>4. sent \in Seq(Packets) /\ Len(sent) \in Nat /\ Len(sent) = Len(receiver.args)
  <2>1. sent \in Seq(Domain \cup {Lowered}) /\ Len(sent) = Len(caller.args)
    BY <1>2 DEF Matches
  <2> QED
    BY <2>1, SeqMonotonic, LenProperties DEF Packets
<1>5. Context(c) \in Packets
  BY DEF Packets, Contexts, Context
<1>6. CASE wire[c] = Append(sent, Context(c))
  <2>1. Len(wire[c]) = Len(sent) + 1 /\ Front(wire[c]) = sent
    BY <1>4, <1>5, <1>6, AppendProperties, FrontOfAppend
  <2> QED
    BY <2>1, <1>2, <1>3, <1>4 DEF handlerArgs, sent
<1>7. CASE wire[c] = sent
  <2>1. CASE HasContext(wire[c])
    <3>1. Len(Front(sent)) = Len(sent) - 1
      BY <2>1, <1>4, <1>7, FrontShorter DEF HasContext
    <3> QED
      BY <3>1, <2>1, <1>3, <1>4, <1>7 DEF handlerArgs
  <2>2. CASE ~HasContext(wire[c])
    BY <2>2, <1>2, <1>7 DEF handlerArgs, sent
  <2> QED
    BY <2>1, <2>2
<1> QED
  BY <1>1, <1>6, <1>7 DEF Posted, withRpcTraceContext, sent

LEMMA ArgumentsArrive ==
  ASSUME BoundaryAssumption, BoundaryIInv PROVE HandlerGetsTheArguments
<1> SUFFICES ASSUME NEW c \in RpcCalls, ran[c] = 1, caller.defined, receiver.defined,
                    Len(caller.args) = Len(receiver.args)
             PROVE  seen[c] = given[c]
  BY DEF HandlerGetsTheArguments
<1> DEFINE sent == Encoded(c).with
<1>1. /\ CallTypes /\ spc[c] # "none" /\ Decoded(c).ok /\ seen[c] = Decoded(c).with
      /\ wire[c] = Posted(c) /\ Instance \notin ToSet(wire[c])
  <2>1. CallTypes /\ SentOK(c) /\ ReceivedOK(c)
    BY DEF BoundaryIInv, CallOK
  <2>2. spc[c] # "none" /\ Decoded(c).ok /\ seen[c] = Decoded(c).with
    BY <2>1 DEF ReceivedOK
  <2> QED
    BY <2>1, <2>2 DEF SentOK
<1>2. handlerArgs(wire[c]) = sent /\ Matches(caller, given[c], sent)
  BY <1>1, NothingAdded
<1>3. sent \in Seq(Packets) /\ Context(c) \in Packets
  <2>1. sent \in Seq(Domain \cup {Lowered})
    BY <1>2 DEF Matches
  <2> QED
    BY <2>1, SeqMonotonic DEF Packets, Contexts, Context
<1> HIDE DEF sent
<1>4. Instance \notin ToSet(sent)
  <2>1. CASE wire[c] = Append(sent, Context(c))
    <3>1. /\ Len(sent) \in Nat /\ DOMAIN sent = 1..Len(sent)
          /\ DOMAIN wire[c] = 1..(Len(sent) + 1) /\ \A i \in 1..Len(sent) : wire[c][i] = sent[i]
      BY <2>1, <1>3, AppendProperties, LenProperties
    <3> QED
      BY <3>1, <1>1 DEF ToSet
  <2>2. CASE wire[c] = sent
    BY <2>2, <1>1
  <2> QED
    BY <2>1, <2>2, <1>1 DEF Posted, withRpcTraceContext, sent
<1>5. Decoded(c) = decodeArgs(receiver, sent)
  BY <1>2 DEF Decoded
<1>6. given[c] \in Seq(Domain) /\ caller \in Sides /\ receiver \in Sides
  BY <1>1 DEF CallTypes
<1> QED
  BY <1>1, <1>2, <1>4, <1>5, <1>6, RoundTrip

LEMMA ParentIsTheCall ==
  ASSUME BoundaryIInv PROVE TraceFollowsTheCall
<1> SUFFICES ASSUME NEW c \in RpcCalls, inv[c] # <<>>, caller.traces, receiver.traces, tracer[c] = "live"
             PROVE  inv[c][1].parent = <<Context(c)>> /\ Len(inv[c][1].args) = Len(given[c])
  BY DEF TraceFollowsTheCall
<1> DEFINE sent == Encoded(c).with
<1>1. /\ CallTypes /\ spc[c] # "none" /\ Encoded(c).ok /\ wire[c] = Posted(c)
      /\ inv[c] = <<[args |-> handlerArgs(wire[c]), decoded |-> Noted(c), parent |-> Parent(c)]>>
  BY DEF BoundaryIInv, CallOK, SentOK, ReceivedOK
<1>2. sent \in Seq(Packets) /\ Len(sent) = Len(given[c])
  <2>1. given[c] \in Seq(Domain) /\ caller \in Sides
    BY <1>1 DEF CallTypes
  <2>2. CASE caller.defined
    <3>1. Matches(caller, given[c], sent)
      BY <1>1, <2>1, <2>2, EncodedMatch DEF Encoded
    <3> QED
      BY <3>1, SeqMonotonic DEF Matches, Packets
  <2>3. CASE ~caller.defined
    BY <2>1, <2>3, SeqMonotonic DEF Encoded, Ok, Packets
  <2> QED
    BY <2>2, <2>3
<1>3. Context(c) \in Packets /\ isRpcTraceContext(Context(c))
  BY DEF Packets, Contexts, Context, isRpcTraceContext
<1>4. wire[c] = Append(sent, Context(c))
  BY <1>1 DEF Posted, withRpcTraceContext
<1> HIDE DEF sent
<1>5. Front(wire[c]) = sent /\ Last(wire[c]) = Context(c) /\ wire[c] # <<>>
  BY <1>2, <1>3, <1>4, FrontOfAppend
<1>6. HasContext(wire[c])
  BY <1>3, <1>5 DEF HasContext
<1> QED
  BY <1>1, <1>2, <1>5, <1>6 DEF handlerArgs, Parent

LEMMA BoundaryPromises ==
  ASSUME BoundaryAssumption, BoundaryIInv PROVE CallsKeepTheirMeaning
<1>1. BoundaryTypeOK
  <2>1. ASSUME NEW c \in RpcCalls
        PROVE  /\ Len(inv[c]) <= 1 /\ Len(reply[c]) <= 1 /\ Len(exit[c]) <= 1 /\ held[c].disposed \in {0, 1}
    <3>1. held[c].disposed \in {0, 1}
      BY DEF BoundaryIInv, CallTypes
    <3>2. ASSUME NEW s, s = <<>> \/ \E x : s = <<x>> PROVE Len(s) <= 1
      <4>1. CASE s = <<>>
        BY <4>1, EmptySeq
      <4>2. CASE \E x : s = <<x>>
        <5>1. PICK x : s = <<x>>
          BY <4>2
        <5>2. Len(<<x>>) = 1
          OBVIOUS
        <5> QED
          BY <5>1, <5>2
      <4> QED
        BY <3>2, <4>1, <4>2
    <3>3. /\ inv[c] = <<>> \/ \E x : inv[c] = <<x>>
          /\ reply[c] = <<>> \/ \E x : reply[c] = <<x>>
          /\ exit[c] = <<>> \/ \E x : exit[c] = <<x>>
      BY DEF BoundaryIInv, CallOK, ReceivedOK, RepliedOK, GotOK
    <3> QED
      BY <3>1, <3>2, <3>3
  <2> QED
    BY <2>1 DEF BoundaryIInv, CallTypes, BoundaryTypeOK
<1>2. HandlerGetsTheArguments /\ TraceFollowsTheCall
  BY ArgumentsArrive, ParentIsTheCall
<1>3. DecodedArgsAreTheCallsOwn
  <2> SUFFICES ASSUME NEW c \in RpcCalls, inv[c] # <<>> PROVE inv[c][1].decoded = Noted(c)
    BY DEF Noted, DecodedArgsAreTheCallsOwn
  <2>1. inv[c] = <<[args |-> handlerArgs(wire[c]), decoded |-> Noted(c), parent |-> Parent(c)]>>
    BY DEF BoundaryIInv, CallOK, ReceivedOK
  <2> QED
    BY <2>1
<1>4. FailureTellsWhetherItRan /\ TagsSurvive
  BY DEF BoundaryIInv, CallOK, GotOK, Tells, FailureTellsWhetherItRan, TagsSurvive
<1>5. SpansHideTheCause /\ ScopedResultsAreDisposed
  BY DEF BoundaryIInv, CallOK, EndedOK, SpansHideTheCause, ScopedResultsAreDisposed
<1>6. DefinitionsAreServed
  BY DeclarableServable DEF BoundaryIInv, ContractOK, DefinitionsAreServed
<1>7. NamesKeepTheirMeaning
  <2> SUFFICES ASSUME contract # <<>>, contract.at = "served", NEW surface \in Surfaces(contract.of)
               PROVE  /\ surface["fetch"] = Own("fetch")
                      /\ contract.of.defined => \A n \in contract.of.names :
                           surface[n] = Method(n) \/ n \in OwnNames(contract.of)
    BY DEF BoundaryIInv, ContractOK, NamesKeepTheirMeaning, OwnNames
  <2>1. contract.of \in Entrypoints /\ Servable(contract.of)
    BY DEF BoundaryIInv, ContractOK
  <2> QED
    BY <2>1, SurfacesFit DEF Fits
<1> QED
  BY <1>1, <1>2, <1>3, <1>4, <1>5, <1>6, <1>7 DEF CallsKeepTheirMeaning

(* Whatever the two sides are deployed with, and whatever other calls do, calls across the  *)
(* boundary keep their meaning: RpcBoundary's own promises, for any calls, definitions,      *)
(* inputs and contracts.                                                                    *)
THEOREM CallsCrossWhole ==
  ASSUME BoundaryAssumption PROVE BoundarySpec => []CallsKeepTheirMeaning
<1>1. BoundaryInit => BoundaryIInv
  BY BoundaryInitOK
<1>2. BoundaryIInv /\ [BoundaryNext]_boundaryVars => BoundaryIInv'
  BY BoundaryStepOK
<1>3. BoundaryIInv => CallsKeepTheirMeaning
  BY BoundaryPromises
<1> QED
  BY <1>1, <1>2, <1>3, PTL DEF BoundarySpec
=============================================================================
