------------------------ MODULE SchemaRegistryProofs ------------------------
(***************************************************************************)
(* Proofs about SchemaRegistry, for every number of callers, schemas,      *)
(* attempts and cache entries.  The invariant says that a request which is *)
(* pending, or settled and not yet removed, is the one in the in-flight    *)
(* map, and so the only one of its schema; the rest follows from that.     *)
(***************************************************************************)
EXTENDS SchemaRegistry, TLAPS

USE SchemasAssumption, BoundsAssumption, SlotsAssumption

(* A request that has not left the map is the entry of its schema.         *)
MapInv ==
  \A s \in Schemas : \A k \in Slots :
    phase[<<s, k>>] \in Pending \cup Outcomes => inFlight[s] = k

(* Glue is asked for what is not cached, and what failed is not cached.    *)
CacheInv ==
  \A s \in Schemas : \A k \in Slots :
    /\ phase[<<s, k>>] = "sent" => s \notin cache
    /\ phase[<<s, k>>] \in {"missing", "error"} => s \notin cache \ Broken

(* A schema Glue knows from the start is never found missing.              *)
MissingInv ==
  /\ Always \subseteq registered
  /\ \A s \in Always : \A k \in Slots : phase[<<s, k>>] \notin {"missing", "forgotten"}
  /\ OnlyMissingAreCondemned

(* An attempt is left for a request that is due, all for one not started.  *)
AttemptInv ==
  \A r \in Requests :
    /\ phase[r] \in {"free", "forgotten"} => attempts[r] = 0
    /\ phase[r] = "due" => attempts[r] < MaxAttempts

RegistryInv == TypeOK /\ AttemptInv /\ MapInv /\ CacheInv /\ MissingInv

(* The request a fresh question starts is free before.                     *)
LEMMA NewRequestIsFree ==
  ASSUME NEW s \in Schemas, FreeSlots(s) # {}
  PROVE  \E k \in Slots : NewRequest(s) = <<s, k>> /\ phase[<<s, k>>] = "free"
  BY DEF FreeSlots, NewRequest

(* Settling a request concerns the phase of that request, and of awaits    *)
(* those who wait for it.                                                  *)
LEMMA SettleType ==
  ASSUME TypeOK, NEW r \in Requests, NEW o \in Outcomes, Settle(r, o)
  PROVE  /\ phase' \in [Requests -> Phases]
         /\ phase' = [phase EXCEPT ![r] = o]
         /\ awaits' \in [Callers -> [Schemas -> {"no"} \cup Slots \cup Outcomes]]
<1>1. phase' \in [Requests -> Phases]
  BY DEF TypeOK, Settle, Goto, Phases
<1>2. \A c \in Callers, s \in Schemas : awaits[c][s] \in {"no"} \cup Slots \cup Outcomes
  BY DEF TypeOK
<1>3. awaits' \in [Callers -> [Schemas -> {"no"} \cup Slots \cup Outcomes]]
  BY <1>2 DEF Settle
<1> QED BY <1>1, <1>3 DEF Settle, Goto

(* Initially nothing is in flight.                                         *)
LEMMA RegistryInvInit == Init => RegistryInv
<1> SUFFICES ASSUME Init PROVE RegistryInv
  OBVIOUS
<1>1. TypeOK
  BY DEF Init, TypeOK, Phases
<1>2. AttemptInv /\ MapInv /\ CacheInv /\ MissingInv
  BY DEF Init, AttemptInv, MapInv, CacheInv, MissingInv, OnlyMissingAreCondemned,
         Requests, Pending, Outcomes
<1> QED BY <1>1, <1>2 DEF RegistryInv

(* A question keeps the invariant: a request is started only where no      *)
(* other of its schema is in the map.                                      *)
LEMMA AskKeeps ==
  ASSUME RegistryInv, NEW c \in Callers, NEW asked \in SUBSET Schemas, Ask(c, asked)
  PROVE  RegistryInv'
<1> DEFINE fresh == {s \in asked : IsFresh(s)}
           new == {NewRequest(s) : s \in fresh}
<1>1. /\ \A s \in fresh : FreeSlots(s) # {}
      /\ inFlight' = [s \in Schemas |-> IF s \in fresh THEN NewRequest(s)[2] ELSE inFlight[s]]
      /\ phase' = [r \in Requests |-> IF r \in new THEN "due" ELSE phase[r]]
      /\ awaits' = [awaits EXCEPT ![c] = [s \in Schemas |-> IF s \in asked THEN Asked(s) ELSE "no"]]
      /\ UNCHANGED <<registered, cache, notFound, attempts>>
  BY DEF Ask
<1>2. \A s \in fresh : \E k \in Slots :
        NewRequest(s) = <<s, k>> /\ phase[<<s, k>>] = "free" /\ NewRequest(s)[2] = k
  <2> SUFFICES ASSUME NEW s \in fresh
               PROVE  \E k \in Slots :
                 NewRequest(s) = <<s, k>> /\ phase[<<s, k>>] = "free" /\ NewRequest(s)[2] = k
    OBVIOUS
  <2>1. s \in Schemas /\ FreeSlots(s) # {}
    BY <1>1
  <2>2. PICK k \in Slots : NewRequest(s) = <<s, k>> /\ phase[<<s, k>>] = "free"
    BY <2>1, NewRequestIsFree
  <2> QED BY <2>2
<1>3. ASSUME NEW s \in Schemas, NEW k \in Slots
      PROVE  /\ <<s, k>> \in new <=> s \in fresh /\ NewRequest(s)[2] = k
             /\ <<s, k>> \in new => phase'[<<s, k>>] = "due" /\ inFlight'[s] = k
             /\ <<s, k>> \notin new => phase'[<<s, k>>] = phase[<<s, k>>]
             /\ s \in fresh => inFlight[s] = NoSlot
  <2>1. <<s, k>> \in Requests
    BY DEF Requests
  <2>2. <<s, k>> \in new <=> s \in fresh /\ NewRequest(s)[2] = k
    <3>1. ASSUME <<s, k>> \in new PROVE s \in fresh /\ NewRequest(s)[2] = k
      <4>1. PICK t \in fresh : <<s, k>> = NewRequest(t)
        BY <3>1
      <4>2. PICK l \in Slots : NewRequest(t) = <<t, l>> /\ NewRequest(t)[2] = l
        BY <1>2
      <4>3. t = s /\ l = k
        BY <4>1, <4>2
      <4> QED BY <4>2, <4>3
    <3>2. ASSUME s \in fresh, NewRequest(s)[2] = k PROVE <<s, k>> \in new
      BY <3>2, <1>2
    <3> QED BY <3>1, <3>2
  <2>3. s \in fresh => inFlight[s] = NoSlot
    BY DEF IsFresh
  <2> HIDE DEF fresh, new
  <2> QED BY <1>1, <2>1, <2>2, <2>3
<1>4. TypeOK'
  <2>1. \A s \in Schemas : inFlight'[s] \in Slots \cup {NoSlot}
    BY <1>1, <1>2 DEF RegistryInv, TypeOK
  <2>2. inFlight' \in [Schemas -> Slots \cup {NoSlot}]
    BY <1>1, <2>1
  <2>3. phase' \in [Requests -> Phases]
    <3> HIDE DEF fresh, new
    <3> QED BY <1>1 DEF RegistryInv, TypeOK, Phases, Pending
  <2>4. \A s \in asked : Asked(s) \in {"no"} \cup Slots \cup Outcomes
    <3> SUFFICES ASSUME NEW s \in asked PROVE Asked(s) \in {"no"} \cup Slots \cup Outcomes
      OBVIOUS
    <3>1. CASE IsFresh(s)
      <4>1. NewRequest(s)[2] \in Slots
        BY <3>1, <1>2
      <4> QED BY <3>1, <4>1 DEF Asked, IsFresh
    <3>2. CASE ~IsFresh(s) /\ s \in Hardcoded \cup notFound
      BY <3>2 DEF Asked, Outcomes
    <3>3. CASE ~IsFresh(s) /\ s \notin Hardcoded \cup notFound
      <4>1. inFlight[s] \in Slots
        BY <3>3 DEF IsFresh, RegistryInv, TypeOK
      <4> QED BY <3>3, <4>1 DEF Asked
    <3> QED BY <3>1, <3>2, <3>3
  <2>5. awaits' \in [Callers -> [Schemas -> {"no"} \cup Slots \cup Outcomes]]
    BY <1>1, <2>4 DEF RegistryInv, TypeOK
  <2> QED BY <1>1, <2>2, <2>3, <2>5 DEF RegistryInv, TypeOK
<1>5. MapInv'
  <2> SUFFICES ASSUME NEW s \in Schemas, NEW k \in Slots,
                      phase'[<<s, k>>] \in Pending \cup Outcomes
               PROVE  inFlight'[s] = k
    BY DEF MapInv
  <2>1. CASE <<s, k>> \in new
    BY <1>3, <2>1
  <2>2. CASE <<s, k>> \notin new
    <3>1. inFlight[s] = k
      BY <1>3, <2>2 DEF RegistryInv, MapInv
    <3>2. s \notin fresh
      BY <1>3, <3>1
    <3> HIDE DEF fresh, new
    <3> QED BY <1>1, <3>1, <3>2
  <2> QED BY <2>1, <2>2
<1>6. CacheInv' /\ MissingInv'
  <2>1. \A s \in Schemas, k \in Slots :
          phase'[<<s, k>>] = "due" \/ phase'[<<s, k>>] = phase[<<s, k>>]
    BY <1>3
  <2> HIDE DEF fresh, new
  <2> QED BY <1>1, <2>1 DEF RegistryInv, CacheInv, MissingInv, OnlyMissingAreCondemned
<1>7. AttemptInv'
  <2> SUFFICES ASSUME NEW s \in Schemas, NEW k \in Slots
               PROVE  /\ phase'[<<s, k>>] \in {"free", "forgotten"} => attempts'[<<s, k>>] = 0
                      /\ phase'[<<s, k>>] = "due" => attempts'[<<s, k>>] < MaxAttempts
    BY DEF AttemptInv, Requests
  <2>1. <<s, k>> \in Requests
    BY DEF Requests
  <2>2. CASE <<s, k>> \in new
    <3>0. s \in fresh /\ NewRequest(s)[2] = k
      BY <1>3, <2>2
    <3>1. phase[<<s, k>>] = "free" /\ phase'[<<s, k>>] = "due"
      <4>1. PICK l \in Slots : phase[<<s, l>>] = "free" /\ NewRequest(s)[2] = l
        BY <1>2, <3>0
      <4> QED BY <1>3, <2>2, <3>0, <4>1
    <3>2. attempts'[<<s, k>>] = 0
      BY <1>1, <2>1, <3>1 DEF RegistryInv, AttemptInv
    <3> QED BY <3>1, <3>2
  <2>3. CASE <<s, k>> \notin new
    <3>1. phase'[<<s, k>>] = phase[<<s, k>>]
      BY <1>3, <2>3
    <3> HIDE DEF fresh, new
    <3> QED BY <1>1, <2>1, <3>1 DEF RegistryInv, AttemptInv
  <2> QED BY <2>2, <2>3
<1> QED BY <1>4, <1>5, <1>6, <1>7 DEF RegistryInv

(* A request that moves to phase p, its schema s keeping or leaving the    *)
(* map, keeps the three invariants about the map, the cache and what is    *)
(* missing if p is right for s.                                            *)
LEMMA MoveKeeps ==
  ASSUME RegistryInv, NEW s \in Schemas, NEW k \in Slots, NEW p \in Phases,
         phase[<<s, k>>] \in Pending \cup Outcomes,
         phase' = [phase EXCEPT ![<<s, k>>] = p],
         \/ UNCHANGED inFlight
         \/ inFlight' = [inFlight EXCEPT ![s] = NoSlot] /\ p \in {"free", "forgotten"},
         \/ cache' = cache
         \/ cache' = cache \cup {s} /\ p \in Outcomes /\ (p # "type" => s \in Broken),
         p = "sent" => s \notin cache,
         p \in {"missing", "error"} => s \notin cache \ Broken,
         p \in {"missing", "forgotten"} => s \notin Always,
         UNCHANGED <<registered, notFound>>
  PROVE  MapInv' /\ CacheInv' /\ MissingInv'
<1>1. \A t \in Schemas, l \in Slots :
        phase'[<<t, l>>] = IF t = s /\ l = k THEN p ELSE phase[<<t, l>>]
  BY DEF RegistryInv, TypeOK, Requests
<1>2. inFlight[s] = k
  BY DEF RegistryInv, MapInv
<1>3. \A l \in Slots : l # k => phase[<<s, l>>] \notin Pending \cup Outcomes
  BY <1>2 DEF RegistryInv, MapInv
<1>4. \A t \in Schemas : t # s => inFlight'[t] = inFlight[t]
  BY DEF RegistryInv, TypeOK
<1>5. MapInv'
  <2> SUFFICES ASSUME NEW t \in Schemas, NEW l \in Slots,
                      phase'[<<t, l>>] \in Pending \cup Outcomes
               PROVE  inFlight'[t] = l
    BY DEF MapInv
  <2>1. CASE t # s
    BY <1>1, <1>4, <2>1 DEF RegistryInv, MapInv
  <2>2. CASE t = s
    <3>1. l = k /\ p \in Pending \cup Outcomes
      BY <1>1, <1>3, <2>2
    <3>2. UNCHANGED inFlight
      BY <3>1 DEF Pending, Outcomes
    <3> QED BY <1>2, <2>2, <3>1, <3>2
  <2> QED BY <2>1, <2>2
<1>6. CacheInv'
  <2> SUFFICES ASSUME NEW t \in Schemas, NEW l \in Slots
               PROVE  /\ phase'[<<t, l>>] = "sent" => t \notin cache'
                      /\ phase'[<<t, l>>] \in {"missing", "error"} => t \notin cache' \ Broken
    BY DEF CacheInv
  <2>1. CASE t # s
    BY <1>1, <2>1 DEF RegistryInv, CacheInv
  <2>2. CASE t = s /\ l = k
    BY <1>1, <2>2 DEF Outcomes
  <2>3. CASE t = s /\ l # k
    BY <1>1, <1>3, <2>3 DEF Pending, Outcomes
  <2> QED BY <2>1, <2>2, <2>3
<1>7. MissingInv'
  BY <1>1 DEF RegistryInv, MissingInv, OnlyMissingAreCondemned
<1> QED BY <1>5, <1>6, <1>7

(* Every step of a request keeps the invariant.                            *)
LEMMA RequestStepKeeps ==
  ASSUME RegistryInv, NEW r \in Requests, RequestStep(r)
  PROVE  RegistryInv'
<1>1. PICK s \in Schemas, k \in Slots : r = <<s, k>> /\ r[1] = s
  BY DEF Requests
<1>2. Compiled(s) \in Outcomes /\ (Compiled(s) # "type" => s \in Broken) /\ Compiled(s) # "missing"
  BY DEF Compiled, Outcomes
<1>3. /\ phase \in [Requests -> Phases] /\ attempts \in [Requests -> 0..MaxAttempts]
      /\ AttemptInv
  BY DEF RegistryInv, TypeOK
<1>4. CASE Attempt(r)
  <2>1. phase[r] = "due" /\ attempts' = [attempts EXCEPT ![r] = @ + 1]
        /\ UNCHANGED <<registered, cache, notFound, inFlight>>
    BY <1>4 DEF Attempt
  <2>2. attempts[r] \in Nat /\ attempts[r] + 1 \in 0..MaxAttempts
    BY <1>3, <2>1 DEF AttemptInv
  <2>3. PICK p \in Phases :
          /\ phase' = [phase EXCEPT ![r] = p]
          /\ awaits' \in [Callers -> [Schemas -> {"no"} \cup Slots \cup Outcomes]]
          /\ (p = "sent" /\ s \notin cache) \/ (p = Compiled(s) /\ s \in cache)
    <3>1. CASE s \in cache /\ Settle(r, Compiled(s))
      BY <3>1, <1>2, SettleType DEF RegistryInv, Phases
    <3>2. CASE s \notin cache /\ Goto(r, "sent") /\ UNCHANGED awaits
      <4>1. "sent" \in Phases
        BY DEF Phases, Pending
      <4>2. awaits' \in [Callers -> [Schemas -> {"no"} \cup Slots \cup Outcomes]]
        BY <3>2 DEF RegistryInv, TypeOK
      <4> QED BY <3>2, <4>1, <4>2 DEF Goto
    <3> QED BY <1>1, <1>4, <3>1, <3>2 DEF Attempt
  <2>4. MapInv' /\ CacheInv' /\ MissingInv'
    BY <1>1, <1>2, <2>1, <2>3, MoveKeeps DEF Pending, Outcomes
  <2>5. TypeOK'
    BY <1>3, <2>1, <2>2, <2>3 DEF RegistryInv, TypeOK
  <2>6. AttemptInv'
    BY <1>2, <1>3, <2>1, <2>3 DEF AttemptInv, Outcomes
  <2> QED BY <2>4, <2>5, <2>6 DEF RegistryInv
<1>5. CASE Answer(r)
  <2>1. phase[r] = "sent" /\ UNCHANGED <<registered, notFound, inFlight, attempts>>
    BY <1>5 DEF Answer
  <2>2. s \notin cache
    BY <1>1, <2>1 DEF RegistryInv, CacheInv
  <2>3. PICK p \in Phases :
          /\ phase' = [phase EXCEPT ![r] = p]
          /\ awaits' \in [Callers -> [Schemas -> {"no"} \cup Slots \cup Outcomes]]
          /\ \/ s \in registered /\ p = Compiled(s) /\ cache' = cache \cup {s}
             \/ s \notin registered /\ p = "missing" /\ cache' = cache
             \/ p = "due" /\ attempts[r] < MaxAttempts /\ cache' = cache
             \/ p = "error" /\ cache' = cache
    <3>1. CASE s \in registered /\ cache' = cache \cup {s} /\ Settle(r, Compiled(s))
      BY <3>1, <1>2, SettleType DEF RegistryInv, Phases
    <3>2. CASE Settle(r, "error") /\ UNCHANGED cache
      BY <3>2, SettleType DEF RegistryInv, Phases, Outcomes
    <3>3. CASE s \notin registered /\ Settle(r, "missing") /\ UNCHANGED cache
      BY <3>3, SettleType DEF RegistryInv, Phases, Outcomes
    <3>4. CASE MayRetry(r) /\ Goto(r, "due") /\ UNCHANGED <<awaits, cache>>
      BY <3>4 DEF MayRetry, Goto, RegistryInv, TypeOK, Phases, Pending
    <3> QED BY <1>1, <1>5, <3>1, <3>2, <3>3, <3>4 DEF Answer
  <2>4. s \in Always => s \in registered
    BY DEF RegistryInv, MissingInv
  <2>5. MapInv' /\ CacheInv' /\ MissingInv'
    <3>1. phase[<<s, k>>] \in Pending \cup Outcomes
      BY <1>1, <2>1 DEF Pending
    <3>2. CASE cache' = cache
      <4>1. p \in {"missing", "forgotten"} => s \notin Always
        BY <1>2, <2>3, <2>4, <3>2 DEF Outcomes
      <4>2. p # "sent"
        BY <1>2, <2>3 DEF Outcomes
      <4> QED BY <1>1, <2>1, <2>2, <2>3, <3>1, <3>2, <4>1, <4>2, MoveKeeps
    <3>3. CASE cache' = cache \cup {s} /\ p = Compiled(s)
      BY <1>1, <1>2, <2>1, <2>2, <2>3, <3>1, <3>3, MoveKeeps DEF Outcomes
    <3> QED BY <2>3, <3>2, <3>3
  <2>6. cache' \subseteq registered'
    BY <2>1, <2>3 DEF RegistryInv, TypeOK
  <2>7. TypeOK'
    BY <1>3, <2>1, <2>3, <2>6 DEF RegistryInv, TypeOK
  <2>8. AttemptInv'
    BY <1>2, <1>3, <2>1, <2>3 DEF AttemptInv, Outcomes
  <2> QED BY <2>5, <2>7, <2>8 DEF RegistryInv
<1>6. CASE Forget(r)
  <2>1. /\ phase[r] \in Outcomes
        /\ inFlight' = [inFlight EXCEPT ![s] = NoSlot]
        /\ attempts' = [attempts EXCEPT ![r] = 0]
        /\ UNCHANGED <<registered, cache, notFound, awaits>>
    BY <1>1, <1>6 DEF Forget
  <2>2. PICK p \in {"free", "forgotten"} :
          phase' = [phase EXCEPT ![r] = p] /\ (p = "forgotten" => phase[r] = "missing")
    BY <1>6 DEF Forget, Goto
  <2>3. phase[r] = "missing" => s \notin Always
    BY <1>1 DEF RegistryInv, MissingInv
  <2>4. MapInv' /\ CacheInv' /\ MissingInv'
    BY <1>1, <2>1, <2>2, <2>3, MoveKeeps DEF Phases
  <2>5. TypeOK'
    BY <1>1, <1>3, <2>1, <2>2 DEF RegistryInv, TypeOK, Phases
  <2>6. AttemptInv'
    BY <1>3, <2>1, <2>2 DEF AttemptInv
  <2> QED BY <2>4, <2>5, <2>6 DEF RegistryInv
<1>7. CASE Condemn(r)
  <2>1. /\ phase[r] = "forgotten"
        /\ notFound' = notFound \cup {s}
        /\ phase' = [phase EXCEPT ![r] = "free"]
        /\ UNCHANGED <<registered, cache, inFlight, attempts, awaits>>
    BY <1>1, <1>7 DEF Condemn, Goto
  <2>2. s \notin Always
    BY <1>1, <2>1 DEF RegistryInv, MissingInv
  <2>3. \A q \in Requests : phase'[q] = "free" \/ phase'[q] = phase[q]
    BY <1>3, <2>1
  <2>4. \A t \in Schemas, l \in Slots : phase'[<<t, l>>] = "free" \/ phase'[<<t, l>>] = phase[<<t, l>>]
    BY <2>3 DEF Requests
  <2>5. MapInv' /\ CacheInv' /\ MissingInv'
    BY <2>1, <2>2, <2>4 DEF RegistryInv, MapInv, CacheInv, MissingInv,
       OnlyMissingAreCondemned, Pending, Outcomes
  <2>6. TypeOK' /\ AttemptInv'
    BY <1>3, <2>1 DEF RegistryInv, TypeOK, AttemptInv, Phases
  <2> QED BY <2>5, <2>6 DEF RegistryInv
<1> QED BY <1>4, <1>5, <1>6, <1>7 DEF RequestStep

(* Every step keeps the invariant.                                         *)
LEMMA RegistryInvStep == RegistryInv /\ [Next]_vars => RegistryInv'
<1> SUFFICES ASSUME RegistryInv, [Next]_vars PROVE RegistryInv'
  OBVIOUS
<1> USE DEF RegistryInv, TypeOK, AttemptInv, MapInv, CacheInv, MissingInv, OnlyMissingAreCondemned
<1>1. ASSUME NEW c \in Callers, Resume(c) PROVE RegistryInv'
  BY <1>1 DEF Resume, requestVars
<1>2. ASSUME NEW c \in Callers, NEW asked \in SUBSET Schemas \ {{}}, Ask(c, asked)
      PROVE  RegistryInv'
  <2> USE <1>2
  <2> HIDE DEF RegistryInv
  <2> QED BY AskKeeps
<1>3. ASSUME NEW r \in Requests, RequestStep(r) PROVE RegistryInv'
  <2> HIDE DEF RegistryInv
  <2> QED BY <1>3, RequestStepKeeps
<1>4. ASSUME NEW s \in Schemas, Register(s) PROVE RegistryInv'
  BY <1>4 DEF Register, requestVars
<1>5. ASSUME NEW s \in Schemas, Expire(s) PROVE RegistryInv'
  BY <1>5 DEF Expire, requestVars
<1>6. CASE UNCHANGED vars
  BY <1>6 DEF vars
<1> QED BY <1>1, <1>2, <1>3, <1>4, <1>5, <1>6 DEF Next

(* The invariant holds throughout.                                         *)
LEMMA RegistryInvHolds == Spec => []RegistryInv
<1> QED BY RegistryInvInit, RegistryInvStep, PTL DEF Spec

(* Type correctness, the bound of attempts included: backOff of            *)
(* SchemaRegistry.ts:364-379 never makes more than maxFetchSchemaAttempts. *)
THEOREM TypeCorrect == Spec => []TypeOK
<1>1. RegistryInv => TypeOK
  BY DEF RegistryInv
<1> QED BY <1>1, RegistryInvHolds, PTL

(* Callers of one schema share one request: Glue is never asked twice at a *)
(* time for a schema, nor for one that is cached                           *)
(* (SchemaRegistry.ts:351-387).                                            *)
THEOREM FetchesAreShared == Spec => []OneFetchPerSchema
<1>1. RegistryInv => OneFetchPerSchema
  BY DEF RegistryInv, MapInv, CacheInv, OneFetchPerSchema
<1> QED BY <1>1, RegistryInvHolds, PTL

(* No failure but EntityNotFound makes a schema missing for good           *)
(* (SchemaRegistry.ts:388-394).                                            *)
THEOREM KnownSchemasStayAvailable == Spec => []OnlyMissingAreCondemned
<1>1. RegistryInv => OnlyMissingAreCondemned
  BY DEF RegistryInv, MissingInv
<1> QED BY <1>1, RegistryInvHolds, PTL

(* While a definition is cached, whoever asks for it gets its type,        *)
(* whatever Glue does (SchemaRegistry.ts:366-372).                         *)
THEOREM CacheShieldsCallers == Spec => CachedIsServed
<1> DEFINE Served(c, s) ==
      awaits[c][s] \notin Outcomes /\ awaits'[c][s] \in Outcomes => awaits'[c][s] = "type"
<1>1. ASSUME RegistryInv, RegistryInv', [Next]_vars,
             NEW c \in Callers, NEW s \in cache \ (Broken \cup notFound)
      PROVE  Served(c, s)
  <2>0. s \in Schemas /\ awaits \in [Callers -> [Schemas -> {"no"} \cup Slots \cup Outcomes]]
    BY <1>1 DEF RegistryInv, TypeOK
  <2>1. ASSUME NEW d \in Callers, NEW asked \in SUBSET Schemas, Ask(d, asked) PROVE Served(c, s)
    <3>1. awaits' = [awaits EXCEPT ![d] = [t \in Schemas |-> IF t \in asked THEN Asked(t) ELSE "no"]]
          /\ \A t \in asked : IsFresh(t) => FreeSlots(t) # {}
      BY <2>1 DEF Ask
    <3>2. CASE c = d /\ s \in asked
      <4>1. awaits'[c][s] = Asked(s)
        BY <2>0, <3>1, <3>2
      <4>2. CASE IsFresh(s)
        <5>0. PICK k \in Slots : NewRequest(s) = <<s, k>>
          BY <2>0, <3>1, <3>2, <4>2, NewRequestIsFree
        <5>1. NewRequest(s)[2] \in Slots
          BY <5>0
        <5>2. Asked(s) \notin Outcomes
          BY <4>2, <5>1 DEF Asked, IsFresh
        <5> QED BY <4>1, <5>2
      <4>3. CASE ~IsFresh(s) /\ s \in Hardcoded
        BY <4>1, <4>3 DEF Asked, Outcomes
      <4>4. CASE ~IsFresh(s) /\ s \notin Hardcoded
        <5>1. inFlight[s] \in Slots
          BY <1>1, <2>0, <4>4 DEF IsFresh, RegistryInv, TypeOK
        <5>2. phase[<<s, inFlight[s]>>] \in Outcomes => phase[<<s, inFlight[s]>>] = "type"
          BY <1>1, <2>0, <5>1 DEF RegistryInv, CacheInv, Outcomes
        <5>3. Asked(s) = IF phase[<<s, inFlight[s]>>] \in Outcomes
                           THEN phase[<<s, inFlight[s]>>] ELSE inFlight[s]
          BY <1>1, <4>4 DEF Asked
        <5> QED BY <4>1, <5>1, <5>2, <5>3
      <4> QED BY <4>2, <4>3, <4>4
    <3>3. CASE c = d /\ s \notin asked
      BY <2>0, <3>1, <3>3 DEF Outcomes
    <3>4. CASE c # d
      BY <2>0, <3>1, <3>4
    <3> QED BY <3>2, <3>3, <3>4
  <2>2. ASSUME NEW r \in Requests, NEW o \in Outcomes, Settle(r, o),
               r[1] = s => o = "type"
        PROVE  Served(c, s)
    <3>1. awaits'[c][s] = IF <<s, awaits[c][s]>> = r THEN o ELSE awaits[c][s]
      BY <2>0, <2>2 DEF Settle
    <3>2. <<s, awaits[c][s]>> = r => r[1] = s
      OBVIOUS
    <3> QED BY <2>2, <3>1, <3>2
  <2>3. ASSUME NEW r \in Requests, RequestStep(r) PROVE Served(c, s)
    <3>1. PICK t \in Schemas, k \in Slots : r = <<t, k>> /\ r[1] = t
      BY DEF Requests
    <3>2. Compiled(t) \in Outcomes /\ (t = s => Compiled(t) = "type")
      BY DEF Compiled, Outcomes
    <3>3. CASE Attempt(r)
      BY <2>2, <3>1, <3>2, <3>3 DEF Attempt
    <3>4. CASE Answer(r)
      <4>1. t # s
        BY <1>1, <3>1, <3>4 DEF Answer, RegistryInv, CacheInv
      <4> QED BY <2>2, <3>1, <3>2, <3>4, <4>1 DEF Answer, Outcomes
    <3>5. CASE Forget(r) \/ Condemn(r)
      BY <3>5 DEF Forget, Condemn
    <3> QED BY <2>3, <3>3, <3>4, <3>5 DEF RequestStep
  <2>4. ASSUME NEW d \in Callers, Resume(d) PROVE Served(c, s)
    <3>1. awaits'[c][s] = "no" \/ awaits'[c][s] = awaits[c][s]
      BY <2>0, <2>4 DEF Resume
    <3> QED BY <3>1 DEF Outcomes
  <2>5. ASSUME UNCHANGED awaits PROVE Served(c, s)
    BY <2>5
  <2> QED BY <1>1, <2>1, <2>3, <2>4, <2>5 DEF Next, vars, Register, Expire
<1>2. RegistryInv /\ RegistryInv' /\ [Next]_vars =>
        [\A c \in Callers : \A s \in cache \ (Broken \cup notFound) :
           awaits[c][s] \notin Outcomes /\ awaits'[c][s] \in Outcomes
             => awaits'[c][s] = "type"]_vars
  BY <1>1
<1> QED BY <1>2, RegistryInvHolds, PTL DEF Spec, CachedIsServed
=============================================================================
