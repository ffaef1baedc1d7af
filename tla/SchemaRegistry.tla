---------------------------- MODULE SchemaRegistry ----------------------------
(***************************************************************************)
(* The schema registry client (kafka/SchemaRegistry.ts): callers that      *)
(* decode a message or encode a batch ask for the compiled types of schema *)
(* versions; concurrent questions about one schema share a request, which  *)
(* looks in the in-memory cache and asks Glue, with retries.  Schemas Glue *)
(* does not know are remembered and not asked for again.                   *)
(*                                                                         *)
(* When a request settles, three promise callbacks follow one another: its *)
(* callers resume, .finally removes it from the in-flight map, and .catch  *)
(* records a missing schema.  Other callbacks run in between; answers of   *)
(* Glue, which are events of the loop, do not.                             *)
(***************************************************************************)
EXTENDS Integers, FiniteSets

CONSTANTS
  Callers,
  Schemas,
  Hardcoded,    \* HARDCODED_SCHEMA_TYPES
  Always,       \* schemas Glue knows from the start
  Broken,       \* schemas whose definition Type.forSchema refuses
  Slots,        \* bound on the requests of one schema at the same time
  NoSlot,
  MaxAttempts,  \* maxFetchSchemaAttempts
  MaxKeys       \* maxKeys of the in-memory cache

ASSUME SchemasAssumption ==
  /\ IsFiniteSet(Schemas)
  /\ Hardcoded \cup Always \cup Broken \subseteq Schemas
  /\ Hardcoded \cap Always = {}
ASSUME BoundsAssumption == MaxAttempts \in Nat \ {0} /\ MaxKeys \in Nat

Outcomes == {"type", "missing", "error"}

ASSUME SlotsAssumption == NoSlot \notin Slots /\ Slots \cap (Outcomes \cup {"no"}) = {}

(* A request: the schema asked for, and which of its overlapping requests. *)
Requests == Schemas \X Slots

(* The phases of a request: an attempt is due, Glue has been asked, the    *)
(* promise has settled, or it has left the in-flight map with the missing  *)
(* schema not yet recorded.                                                *)
Pending == {"due", "sent"}
Phases == {"free", "forgotten"} \cup Pending \cup Outcomes

VARIABLES
  registered,  \* what Glue knows
  cache,       \* schemas with a definition in inMemoryCacheWrapper
  notFound,    \* notFoundSchemas
  inFlight,    \* inFlightRequests
  phase, attempts,
  awaits       \* caller -> schema -> "no", the slot awaited, or the outcome

vars == <<registered, cache, notFound, inFlight, phase, attempts, awaits>>
requestVars == <<phase, attempts>>

TypeOK ==
  /\ registered \subseteq Schemas
  /\ cache \subseteq registered
  /\ notFound \subseteq Schemas
  /\ inFlight \in [Schemas -> Slots \cup {NoSlot}]
  /\ phase \in [Requests -> Phases]
  /\ attempts \in [Requests -> 0..MaxAttempts]
  /\ awaits \in [Callers -> [Schemas -> {"no"} \cup Slots \cup Outcomes]]

Init ==
  /\ registered \in {known \in SUBSET (Schemas \ Hardcoded) : Always \subseteq known}
  /\ cache = {}
  /\ notFound = {}
  /\ inFlight = [s \in Schemas |-> NoSlot]
  /\ phase = [r \in Requests |-> "free"]
  /\ attempts = [r \in Requests |-> 0]
  /\ awaits = [c \in Callers |-> [s \in Schemas |-> "no"]]

(* Mutant: the in-flight map is not consulted.                             *)
IsFreshUnjoined(s) == s \notin Hardcoded \cup notFound

(* Whether fetchSchemaType(s) starts a request of its own.                 *)
IsFresh(s) == s \notin Hardcoded \cup notFound /\ inFlight[s] = NoSlot

FreeSlots(s) == {k \in Slots : phase[<<s, k>>] = "free"}
NewRequest(s) == <<s, CHOOSE k \in FreeSlots(s) : TRUE>>

(* What fetchSchemaType(s) leaves its caller with: nothing to wait for, a  *)
(* refusal at once, or the request that is now, or already was, in flight. *)
Asked(s) ==
  CASE s \in Hardcoded -> "no"
    [] s \in notFound \ Hardcoded -> "missing"
    [] IsFresh(s) -> NewRequest(s)[2]
    [] OTHER -> IF phase[<<s, inFlight[s]>>] \in Outcomes
                  THEN phase[<<s, inFlight[s]>>] ELSE inFlight[s]

(* decodeMessage asks for one schema, encodeMessages for all of a batch in *)
(* one go.                                                                 *)
Ask(c, asked) ==
  LET fresh == {s \in asked : IsFresh(s)}
      new == {NewRequest(s) : s \in fresh}
  IN
  /\ \A s \in Schemas : awaits[c][s] = "no"
  /\ \A s \in fresh : FreeSlots(s) # {}
  /\ inFlight' = [s \in Schemas |-> IF s \in fresh THEN NewRequest(s)[2] ELSE inFlight[s]]
  /\ phase' = [r \in Requests |-> IF r \in new THEN "due" ELSE phase[r]]
  /\ awaits' = [awaits EXCEPT ![c] = [s \in Schemas |-> IF s \in asked THEN Asked(s) ELSE "no"]]
  /\ UNCHANGED <<registered, cache, notFound, attempts>>

(* Promise.all: the caller goes on with the first failure, or with all the *)
(* types.                                                                  *)
Resume(c) ==
  /\ \E s \in Schemas : awaits[c][s] # "no"
  /\ \/ \E s \in Schemas : awaits[c][s] \in {"missing", "error"}
     \/ \A s \in Schemas : awaits[c][s] \in {"no", "type"}
  /\ awaits' = [awaits EXCEPT ![c] = [s \in Schemas |-> "no"]]
  /\ UNCHANGED <<registered, cache, notFound, inFlight, requestVars>>

Goto(r, label) == phase' = [phase EXCEPT ![r] = label]

(* The promise of request r settles; whoever awaits it has the outcome.    *)
Settle(r, outcome) ==
  /\ Goto(r, outcome)
  /\ awaits' = [c \in Callers |-> [s \in Schemas |->
       IF <<s, awaits[c][s]>> = r THEN outcome ELSE awaits[c][s]]]

Compiled(s) == IF s \in Broken THEN "error" ELSE "type"

(* Mutant: attempts are not counted.                                       *)
AttemptUncounted(r) ==
  /\ phase[r] = "due"
  /\ IF r[1] \in cache THEN Settle(r, Compiled(r[1])) ELSE Goto(r, "sent") /\ UNCHANGED awaits
  /\ UNCHANGED <<registered, cache, notFound, inFlight, attempts>>

(* An attempt of backOff: getValue answers from the cache or asks Glue.    *)
Attempt(r) ==
  /\ phase[r] = "due"
  /\ attempts' = [attempts EXCEPT ![r] = @ + 1]
  /\ \/ r[1] \in cache /\ Settle(r, Compiled(r[1]))
     \/ r[1] \notin cache /\ Goto(r, "sent") /\ UNCHANGED awaits
  /\ UNCHANGED <<registered, cache, notFound, inFlight>>

(* No promise callback is waiting to run: the event loop can go on.        *)
CallbacksRun == \A r \in Requests : phase[r] \notin Outcomes \cup {"forgotten"}

MayRetry(r) == attempts[r] < MaxAttempts

(* Glue answers with the definition, which set() refuses when the cache is *)
(* full; with EntityNotFound; with an error that is retried (throttling,   *)
(* 5xx); or with one that is not.                                          *)
Answer(r) ==
  /\ phase[r] = "sent"
  /\ CallbacksRun
  /\ \/ /\ r[1] \in registered
        /\ \/ /\ Cardinality(cache) < MaxKeys
              /\ cache' = cache \cup {r[1]}
              /\ Settle(r, Compiled(r[1]))
           \/ /\ Cardinality(cache) >= MaxKeys
              /\ Settle(r, "error")
              /\ UNCHANGED cache
     \/ r[1] \notin registered /\ Settle(r, "missing") /\ UNCHANGED cache
     \/ MayRetry(r) /\ Goto(r, "due") /\ UNCHANGED <<awaits, cache>>
     \/ Settle(r, "error") /\ UNCHANGED cache
  /\ UNCHANGED <<registered, notFound, inFlight, attempts>>

(* Mutant: every failure is recorded as a missing schema.                  *)
ForgetFailures(r) ==
  /\ phase[r] \in Outcomes
  /\ inFlight' = [inFlight EXCEPT ![r[1]] = NoSlot]
  /\ Goto(r, IF phase[r] = "type" THEN "free" ELSE "forgotten")
  /\ attempts' = [attempts EXCEPT ![r] = 0]
  /\ UNCHANGED <<registered, cache, notFound, awaits>>

(* .finally: the entry of the schema leaves the in-flight map.             *)
Forget(r) ==
  /\ phase[r] \in Outcomes
  /\ inFlight' = [inFlight EXCEPT ![r[1]] = NoSlot]
  /\ Goto(r, IF phase[r] = "missing" THEN "forgotten" ELSE "free")
  /\ attempts' = [attempts EXCEPT ![r] = 0]
  /\ UNCHANGED <<registered, cache, notFound, awaits>>

(* .catch: the missing schema is recorded.                                 *)
Condemn(r) ==
  /\ phase[r] = "forgotten"
  /\ notFound' = notFound \cup {r[1]}
  /\ Goto(r, "free")
  /\ UNCHANGED <<registered, cache, inFlight, attempts, awaits>>

(* A schema version is registered with Glue; the hardcoded ones are not.   *)
Register(s) ==
  /\ s \notin registered \cup Hardcoded
  /\ registered' = registered \cup {s}
  /\ UNCHANGED <<cache, notFound, inFlight, requestVars, awaits>>

(* The stdTTL of a cached definition is over.                              *)
Expire(s) ==
  /\ s \in cache
  /\ CallbacksRun
  /\ cache' = cache \ {s}
  /\ UNCHANGED <<registered, notFound, inFlight, requestVars, awaits>>

RequestStep(r) == Attempt(r) \/ Answer(r) \/ Forget(r) \/ Condemn(r)

Next ==
  \/ \E c \in Callers : Resume(c) \/ \E asked \in SUBSET Schemas \ {{}} : Ask(c, asked)
  \/ \E r \in Requests : RequestStep(r)
  \/ \E s \in Schemas : Register(s) \/ Expire(s)

Spec == Init /\ [][Next]_vars

(* Promise callbacks and timers run, and every call to Glue is answered or *)
(* given up by its client.  CallbacksRun is false only for the few         *)
(* callbacks between two events of the loop, so an answer that is there is *)
(* delivered in the end: strong fairness.                                  *)
FairSpec ==
  /\ Spec
  /\ \A c \in Callers : WF_vars(Resume(c))
  /\ \A r \in Requests : SF_vars(RequestStep(r))
-----------------------------------------------------------------------------
(* Whoever asks, and however answers, callbacks and expiries interleave,   *)
(* Glue is never asked for a schema that is being fetched or is cached     *)
(* (SchemaRegistry.ts:244, 351-387).                                       *)
OneFetchPerSchema ==
  \A s \in Schemas :
    /\ \A k, l \in Slots : phase[<<s, k>>] \in Pending /\ phase[<<s, l>>] \in Pending => k = l
    /\ \A k \in Slots : phase[<<s, k>>] = "sent" => s \notin cache

(* Throttling, refused access, a full cache, or a definition that does not *)
(* compile never make a schema count as missing for the rest of the        *)
(* process: only a schema Glue did not know can end in notFoundSchemas     *)
(* (SchemaRegistry.ts:247-249, 388-394).                                   *)
OnlyMissingAreCondemned == notFound \cap Always = {}

(* While a definition is cached no caller is told otherwise, although Glue *)
(* may be failing at the same time: a request that settles with an error   *)
(* has not raced one that succeeded (SchemaRegistry.ts:366-372).  Not of a *)
(* schema recorded as missing, which is refused before the cache is asked  *)
(* (345-348), nor of a definition that does not compile, cached or not.    *)
CachedIsServed ==
  [][\A c \in Callers : \A s \in cache \ (Broken \cup notFound) :
       awaits[c][s] \notin Outcomes /\ awaits'[c][s] \in Outcomes => awaits'[c][s] = "type"]_vars

(* Every caller is answered, however Glue fails: attempts are bounded, and *)
(* no caller joins a request that will not settle                          *)
(* (SchemaRegistry.ts:351-379).                                            *)
EveryCallerIsAnswered ==
  \A c \in Callers :
    (\E s \in Schemas : awaits[c][s] # "no") ~> (\A s \in Schemas : awaits[c][s] = "no")
=============================================================================
