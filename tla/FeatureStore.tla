----------------------------- MODULE FeatureStore -----------------------------
(***************************************************************************)
(* The user_features collection under a stream of validated events: one    *)
(* document per (user_key, business_name), one atomic updateOne per event. *)
(* Events take effect in any order: the partitions of a topic, redelivery  *)
(* and producers' clocks do not keep event_ts_ms monotone.                 *)
(***************************************************************************)
EXTENDS FeatureUpdate, FiniteSetsExt

CONSTANTS
  Events,       \* the events that may arrive, each any number of times
  StrictStore,  \* whether the store refuses an update with duplicate paths
  MaxUpserts    \* bound on the number of upserts

(* What the validator lets through (schemas.ts, baseEventSchema): the      *)
(* required fields are not empty, the others may be.                       *)
ASSUME EventsAssumption ==
  \A e \in Events :
    /\ e.type \in Seq(STRING) \ {<<>>}
    /\ e.id # "" /\ e.anon # ""
    /\ e.ts \in Nat
    /\ e.price \in Int /\ e.priced \in BOOLEAN
ASSUME StrictStoreAssumption == StrictStore \in BOOLEAN
ASSUME MaxUpsertsAssumption == MaxUpserts \in Nat

VARIABLES
  docs,     \* key -> the document, NoFields if there is none
  history,  \* key -> the events whose update took effect, in that order
  refused,  \* events whose update the store refused
  upserts

vars == <<docs, history, refused, upserts>>

Keys == {ResolveKey(e) : e \in Events}

(* No field of a document is a value and an object at once.                *)
Tree(doc) == \A x, y \in DOMAIN doc : x # y => ~Overlap(x, y)

TypeOK ==
  /\ DOMAIN docs = Keys
  /\ \A k \in Keys : Tree(docs[k])
  /\ history \in [Keys -> Seq(Events)]
  /\ refused \subseteq Events
  /\ upserts \in 0..MaxUpserts

Init ==
  /\ docs = [k \in Keys |-> NoFields]
  /\ history = [k \in Keys |-> <<>>]
  /\ refused = {}
  /\ upserts = 0

(* FeatureService.process.                                                 *)
Process(e) ==
  LET k == ResolveKey(e)
      u == FinalUpdate(e)
      rejected == (StrictStore /\ DuplicatePaths(u)) \/ ShapeClash(docs[k], u)
  IN
  /\ upserts < MaxUpserts
  /\ upserts' = upserts + 1
  /\ \/ /\ ~rejected
        /\ docs' = [docs EXCEPT ![k] = ApplyUpdate(@, u)]
        /\ history' = [history EXCEPT ![k] = Append(@, e)]
        /\ UNCHANGED refused
     \/ /\ rejected
        /\ refused' = refused \cup {e}
        /\ UNCHANGED <<docs, history>>

Idle == upserts = MaxUpserts /\ UNCHANGED vars

Next == (\E e \in Events : Process(e)) \/ Idle

Spec == Init /\ [][Next]_vars
-----------------------------------------------------------------------------
(* A reference reading of a document, from the events that took effect.    *)
Reads(doc, name, value) == Field(name) \in DOMAIN doc /\ doc[Field(name)] = value
Lacks(doc, name) == Field(name) \notin DOMAIN doc

Counter(doc, path) == IF path \in DOMAIN doc THEN doc[path] ELSE 0

Stored == {k \in Keys : history[k] # <<>>}

(* What the history h of a document adds up to.                            *)
NumberOf(h, type) == Cardinality({i \in DOMAIN h : h[i].type = type})

PriceOf(e) == IF e.type = PURCHASE /\ e.priced THEN e.price ELSE 0

Spent(h) ==
  LET upTo[i \in 0..Len(h)] == IF i = 0 THEN 0 ELSE upTo[i - 1] + PriceOf(h[i])
  IN upTo[Len(h)]

TimesOf(h, type) == {h[i].ts : i \in {j \in DOMAIN h : h[j].type = type}}

Currencies(h) == {h[i].currency : i \in {j \in DOMAIN h : h[j].type = PURCHASE}} \ {""}

Detailed(h, type) == {i \in DOMAIN h : h[i].type = type /\ h[i].detail # ""}
Identified(h) == {i \in DOMAIN h : h[i].user # ""}

(* Every counter of a document is the number of events behind it: the      *)
(* total, the count per type and the count kept by the type's builder,     *)
(* with the prices summed, so the total is the sum over the types          *)
(* (core.builder.ts:37-40, the other builders, builder.interface.ts:60-66).*)
CountersMatchHistory ==
  \A k \in Stored :
    LET doc == docs[k]
        h == history[k]
    IN
    /\ Reads(doc, "total_events", Len(h))
    /\ \A type \in {e.type : e \in Events} :
         Counter(doc, CountOf(type)) = NumberOf(h, type)
    /\ Counter(doc, <<"purchase_count">>) = NumberOf(h, PURCHASE)
    /\ Counter(doc, <<"cart_adds_count">>) = NumberOf(h, ADD_TO_CART)
    /\ Counter(doc, <<"login_count">>) = NumberOf(h, USER_LOGIN)
    /\ Counter(doc, <<"search_count">>) = NumberOf(h, SEARCH)
    /\ Counter(doc, <<"lifetime_value">>) = Spent(h)

(* Every timestamp is an extreme over the events behind it, whatever order *)
(* they arrived in, and the sets hold every value seen; first_seen_ts      *)
(* alone depends on the order, being that of the event processed first     *)
(* (core.builder.ts:35,41, signup.builder.ts:25-27, builder.interface.ts:  *)
(* 67-83).                                                                 *)
LatestIn(doc, name, times) ==
  IF times = {} THEN Lacks(doc, name) ELSE Reads(doc, name, Max(times))

ExtremesMatchHistory ==
  \A k \in Stored :
    LET doc == docs[k]
        h == history[k]
        signups == TimesOf(h, USER_SIGNUP)
    IN
    /\ LatestIn(doc, "last_seen_ts", {h[i].ts : i \in DOMAIN h})
    /\ Reads(doc, "first_seen_ts", h[1].ts)
    /\ LatestIn(doc, "last_purchase_at", TimesOf(h, PURCHASE))
    /\ LatestIn(doc, "last_cart_at", TimesOf(h, ADD_TO_CART))
    /\ LatestIn(doc, "last_login_at", TimesOf(h, USER_LOGIN))
    /\ LatestIn(doc, "last_search_at", TimesOf(h, SEARCH))
    /\ IF signups = {} THEN Lacks(doc, "signed_up_at")
       ELSE Reads(doc, "signed_up_at", Min(signups))
    /\ IF Currencies(h) = {} THEN Lacks(doc, "currencies")
       ELSE Reads(doc, "currencies", Currencies(h))

(* A field that keeps the last value keeps it across events that lack it:  *)
(* absent fields never blow a value away, and nothing another type sends   *)
(* reaches it (core.builder.ts:26-32).  Of signup_method this says only    *)
(* that it is that of some signup, for code and comment disagree on which: *)
(* the comment has it stored "on first sight only" (signup.builder.ts:9-10), *)
(* the code replaces it with every signup (28-30).                         *)
LastDetail(doc, name, h, type) ==
  IF Detailed(h, type) = {} THEN Lacks(doc, name)
  ELSE Reads(doc, name, h[Max(Detailed(h, type))].detail)

LastValuesAreKept ==
  \A k \in Stored :
    LET doc == docs[k]
        h == history[k]
    IN
    /\ Reads(doc, "last_event_id", Last(h).id)
    /\ Reads(doc, "last_event_type", Last(h).type)
    /\ LastDetail(doc, "last_order_id", h, PURCHASE)
    /\ LastDetail(doc, "last_product_added", h, ADD_TO_CART)
    /\ LastDetail(doc, "last_login_method", h, USER_LOGIN)
    /\ LastDetail(doc, "last_search_query", h, SEARCH)
    /\ IF Detailed(h, USER_SIGNUP) = {} THEN Lacks(doc, "signup_method")
       ELSE \E i \in Detailed(h, USER_SIGNUP) : Reads(doc, "signup_method", h[i].detail)
    /\ Reads(doc, "anonymous_id", Last(h).anon)
    /\ IF Identified(h) = {} THEN Lacks(doc, "user_id")
       ELSE Reads(doc, "user_id", h[Max(Identified(h))].user)

(* A document belongs to the identity it is filed under: its user_key is   *)
(* its user_id when it has one, and one of the anonymous ids behind it     *)
(* otherwise (feature.service.ts:36-57, feature.repository.ts:62-67).      *)
FiledUnderIdentity ==
  \A k \in Stored :
    /\ Reads(docs[k], "user_key", k.user_key)
    /\ Reads(docs[k], "business_name", k.business_name)
    /\ Lacks(docs[k], "user_id") \/ Reads(docs[k], "user_id", k.user_key)
    /\ Lacks(docs[k], "user_id") => Reads(docs[k], "anonymous_id", k.user_key)

(* What feature.repository.ts:71-73 says of the update it builds: no field *)
(* of $set is duplicated in $setOnInsert, so no update is refused for that.*)
NoDuplicateFields == \A e \in refused : ~DuplicatePaths(FinalUpdate(e))
=============================================================================
