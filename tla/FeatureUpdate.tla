---------------------------- MODULE FeatureUpdate ----------------------------
(***************************************************************************)
(* The pure part of the pipeline: what the builders contribute for one     *)
(* event, how the registry merges it, the update document the repository   *)
(* sends, and what the store does with it.                                 *)
(*                                                                         *)
(* A field is a path, a sequence of names: event_counts.<type> has the     *)
(* names of the event type after "event_counts", so a type with a dot in   *)
(* it is a longer path.  An operator block is a function on paths, and the *)
(* empty string stands for an absent or falsy field of an event.           *)
(*                                                                         *)
(* Of the fields that are only copied when present one of each builder is  *)
(* kept, in the event's "detail"; last_brand, last_platform, last_source   *)
(* and last_payment_method are set exactly like it.                        *)
(***************************************************************************)
EXTENDS Integers, Sequences, FiniteSets, SequencesExt

(* The types a builder specialises on (EVENT_TYPES).                       *)
PURCHASE == <<"purchase">>
ADD_TO_CART == <<"add_to_cart">>
USER_SIGNUP == <<"user_signup">>
USER_LOGIN == <<"user_login">>
SEARCH == <<"search">>

NoFields == <<>>

(* The fields of an event the builders look at.                            *)
Field(name) == <<name>>
Only(path, value) == [x \in {path} |-> value]
One(name, value) == Only(Field(name), value)
CountOf(type) == <<"event_counts">> \o type

(* f spread over g: where both have a field that of f counts.              *)
f ++ g == [x \in DOMAIN f \cup DOMAIN g |-> IF x \in DOMAIN f THEN f[x] ELSE g[x]]

(* Fields that are there under a condition.                                *)
When(condition, fields) == IF condition THEN fields ELSE NoFields

(* Mutant: absent fields are copied too.                                   *)
CopyAlways(name, value) == One(name, value)

IfPresent(name, value) == When(value # "", One(name, value))

NoUpdate ==
  [setOnInsert |-> NoFields, set |-> NoFields, inc |-> NoFields,
   max |-> NoFields, min |-> NoFields, addToSet |-> NoFields]

-----------------------------------------------------------------------------
(* The builders.  XBuild(e) is NoUpdate when supports(e) is false.         *)

(* Mutant: $set replaces the object that $inc counts in.                   *)
CoreBuildReplacingCounts(e) ==
  [NoUpdate EXCEPT
    !.set = One("last_event_id", e.id) ++ One("event_counts", e.type),
    !.inc = One("total_events", 1) ++ Only(CountOf(e.type), 1)]

CoreBuild(e) ==
  [setOnInsert |-> One("first_seen_ts", e.ts),
   set |-> One("last_event_id", e.id) ++ One("last_event_type", e.type)
           ++ IfPresent("user_id", e.user) ++ IfPresent("anonymous_id", e.anon),
   inc |-> One("total_events", 1) ++ Only(CountOf(e.type), 1),
   max |-> One("last_seen_ts", e.ts),
   min |-> NoFields, addToSet |-> NoFields]

PurchaseBuild(e) ==
  IF e.type # PURCHASE THEN NoUpdate ELSE
  [NoUpdate EXCEPT
    !.inc = One("purchase_count", 1)
            ++ When(e.priced, One("lifetime_value", e.price)),
    !.max = One("last_purchase_at", e.ts),
    !.set = IfPresent("last_order_id", e.detail),
    !.addToSet = IfPresent("currencies", e.currency)]

(* Cart, login and search count, remember when and keep one detail.        *)
ActivityBuild(e, type, count, at, detail) ==
  IF e.type # type THEN NoUpdate ELSE
  [NoUpdate EXCEPT !.inc = One(count, 1), !.max = One(at, e.ts), !.set = IfPresent(detail, e.detail)]

CartBuild(e) == ActivityBuild(e, ADD_TO_CART, "cart_adds_count", "last_cart_at", "last_product_added")
LoginBuild(e) == ActivityBuild(e, USER_LOGIN, "login_count", "last_login_at", "last_login_method")
SearchBuild(e) == ActivityBuild(e, SEARCH, "search_count", "last_search_at", "last_search_query")

(* Mutant: the last signup processed wins.                                 *)
SignupBuildLastWins(e) ==
  IF e.type # USER_SIGNUP THEN NoUpdate ELSE
  [NoUpdate EXCEPT !.set = One("signed_up_at", e.ts) ++ IfPresent("signup_method", e.detail)]

SignupBuild(e) ==
  IF e.type # USER_SIGNUP THEN NoUpdate ELSE
  [NoUpdate EXCEPT !.min = One("signed_up_at", e.ts), !.set = IfPresent("signup_method", e.detail)]

-----------------------------------------------------------------------------
(* f and g with their common fields combined by op.                        *)
Combine(op(_, _), f, g) ==
  [x \in DOMAIN f \cap DOMAIN g |-> op(f[x], g[x])] ++ f ++ g

Plus(a, b) == a + b
Larger(a, b) == IF a >= b THEN a ELSE b
Smaller(a, b) == IF a <= b THEN a ELSE b
AddTo(set, values) == set \cup values

Sums(f, g) == Combine(Plus, f, g)
Maxima(f, g) == Combine(Larger, f, g)
Minima(f, g) == Combine(Smaller, f, g)
Unions(f, g) == Combine(AddTo, f, g)

(* Mutant: the $inc block of the last builder replaces the others.         *)
MergeTwoReplacing(out, u) ==
  [setOnInsert |-> u.setOnInsert ++ out.setOnInsert,
   set |-> u.set ++ out.set,
   inc |-> IF u.inc = NoFields THEN out.inc ELSE u.inc,
   max |-> Maxima(out.max, u.max),
   min |-> Minima(out.min, u.min),
   addToSet |-> u.addToSet ++ out.addToSet]

(* mergeUpdates: the last writer wins for $setOnInsert, $set and           *)
(* $addToSet; $inc is summed, $max and $min combined.                      *)
MergeTwo(out, u) ==
  [setOnInsert |-> u.setOnInsert ++ out.setOnInsert,
   set |-> u.set ++ out.set,
   inc |-> Sums(out.inc, u.inc),
   max |-> Maxima(out.max, u.max),
   min |-> Minima(out.min, u.min),
   addToSet |-> u.addToSet ++ out.addToSet]

MergeUpdates(updates) ==
  LET merged[i \in 0..Len(updates)] ==
        IF i = 0 THEN NoUpdate ELSE MergeTwo(merged[i - 1], updates[i])
  IN merged[Len(updates)]

(* BuilderRegistry.build, in the order of initialize().                    *)
Build(e) ==
  MergeUpdates(<<CoreBuild(e), PurchaseBuild(e), CartBuild(e),
                 SignupBuild(e), LoginBuild(e), SearchBuild(e)>>)

-----------------------------------------------------------------------------
(* Mutant: the anonymous id is preferred.                                  *)
ResolveKeyAnonymous(e) == [user_key |-> e.anon, business_name |-> e.business]

(* FeatureService.resolveKey: user_id if there is one, anonymous_id (which *)
(* the validator requires) otherwise.                                      *)
ResolveKey(e) ==
  [user_key |-> IF e.user # "" THEN e.user ELSE e.anon, business_name |-> e.business]

(* FeatureRepository.upsertFeatures: the identity seed joins $setOnInsert. *)
FinalUpdate(e) ==
  LET key == ResolveKey(e)
      seed == One("user_key", key.user_key) ++ One("business_name", key.business_name)
              ++ IfPresent("user_id", e.user) ++ IfPresent("anonymous_id", e.anon)
      update == Build(e)
  IN [update EXCEPT !.setOnInsert = @ ++ seed]

-----------------------------------------------------------------------------
(* The store.                                                              *)
UpdateOperators == {"setOnInsert", "set", "inc", "max", "min", "addToSet"}

Overlap(x, y) == IsPrefix(x, y) \/ IsPrefix(y, x)

(* An update names a field twice, or a field and one inside it.            *)
DuplicatePaths(u) ==
  \E a, b \in UpdateOperators : \E x \in DOMAIN u[a], y \in DOMAIN u[b] :
    <<a, x>> # <<b, y>> /\ Overlap(x, y)

(* The update needs a number where the document has an object, or an       *)
(* object where it has a number.                                           *)
ShapeClash(doc, u) ==
  \E x \in DOMAIN u.inc, y \in DOMAIN doc : x # y /\ Overlap(x, y)

Singletons(f) == [x \in DOMAIN f |-> {f[x]}]

(* updateOne with upsert on the document of the key; NoFields if there is  *)
(* none, and then $setOnInsert applies too.                                *)
ApplyUpdate(doc, u) ==
  LET base == IF doc = NoFields THEN u.setOnInsert ELSE doc
      counted == Sums(base, u.inc)
      raised == Maxima(counted, u.max)
      lowered == Minima(raised, u.min)
      collected == Unions(lowered, Singletons(u.addToSet))
  IN u.set ++ collected
=============================================================================
