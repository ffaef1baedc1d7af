-------------------------- MODULE FeatureStoreProofs --------------------------
(***************************************************************************)
(* Proofs about FeatureStore, for any events the validator lets through,   *)
(* in any order and number.                                                *)
(***************************************************************************)
EXTENDS FeatureStore, FiniteSetTheorems, TLAPS

(* Two field names make two fields.                                        *)
LEMMA FieldsDiffer == \A a, b : Field(a) = Field(b) <=> a = b
  BY DEF Field

(* Types have counters of their own, and none is a plain field.            *)
LEMMA CountsDiffer ==
  ASSUME NEW s \in Seq(STRING) \ {<<>>}, NEW t \in Seq(STRING) \ {<<>>}
  PROVE  /\ CountOf(s) = CountOf(t) <=> s = t
         /\ \A n : CountOf(s) # Field(n)
<1>1. Len(s) \in Nat \ {0} /\ Len(t) \in Nat \ {0}
  OBVIOUS
<1>2. \A u \in Seq(STRING) : /\ Len(CountOf(u)) = 1 + Len(u)
                             /\ \A i \in 1..Len(u) : CountOf(u)[i + 1] = u[i]
  BY DEF CountOf
<1>3. ASSUME CountOf(s) = CountOf(t) PROVE s = t
  <2>1. Len(s) = Len(t) BY <1>2, <1>3
  <2>2. \A i \in 1..Len(s) : s[i] = t[i] BY <1>2, <1>3, <2>1
  <2>3. QED BY <2>1, <2>2
<1>4. \A n : Len(Field(n)) = 1 BY DEF Field
<1>5. QED BY <1>1, <1>2, <1>3, <1>4

(* A function, as all documents and blocks of updates are.                 *)
IsFunction(f) == f = [x \in DOMAIN f |-> f[x]]

(* NoFields has no field.                                                  *)
LEMMA NoFieldsEmpty == DOMAIN NoFields = {} /\ IsFunction(NoFields)
  BY DEF NoFields, IsFunction

(* What ++ of two functions is.                                            *)
LEMMA OverrideFields ==
  ASSUME NEW f, NEW g
  PROVE  /\ IsFunction(f ++ g)
         /\ DOMAIN (f ++ g) = DOMAIN f \cup DOMAIN g
         /\ \A x \in DOMAIN f : (f ++ g)[x] = f[x]
         /\ \A x \in DOMAIN g \ DOMAIN f : (f ++ g)[x] = g[x]
  BY DEF ++, IsFunction

(* A block of one field.                                                   *)
LEMMA OneField ==
  ASSUME NEW n, NEW v
  PROVE  IsFunction(One(n, v)) /\ DOMAIN One(n, v) = {Field(n)} /\ One(n, v)[Field(n)] = v
  BY DEF One, Only, IsFunction

(* mergeUpdates over six updates.                                          *)
LEMMA MergeSix ==
  ASSUME NEW a, NEW b, NEW c, NEW d, NEW e, NEW f
  PROVE  MergeUpdates(<<a, b, c, d, e, f>>) =
           MergeTwo(MergeTwo(MergeTwo(MergeTwo(MergeTwo(MergeTwo(NoUpdate, a), b), c), d), e), f)
<1> DEFINE us == <<a, b, c, d, e, f>>
           IsMerged(m) == m = [i \in 0..6 |-> IF i = 0 THEN NoUpdate ELSE MergeTwo(m[i - 1], us[i])]
           m1 == MergeTwo(NoUpdate, a)
           m2 == MergeTwo(m1, b)
           m3 == MergeTwo(m2, c)
           m4 == MergeTwo(m3, d)
           m5 == MergeTwo(m4, e)
           m6 == MergeTwo(m5, f)
           w == [i \in 0..6 |->
                  CASE i = 0 -> NoUpdate [] i = 1 -> m1 [] i = 2 -> m2 [] i = 3 -> m3
                    [] i = 4 -> m4 [] i = 5 -> m5 [] i = 6 -> m6]
<1>1. Len(us) = 6 OBVIOUS
<1>2. IsMerged(w)
  <2>1. \A i \in 0..6 : w[i] = IF i = 0 THEN NoUpdate ELSE MergeTwo(w[i - 1], us[i])
    OBVIOUS
  <2>2. QED BY <2>1
<1>3. \A m : IsMerged(m) => m[6] = m6
  OBVIOUS
<1> HIDE DEF IsMerged, m6
<1>4. MergeUpdates(us) = (CHOOSE m : IsMerged(m))[6]
  BY <1>1 DEF MergeUpdates, IsMerged
<1>5. IsMerged(CHOOSE m : IsMerged(m))
  BY <1>2
<1>6. QED BY <1>3, <1>4, <1>5 DEF m6
-----------------------------------------------------------------------------
(* A record of functions, as every builder returns.                        *)
IsUpdate(u) ==
  /\ u = [setOnInsert |-> u.setOnInsert, set |-> u.set, inc |-> u.inc,
          max |-> u.max, min |-> u.min, addToSet |-> u.addToSet]
  /\ IsFunction(u.setOnInsert) /\ IsFunction(u.set) /\ IsFunction(u.inc)
  /\ IsFunction(u.max) /\ IsFunction(u.min) /\ IsFunction(u.addToSet)

(* Functions with the same fields and values are the same.                 *)
LEMMA Extensional ==
  ASSUME NEW f, NEW g, IsFunction(f), IsFunction(g), DOMAIN f = DOMAIN g,
         \A x \in DOMAIN f : f[x] = g[x]
  PROVE  f = g
  BY DEF IsFunction

(* What combining two blocks gives: each field of both is combined, and    *)
(* each field of one is kept.                                              *)
LEMMA SumsFields ==
  ASSUME NEW f, NEW g
  PROVE  /\ IsFunction(Sums(f, g))
         /\ DOMAIN Sums(f, g) = DOMAIN f \cup DOMAIN g
         /\ \A x \in DOMAIN f \cap DOMAIN g : Sums(f, g)[x] = f[x] + g[x]
         /\ \A x \in DOMAIN f \ DOMAIN g : Sums(f, g)[x] = f[x]
         /\ \A x \in DOMAIN g \ DOMAIN f : Sums(f, g)[x] = g[x]
  BY DEF Sums, Combine, Plus, ++, IsFunction

(* As SumsFields, for $max.                                                *)
LEMMA MaximaFields ==
  ASSUME NEW f, NEW g
  PROVE  /\ IsFunction(Maxima(f, g))
         /\ DOMAIN Maxima(f, g) = DOMAIN f \cup DOMAIN g
         /\ \A x \in DOMAIN f \cap DOMAIN g : Maxima(f, g)[x] = Larger(f[x], g[x])
         /\ \A x \in DOMAIN f \ DOMAIN g : Maxima(f, g)[x] = f[x]
         /\ \A x \in DOMAIN g \ DOMAIN f : Maxima(f, g)[x] = g[x]
  BY DEF Maxima, Combine, ++, IsFunction

(* As SumsFields, for $min.                                                *)
LEMMA MinimaFields ==
  ASSUME NEW f, NEW g
  PROVE  /\ IsFunction(Minima(f, g))
         /\ DOMAIN Minima(f, g) = DOMAIN f \cup DOMAIN g
         /\ \A x \in DOMAIN f \cap DOMAIN g : Minima(f, g)[x] = Smaller(f[x], g[x])
         /\ \A x \in DOMAIN f \ DOMAIN g : Minima(f, g)[x] = f[x]
         /\ \A x \in DOMAIN g \ DOMAIN f : Minima(f, g)[x] = g[x]
  BY DEF Minima, Combine, ++, IsFunction

(* As SumsFields, for $addToSet.                                           *)
LEMMA UnionsFields ==
  ASSUME NEW f, NEW g
  PROVE  /\ IsFunction(Unions(f, g))
         /\ DOMAIN Unions(f, g) = DOMAIN f \cup DOMAIN g
         /\ \A x \in DOMAIN f \cap DOMAIN g : Unions(f, g)[x] = f[x] \cup g[x]
         /\ \A x \in DOMAIN f \ DOMAIN g : Unions(f, g)[x] = f[x]
         /\ \A x \in DOMAIN g \ DOMAIN f : Unions(f, g)[x] = g[x]
  BY DEF Unions, Combine, AddTo, ++, IsFunction

(* A block that is merged with an empty one stays as it is.                *)
LEMMA EmptyBlock ==
  ASSUME NEW f, IsFunction(f)
  PROVE  /\ f ++ NoFields = f /\ NoFields ++ f = f
         /\ Sums(f, NoFields) = f /\ Sums(NoFields, f) = f
         /\ Maxima(f, NoFields) = f /\ Maxima(NoFields, f) = f
         /\ Minima(f, NoFields) = f /\ Minima(NoFields, f) = f
<1> USE NoFieldsEmpty DEF IsFunction
<1>1. f ++ NoFields = f /\ NoFields ++ f = f BY DEF ++
<1>2. Sums(f, NoFields) = f /\ Sums(NoFields, f) = f BY DEF Sums, Combine, ++
<1>3. Maxima(f, NoFields) = f /\ Maxima(NoFields, f) = f BY DEF Maxima, Combine, ++
<1>4. Minima(f, NoFields) = f /\ Minima(NoFields, f) = f BY DEF Minima, Combine, ++
<1>5. QED BY <1>1, <1>2, <1>3, <1>4

(* A builder that has nothing to say changes nothing.                      *)
LEMMA MergeNothing ==
  ASSUME NEW u, IsUpdate(u)
  PROVE  MergeTwo(u, NoUpdate) = u /\ MergeTwo(NoUpdate, u) = u
<1>1. /\ NoUpdate.setOnInsert = NoFields /\ NoUpdate.set = NoFields /\ NoUpdate.inc = NoFields
      /\ NoUpdate.max = NoFields /\ NoUpdate.min = NoFields /\ NoUpdate.addToSet = NoFields
  BY DEF NoUpdate
<1>2. MergeTwo(u, NoUpdate) = u
  BY <1>1, EmptyBlock DEF MergeTwo, IsUpdate
<1>3. MergeTwo(NoUpdate, u) = u
  BY <1>1, EmptyBlock DEF MergeTwo, IsUpdate
<1>4. QED BY <1>2, <1>3

(* What the builder of the event's type, if there is one, contributes.     *)
Special(e) ==
  IF e.type = PURCHASE THEN PurchaseBuild(e)
  ELSE IF e.type = ADD_TO_CART THEN CartBuild(e)
  ELSE IF e.type = USER_SIGNUP THEN SignupBuild(e)
  ELSE IF e.type = USER_LOGIN THEN LoginBuild(e)
  ELSE IF e.type = SEARCH THEN SearchBuild(e)
  ELSE NoUpdate

(* The types of the builders are different.                                *)
LEMMA TypesDiffer ==
  /\ PURCHASE # ADD_TO_CART /\ PURCHASE # USER_SIGNUP /\ PURCHASE # USER_LOGIN /\ PURCHASE # SEARCH
  /\ ADD_TO_CART # USER_SIGNUP /\ ADD_TO_CART # USER_LOGIN /\ ADD_TO_CART # SEARCH
  /\ USER_SIGNUP # USER_LOGIN /\ USER_SIGNUP # SEARCH /\ USER_LOGIN # SEARCH
  BY DEF PURCHASE, ADD_TO_CART, USER_SIGNUP, USER_LOGIN, SEARCH

(* Optional fields are functions too.                                      *)
LEMMA IfPresentFields ==
  ASSUME NEW n, NEW v
  PROVE  /\ IsFunction(IfPresent(n, v))
         /\ DOMAIN IfPresent(n, v) = IF v # "" THEN {Field(n)} ELSE {}
         /\ v # "" => IfPresent(n, v)[Field(n)] = v
<1>1. CASE v = ""
  BY <1>1, NoFieldsEmpty DEF IfPresent, When
<1>2. CASE v # ""
  BY <1>2, OneField DEF IfPresent, When
<1>3. QED BY <1>1, <1>2

(* What the builders of a type return for it.                              *)
LEMMA BuildersAre ==
  ASSUME NEW e
  PROVE
  /\ e.type = PURCHASE =>
       PurchaseBuild(e) =
         [setOnInsert |-> NoFields, set |-> IfPresent("last_order_id", e.detail),
          inc |-> One("purchase_count", 1)
                  ++ When(e.priced, One("lifetime_value", e.price)),
          max |-> One("last_purchase_at", e.ts), min |-> NoFields,
          addToSet |-> IfPresent("currencies", e.currency)]
  /\ \A type, count, at, detail :
       e.type = type =>
         ActivityBuild(e, type, count, at, detail) =
           [setOnInsert |-> NoFields, set |-> IfPresent(detail, e.detail), inc |-> One(count, 1),
            max |-> One(at, e.ts), min |-> NoFields, addToSet |-> NoFields]
  /\ e.type = USER_SIGNUP =>
       SignupBuild(e) =
         [setOnInsert |-> NoFields, set |-> IfPresent("signup_method", e.detail), inc |-> NoFields,
          max |-> NoFields, min |-> One("signed_up_at", e.ts), addToSet |-> NoFields]
<1>2. ASSUME e.type = PURCHASE
      PROVE  PurchaseBuild(e) =
         [setOnInsert |-> NoFields, set |-> IfPresent("last_order_id", e.detail),
          inc |-> One("purchase_count", 1)
                  ++ When(e.priced, One("lifetime_value", e.price)),
          max |-> One("last_purchase_at", e.ts), min |-> NoFields,
          addToSet |-> IfPresent("currencies", e.currency)]
  BY <1>2 DEF PurchaseBuild, NoUpdate
<1>3. ASSUME NEW type, NEW count, NEW at, NEW detail, e.type = type
      PROVE  ActivityBuild(e, type, count, at, detail) =
           [setOnInsert |-> NoFields, set |-> IfPresent(detail, e.detail), inc |-> One(count, 1),
            max |-> One(at, e.ts), min |-> NoFields, addToSet |-> NoFields]
  BY <1>3 DEF ActivityBuild, NoUpdate
<1>4. ASSUME e.type = USER_SIGNUP
      PROVE  SignupBuild(e) =
         [setOnInsert |-> NoFields, set |-> IfPresent("signup_method", e.detail), inc |-> NoFields,
          max |-> NoFields, min |-> One("signed_up_at", e.ts), addToSet |-> NoFields]
  BY <1>4 DEF SignupBuild, NoUpdate
<1>5. QED BY <1>2, <1>3, <1>4

(* Every builder returns an update.                                        *)
LEMMA BuildersUpdate ==
  ASSUME NEW e
  PROVE  /\ IsUpdate(NoUpdate) /\ IsUpdate(CoreBuild(e)) /\ IsUpdate(PurchaseBuild(e))
         /\ IsUpdate(CartBuild(e)) /\ IsUpdate(SignupBuild(e))
         /\ IsUpdate(LoginBuild(e)) /\ IsUpdate(SearchBuild(e))
<1>1. IsFunction(NoFields) BY DEF IsFunction, NoFields
<1>2. IsUpdate(NoUpdate) BY <1>1 DEF IsUpdate, NoUpdate
<1>3. \A f, g : IsFunction(f ++ g) BY DEF ++, IsFunction
<1>a. \A n, v : IsFunction(One(n, v)) /\ IsFunction(IfPresent(n, v))
  BY OneField, IfPresentFields
<1> USE <1>1, <1>2, <1>3, <1>a
<1>4. IsUpdate(CoreBuild(e))
  BY DEF IsUpdate, CoreBuild
<1>5. IsUpdate(PurchaseBuild(e))
  <2>1. CASE e.type # PURCHASE BY <2>1 DEF PurchaseBuild
  <2>2. CASE e.type = PURCHASE BY <2>2, BuildersAre DEF IsUpdate
  <2>3. QED BY <2>1, <2>2
<1>6. \A type, count, at, detail : IsUpdate(ActivityBuild(e, type, count, at, detail))
  <2> SUFFICES ASSUME NEW type, NEW count, NEW at, NEW detail
               PROVE  IsUpdate(ActivityBuild(e, type, count, at, detail))
    OBVIOUS
  <2>1. CASE e.type # type BY <2>1 DEF ActivityBuild
  <2>2. CASE e.type = type
    <3>1. ActivityBuild(e, type, count, at, detail) =
            [setOnInsert |-> NoFields, set |-> IfPresent(detail, e.detail), inc |-> One(count, 1),
             max |-> One(at, e.ts), min |-> NoFields, addToSet |-> NoFields]
      BY <2>2, BuildersAre
    <3>2. QED BY <3>1 DEF IsUpdate
  <2>3. QED BY <2>1, <2>2
<1>7. IsUpdate(SignupBuild(e))
  BY DEF SignupBuild, NoUpdate, IsUpdate
<1>8. QED BY <1>4, <1>5, <1>6, <1>7 DEF CartBuild, LoginBuild, SearchBuild

(* The registry merges what the core builder and that builder contribute.  *)
LEMMA BuildIs ==
  ASSUME NEW e
  PROVE  Build(e) = MergeTwo(CoreBuild(e), Special(e))
<1> DEFINE c == CoreBuild(e)
<1>1. IsUpdate(NoUpdate) /\ IsUpdate(c) /\ IsUpdate(Special(e))
  BY BuildersUpdate DEF Special
<1>2. \A a, b : IsUpdate(MergeTwo(a, b))
  <2>1. \A f, g : IsFunction(f ++ g) BY DEF ++, IsFunction
  <2>2. \A f, g : IsFunction(Sums(f, g)) /\ IsFunction(Maxima(f, g)) /\ IsFunction(Minima(f, g))
    BY SumsFields, MaximaFields, MinimaFields
  <2>3. QED BY <2>1, <2>2 DEF MergeTwo, IsUpdate
<1>3. /\ MergeTwo(NoUpdate, c) = c /\ MergeTwo(c, NoUpdate) = c
      /\ \A a : MergeTwo(MergeTwo(c, a), NoUpdate) = MergeTwo(c, a)
  BY <1>1, <1>2, MergeNothing
<1>4. /\ PurchaseBuild(e) = IF e.type = PURCHASE THEN Special(e) ELSE NoUpdate
      /\ CartBuild(e) = IF e.type = ADD_TO_CART THEN Special(e) ELSE NoUpdate
      /\ SignupBuild(e) = IF e.type = USER_SIGNUP THEN Special(e) ELSE NoUpdate
      /\ LoginBuild(e) = IF e.type = USER_LOGIN THEN Special(e) ELSE NoUpdate
      /\ SearchBuild(e) = IF e.type = SEARCH THEN Special(e) ELSE NoUpdate
  <2>1. PurchaseBuild(e) = IF e.type = PURCHASE THEN Special(e) ELSE NoUpdate
    BY DEF PurchaseBuild, Special
  <2>2. CartBuild(e) = IF e.type = ADD_TO_CART THEN Special(e) ELSE NoUpdate
    BY TypesDiffer DEF CartBuild, ActivityBuild, Special
  <2>3. SignupBuild(e) = IF e.type = USER_SIGNUP THEN Special(e) ELSE NoUpdate
    BY TypesDiffer DEF SignupBuild, Special
  <2>4. LoginBuild(e) = IF e.type = USER_LOGIN THEN Special(e) ELSE NoUpdate
    BY TypesDiffer DEF LoginBuild, ActivityBuild, Special
  <2>5. SearchBuild(e) = IF e.type = SEARCH THEN Special(e) ELSE NoUpdate
    BY TypesDiffer DEF SearchBuild, ActivityBuild, Special
  <2>6. QED BY <2>1, <2>2, <2>3, <2>4, <2>5
<1>5. Build(e) = MergeTwo(MergeTwo(MergeTwo(MergeTwo(MergeTwo(MergeTwo(NoUpdate, c),
                   PurchaseBuild(e)), CartBuild(e)), SignupBuild(e)), LoginBuild(e)), SearchBuild(e))
  BY MergeSix DEF Build
<1>6. CASE e.type \in {PURCHASE, ADD_TO_CART, USER_SIGNUP, USER_LOGIN, SEARCH}
  BY <1>3, <1>4, <1>5, <1>6, TypesDiffer
<1>7. CASE e.type \notin {PURCHASE, ADD_TO_CART, USER_SIGNUP, USER_LOGIN, SEARCH}
  BY <1>3, <1>4, <1>5, <1>7 DEF Special
<1>8. QED BY <1>6, <1>7
(* The names of the fields that the builder of an event's type counts in,  *)
(* keeps a time in and keeps the detail in.                                *)
CountNames(e) ==
  IF e.type = PURCHASE
  THEN {"purchase_count"} \cup (IF e.priced THEN {"lifetime_value"} ELSE {})
  ELSE IF e.type = ADD_TO_CART THEN {"cart_adds_count"}
  ELSE IF e.type = USER_LOGIN THEN {"login_count"}
  ELSE IF e.type = SEARCH THEN {"search_count"} ELSE {}
TimeNames(e) ==
  IF e.type = PURCHASE THEN {"last_purchase_at"}
  ELSE IF e.type = ADD_TO_CART THEN {"last_cart_at"}
  ELSE IF e.type = USER_LOGIN THEN {"last_login_at"}
  ELSE IF e.type = SEARCH THEN {"last_search_at"} ELSE {}
DetailNames(e) ==
  IF e.detail = "" THEN {}
  ELSE IF e.type = PURCHASE THEN {"last_order_id"}
  ELSE IF e.type = ADD_TO_CART THEN {"last_product_added"}
  ELSE IF e.type = USER_SIGNUP THEN {"signup_method"}
  ELSE IF e.type = USER_LOGIN THEN {"last_login_method"}
  ELSE IF e.type = SEARCH THEN {"last_search_query"} ELSE {}
SignupNames(e) == IF e.type = USER_SIGNUP THEN {"signed_up_at"} ELSE {}
CurrencyNames(e) == IF e.type = PURCHASE /\ e.currency # "" THEN {"currencies"} ELSE {}

Fields(names) == {Field(n) : n \in names}
Increment(e, n) == IF n = "lifetime_value" THEN e.price ELSE 1

(* The field of a name is among the fields of the names it is one of.      *)
LEMMA FieldIn == \A a, n : Field(n) \in Fields(a) <=> n \in a
  BY FieldsDiffer DEF Fields

(* No name, no field.                                                      *)
LEMMA FieldsNone == Fields({}) = {}
  BY DEF Fields

(* The field of one name.                                                  *)
LEMMA FieldsOne == \A n : Fields({n}) = {Field(n)}
  BY DEF Fields

(* The fields of more names.                                               *)
LEMMA FieldsMore == \A a, b : Fields(a \cup b) = Fields(a) \cup Fields(b)
  BY DEF Fields

(* f has the fields of these names, each with this value.                  *)
Gives(f, names, v) == DOMAIN f = Fields(names) /\ \A n \in names : f[Field(n)] = v

(* A builder's one-field blocks.                                           *)
LEMMA OneGives == \A n, v : Gives(One(n, v), {n}, v)
  BY OneField, FieldsOne DEF Gives

(* The name, if the value is present.                                      *)
Present(n, v) == IF v # "" THEN {n} ELSE {}

(* Its optional ones.                                                      *)
LEMMA PresentGives == \A n, v : Gives(IfPresent(n, v), Present(n, v), v)
<1> SUFFICES ASSUME NEW n, NEW v PROVE Gives(IfPresent(n, v), Present(n, v), v)
  OBVIOUS
<1>1. CASE v = "" BY <1>1, IfPresentFields, FieldsNone DEF Gives, Present
<1>2. CASE v # "" BY <1>2, IfPresentFields, FieldsOne DEF Gives, Present
<1>3. QED BY <1>1, <1>2

(* And its empty ones.                                                     *)
LEMMA NothingGives == \A v : Gives(NoFields, {}, v)
  BY NoFieldsEmpty, FieldsNone DEF Gives

(* The counters of a purchase.                                             *)
LEMMA PurchaseCounts ==
  ASSUME NEW e, e.priced \in BOOLEAN, e.type = PURCHASE,
         NEW f, f = One("purchase_count", 1) ++ When(e.priced, One("lifetime_value", e.price))
  PROVE  DOMAIN f = Fields(CountNames(e)) /\ \A n \in CountNames(e) : f[Field(n)] = Increment(e, n)
<1> DEFINE first == One("purchase_count", 1)
           value == One("lifetime_value", e.price)
           price == When(e.priced, value)
<1>1. DOMAIN first = {Field("purchase_count")} /\ first[Field("purchase_count")] = 1
  BY OneField
<1>2. DOMAIN value = {Field("lifetime_value")} /\ value[Field("lifetime_value")] = e.price
  BY OneField
<1>3. Field("purchase_count") # Field("lifetime_value") BY FieldsDiffer
<1>a. f = first ++ price OBVIOUS
<1> HIDE DEF first, value, price
<1>4. CASE e.priced
  <2>1. f = first ++ value BY <1>4, <1>a DEF When, price
  <2>2. /\ DOMAIN f = {Field("purchase_count")} \cup {Field("lifetime_value")}
        /\ f[Field("purchase_count")] = 1 /\ f[Field("lifetime_value")] = e.price
    BY <1>1, <1>2, <1>3, <2>1 DEF ++
  <2>3. CountNames(e) = {"purchase_count"} \cup {"lifetime_value"} BY <1>4 DEF CountNames
  <2>4. Fields(CountNames(e)) = {Field("purchase_count")} \cup {Field("lifetime_value")}
    BY <2>3 DEF Fields
  <2>5. QED BY <2>2, <2>3, <2>4 DEF Increment
<1>5. CASE ~e.priced
  <2>1. f = first ++ NoFields BY <1>5, <1>a DEF When, price
  <2>2. DOMAIN f = {Field("purchase_count")} /\ f[Field("purchase_count")] = 1
    BY <1>1, <2>1, NoFieldsEmpty DEF ++
  <2>3. CountNames(e) = {"purchase_count"} BY <1>5 DEF CountNames
  <2>4. QED BY <2>2, <2>3, FieldsOne DEF Increment
<1>6. QED BY <1>4, <1>5

(* What the cart, login and search builders return for their type.         *)
LEMMA ActivityIs ==
  ASSUME NEW e, NEW type, NEW count, NEW at, NEW detail, e.type = type
  PROVE  ActivityBuild(e, type, count, at, detail) =
           [setOnInsert |-> NoFields, set |-> IfPresent(detail, e.detail), inc |-> One(count, 1),
            max |-> One(at, e.ts), min |-> NoFields, addToSet |-> NoFields]
  BY DEF ActivityBuild, NoUpdate

(* What the builder of the event's type contributes.                       *)
LEMMA SpecialBlocks ==
  ASSUME NEW e, e.priced \in BOOLEAN
  PROVE  /\ DOMAIN Special(e).setOnInsert = {}
         /\ Gives(Special(e).set, DetailNames(e), e.detail)
         /\ DOMAIN Special(e).inc = Fields(CountNames(e))
         /\ \A n \in CountNames(e) : Special(e).inc[Field(n)] = Increment(e, n)
         /\ Gives(Special(e).max, TimeNames(e), e.ts)
         /\ Gives(Special(e).min, SignupNames(e), e.ts)
         /\ Gives(Special(e).addToSet, CurrencyNames(e), e.currency)
<1> DEFINE s == Special(e)
           Claim == /\ DOMAIN s.setOnInsert = {}
                    /\ Gives(s.set, DetailNames(e), e.detail)
                    /\ DOMAIN s.inc = Fields(CountNames(e))
                    /\ \A n \in CountNames(e) : s.inc[Field(n)] = Increment(e, n)
                    /\ Gives(s.max, TimeNames(e), e.ts)
                    /\ Gives(s.min, SignupNames(e), e.ts)
                    /\ Gives(s.addToSet, CurrencyNames(e), e.currency)
<1> SUFFICES Claim BY DEF Claim
<1>1. CASE e.type = PURCHASE
  <2>1. /\ s.setOnInsert = NoFields /\ s.min = NoFields
        /\ s.set = IfPresent("last_order_id", e.detail)
        /\ s.inc = One("purchase_count", 1) ++ When(e.priced, One("lifetime_value", e.price))
        /\ s.max = One("last_purchase_at", e.ts)
        /\ s.addToSet = IfPresent("currencies", e.currency)
    BY <1>1, BuildersAre DEF Special
  <2>2. /\ DetailNames(e) = Present("last_order_id", e.detail)
        /\ TimeNames(e) = {"last_purchase_at"} /\ SignupNames(e) = {}
        /\ CurrencyNames(e) = Present("currencies", e.currency)
    BY <1>1, TypesDiffer DEF Present, DetailNames, TimeNames, SignupNames, CurrencyNames
  <2> HIDE DEF s
  <2>3. DOMAIN s.setOnInsert = {} BY <2>1, NoFieldsEmpty
  <2>4. Gives(s.set, DetailNames(e), e.detail) BY <2>1, <2>2, PresentGives
  <2>5. DOMAIN s.inc = Fields(CountNames(e)) /\ \A n \in CountNames(e) : s.inc[Field(n)] = Increment(e, n)
    BY <1>1, <2>1, PurchaseCounts
  <2>6. Gives(s.max, TimeNames(e), e.ts) BY <2>1, <2>2, OneGives
  <2>7. Gives(s.min, SignupNames(e), e.ts) BY <2>1, <2>2, NothingGives
  <2>8. Gives(s.addToSet, CurrencyNames(e), e.currency) BY <2>1, <2>2, PresentGives
  <2>9. QED BY <2>3, <2>4, <2>5, <2>6, <2>7, <2>8 DEF Claim
<1>2. ASSUME NEW type, NEW count, NEW at, NEW detail, e.type = type, count # "lifetime_value",
             s = ActivityBuild(e, type, count, at, detail), DetailNames(e) = Present(detail, e.detail),
             CountNames(e) = {count}, TimeNames(e) = {at},
             SignupNames(e) = {}, CurrencyNames(e) = {}
      PROVE  Claim
  <2>1. s = [setOnInsert |-> NoFields, set |-> IfPresent(detail, e.detail), inc |-> One(count, 1),
             max |-> One(at, e.ts), min |-> NoFields, addToSet |-> NoFields]
    BY <1>2, ActivityIs
  <2> HIDE DEF s
  <2>2. /\ s.setOnInsert = NoFields /\ s.set = IfPresent(detail, e.detail) /\ s.inc = One(count, 1)
        /\ s.max = One(at, e.ts) /\ s.min = NoFields /\ s.addToSet = NoFields
    BY <2>1
  <2>3. DOMAIN s.setOnInsert = {} BY <2>2, NoFieldsEmpty
  <2>4. Gives(s.set, DetailNames(e), e.detail) BY <1>2, <2>2, PresentGives
  <2>5. DOMAIN s.inc = Fields(CountNames(e)) /\ \A n \in CountNames(e) : s.inc[Field(n)] = Increment(e, n)
    <3>1. Gives(s.inc, CountNames(e), 1) BY <1>2, <2>2, OneGives
    <3>2. QED BY <1>2, <3>1 DEF Increment, Gives
  <2>6. Gives(s.max, TimeNames(e), e.ts) BY <1>2, <2>2, OneGives
  <2>7. Gives(s.min, SignupNames(e), e.ts) BY <1>2, <2>2, NothingGives
  <2>8. Gives(s.addToSet, CurrencyNames(e), e.currency) BY <1>2, <2>2, NothingGives
  <2>9. QED BY <2>3, <2>4, <2>5, <2>6, <2>7, <2>8 DEF Claim
<1> HIDE DEF Claim
<1> HIDE DEF s
<1>4. CASE e.type = ADD_TO_CART
  <2>1. s = ActivityBuild(e, ADD_TO_CART, "cart_adds_count", "last_cart_at", "last_product_added")
    BY <1>4, TypesDiffer DEF CartBuild, Special, s
  <2>2. /\ DetailNames(e) = Present("last_product_added", e.detail)
        /\ CountNames(e) = {"cart_adds_count"} /\ TimeNames(e) = {"last_cart_at"}
        /\ SignupNames(e) = {} /\ CurrencyNames(e) = {}
    BY <1>4, TypesDiffer DEF Present, DetailNames, CountNames, TimeNames, SignupNames, CurrencyNames
  <2>3. QED BY <1>2, <1>4, <2>1, <2>2
<1>5. CASE e.type = USER_LOGIN
  <2>1. s = ActivityBuild(e, USER_LOGIN, "login_count", "last_login_at", "last_login_method")
    BY <1>5, TypesDiffer DEF LoginBuild, Special, s
  <2>2. /\ DetailNames(e) = Present("last_login_method", e.detail)
        /\ CountNames(e) = {"login_count"} /\ TimeNames(e) = {"last_login_at"}
        /\ SignupNames(e) = {} /\ CurrencyNames(e) = {}
    BY <1>5, TypesDiffer DEF Present, DetailNames, CountNames, TimeNames, SignupNames, CurrencyNames
  <2>3. QED BY <1>2, <1>5, <2>1, <2>2
<1>6. CASE e.type = SEARCH
  <2>1. s = ActivityBuild(e, SEARCH, "search_count", "last_search_at", "last_search_query")
    BY <1>6, TypesDiffer DEF SearchBuild, Special, s
  <2>2. /\ DetailNames(e) = Present("last_search_query", e.detail)
        /\ CountNames(e) = {"search_count"} /\ TimeNames(e) = {"last_search_at"}
        /\ SignupNames(e) = {} /\ CurrencyNames(e) = {}
    BY <1>6, TypesDiffer DEF Present, DetailNames, CountNames, TimeNames, SignupNames, CurrencyNames
  <2>3. QED BY <1>2, <1>6, <2>1, <2>2
<1>7. CASE e.type = USER_SIGNUP
  <2>1. s = [setOnInsert |-> NoFields, set |-> IfPresent("signup_method", e.detail), inc |-> NoFields,
             max |-> NoFields, min |-> One("signed_up_at", e.ts), addToSet |-> NoFields]
    BY <1>7, BuildersAre, TypesDiffer DEF Special, s
  <2>2. /\ s.setOnInsert = NoFields /\ s.set = IfPresent("signup_method", e.detail)
        /\ s.inc = NoFields /\ s.max = NoFields /\ s.min = One("signed_up_at", e.ts)
        /\ s.addToSet = NoFields
    BY <2>1
  <2>3. /\ DetailNames(e) = Present("signup_method", e.detail)
        /\ CountNames(e) = {} /\ TimeNames(e) = {}
        /\ SignupNames(e) = {"signed_up_at"} /\ CurrencyNames(e) = {}
    BY <1>7, TypesDiffer DEF Present, DetailNames, CountNames, TimeNames, SignupNames, CurrencyNames
  <2>4. DOMAIN s.setOnInsert = {} BY <2>2, NoFieldsEmpty
  <2>5. Gives(s.set, DetailNames(e), e.detail) BY <2>2, <2>3, PresentGives
  <2>6. DOMAIN s.inc = Fields(CountNames(e)) /\ \A n \in CountNames(e) : s.inc[Field(n)] = Increment(e, n)
    BY <2>2, <2>3, FieldsNone, NoFieldsEmpty
  <2>7. Gives(s.max, TimeNames(e), e.ts) BY <2>2, <2>3, NothingGives
  <2>8. Gives(s.min, SignupNames(e), e.ts) BY <2>2, <2>3, OneGives
  <2>9. Gives(s.addToSet, CurrencyNames(e), e.currency) BY <2>2, <2>3, NothingGives
  <2>10. QED BY <2>4, <2>5, <2>6, <2>7, <2>8, <2>9 DEF Claim
<1>8. CASE e.type \notin {PURCHASE, ADD_TO_CART, USER_SIGNUP, USER_LOGIN, SEARCH}
  <2>1. /\ s.setOnInsert = NoFields /\ s.set = NoFields /\ s.inc = NoFields
        /\ s.max = NoFields /\ s.min = NoFields /\ s.addToSet = NoFields
    BY <1>8 DEF Special, s, NoUpdate
  <2>2. /\ DetailNames(e) = {} /\ CountNames(e) = {} /\ TimeNames(e) = {}
        /\ SignupNames(e) = {} /\ CurrencyNames(e) = {}
    BY <1>8 DEF Present, DetailNames, CountNames, TimeNames, SignupNames, CurrencyNames
  <2>3. DOMAIN s.setOnInsert = {} /\ DOMAIN s.inc = Fields(CountNames(e))
    BY <2>1, <2>2, NoFieldsEmpty, FieldsNone
  <2>4. QED BY <2>1, <2>2, <2>3, NothingGives DEF Claim
<1>9. QED BY <1>1, <1>4, <1>5, <1>6, <1>7, <1>8
-----------------------------------------------------------------------------
(* Spreading one block over another, by names.                             *)
LEMMA OverrideNames ==
  ASSUME NEW f, NEW g, NEW a, NEW b, DOMAIN f = Fields(a), DOMAIN g = Fields(b)
  PROVE  /\ DOMAIN (f ++ g) = Fields(a \cup b)
         /\ \A n \in a : (f ++ g)[Field(n)] = f[Field(n)]
         /\ \A n \in b \ a : (f ++ g)[Field(n)] = g[Field(n)]
<1>1. DOMAIN (f ++ g) = Fields(a \cup b) BY FieldsMore DEF ++
<1>2. \A n \in a : Field(n) \in DOMAIN f BY FieldIn
<1>3. \A n \in b \ a : Field(n) \in DOMAIN g \ DOMAIN f BY FieldIn
<1>4. QED BY <1>1, <1>2, <1>3 DEF ++

(* The ids an event gives, and what it sets and puts in a new document.    *)
IdentityNames(e) == Present("user_id", e.user) \cup Present("anonymous_id", e.anon)
Identity(e, n) == IF n = "user_id" THEN e.user ELSE e.anon

SetNames(e) == DetailNames(e) \cup ({"last_event_id", "last_event_type"} \cup IdentityNames(e))
SetValue(e, n) ==
  IF n \in DetailNames(e) THEN e.detail
  ELSE IF n = "last_event_id" THEN e.id
  ELSE IF n = "last_event_type" THEN e.type ELSE Identity(e, n)

InsertNames(e) == {"first_seen_ts", "user_key", "business_name"} \cup IdentityNames(e)
InsertValue(e, n) ==
  IF n = "first_seen_ts" THEN e.ts
  ELSE IF n = "user_key" THEN ResolveKey(e).user_key
  ELSE IF n = "business_name" THEN e.business ELSE Identity(e, n)

(* The ids as the core builder and the repository put them in a block.     *)
LEMMA IdentityBlock ==
  ASSUME NEW e
  PROVE  LET f == IfPresent("user_id", e.user) ++ IfPresent("anonymous_id", e.anon) IN
         /\ DOMAIN f = Fields(IdentityNames(e))
         /\ \A n \in IdentityNames(e) : f[Field(n)] = Identity(e, n)
<1> DEFINE user == IfPresent("user_id", e.user)
           anon == IfPresent("anonymous_id", e.anon)
           users == Present("user_id", e.user)
           anons == Present("anonymous_id", e.anon)
<1>1. Gives(user, users, e.user) /\ Gives(anon, anons, e.anon)
  BY PresentGives
<1>2. users \subseteq {"user_id"} /\ anons \subseteq {"anonymous_id"}
  BY DEF Present
<1> HIDE DEF user, anon, users, anons
<1>3. /\ DOMAIN (user ++ anon) = Fields(users \cup anons)
      /\ \A n \in users : (user ++ anon)[Field(n)] = e.user
      /\ \A n \in anons : (user ++ anon)[Field(n)] = e.anon
  BY <1>1, <1>2, OverrideNames DEF Gives
<1>4. /\ \A n \in users : Identity(e, n) = e.user
      /\ \A n \in anons : Identity(e, n) = e.anon
  BY <1>2 DEF Identity
<1>5. IdentityNames(e) = users \cup anons BY DEF IdentityNames, users, anons
<1>6. QED BY <1>3, <1>4, <1>5 DEF user, anon

(* Two one-field blocks with different names.                              *)
LEMMA TwoFields ==
  ASSUME NEW m, NEW n, NEW v, NEW w, m # n
  PROVE  LET f == One(m, v) ++ One(n, w) IN
         DOMAIN f = Fields({m, n}) /\ f[Field(m)] = v /\ f[Field(n)] = w
<1>1. /\ DOMAIN One(m, v) = Fields({m}) /\ One(m, v)[Field(m)] = v
      /\ DOMAIN One(n, w) = Fields({n}) /\ One(n, w)[Field(n)] = w
  BY OneField, FieldsOne
<1> DEFINE f == One(m, v)
           g == One(n, w)
<1> HIDE DEF f, g
<1>2. DOMAIN (f ++ g) = Fields({m} \cup {n}) /\ (f ++ g)[Field(m)] = v /\ (f ++ g)[Field(n)] = w
  BY <1>1, OverrideNames DEF f, g
<1>3. {m} \cup {n} = {m, n} OBVIOUS
<1>4. QED BY <1>2, <1>3 DEF f, g
(* What the core builder contributes.                                      *)
LEMMA CoreBlocks ==
  ASSUME NEW e
  PROVE  LET c == CoreBuild(e)
             names == {"last_event_id", "last_event_type"} \cup IdentityNames(e)
         IN
         /\ DOMAIN c.setOnInsert = Fields({"first_seen_ts"}) /\ c.setOnInsert[Field("first_seen_ts")] = e.ts
         /\ DOMAIN c.set = Fields(names)
         /\ c.set[Field("last_event_id")] = e.id /\ c.set[Field("last_event_type")] = e.type
         /\ \A n \in IdentityNames(e) : c.set[Field(n)] = Identity(e, n)
         /\ c.inc = One("total_events", 1) ++ Only(CountOf(e.type), 1)
         /\ c.max = One("last_seen_ts", e.ts) /\ c.min = NoFields /\ c.addToSet = NoFields
<1> DEFINE c == CoreBuild(e)
           f == One("last_event_id", e.id) ++ One("last_event_type", e.type)
           user == IfPresent("user_id", e.user)
           anon == IfPresent("anonymous_id", e.anon)
           g == user ++ anon
           names == {"last_event_id", "last_event_type"}
<1>1. /\ c.setOnInsert = One("first_seen_ts", e.ts)
      /\ c.set = (f ++ user) ++ anon
      /\ c.inc = One("total_events", 1) ++ Only(CountOf(e.type), 1)
      /\ c.max = One("last_seen_ts", e.ts) /\ c.min = NoFields /\ c.addToSet = NoFields
  BY DEF CoreBuild
<1>2. DOMAIN f = Fields(names) /\ f[Field("last_event_id")] = e.id /\ f[Field("last_event_type")] = e.type
  BY TwoFields
<1>3. DOMAIN g = Fields(IdentityNames(e)) /\ \A n \in IdentityNames(e) : g[Field(n)] = Identity(e, n)
  BY IdentityBlock
<1> HIDE DEF f, user, anon, c
<1>4. c.set = f ++ g BY <1>1 DEF ++
<1> HIDE DEF g
<1>5. "last_event_id" \notin IdentityNames(e) /\ "last_event_type" \notin IdentityNames(e)
  BY DEF IdentityNames, Present
<1>6. /\ DOMAIN c.set = Fields(names \cup IdentityNames(e))
      /\ c.set[Field("last_event_id")] = e.id /\ c.set[Field("last_event_type")] = e.type
      /\ \A n \in IdentityNames(e) : c.set[Field(n)] = Identity(e, n)
  BY <1>2, <1>3, <1>4, <1>5, OverrideNames
<1>7. DOMAIN c.setOnInsert = Fields({"first_seen_ts"}) /\ c.setOnInsert[Field("first_seen_ts")] = e.ts
  <2>1. Gives(c.setOnInsert, {"first_seen_ts"}, e.ts) BY <1>1, OneGives
  <2>2. QED BY <2>1 DEF Gives
<1>8. QED BY <1>1, <1>6, <1>7 DEF c
(* The blocks of the update the repository sends for an event.             *)
LEMMA UpdateIs ==
  ASSUME NEW e
  PROVE  LET u == FinalUpdate(e)
             c == CoreBuild(e)
             s == Special(e)
         IN
         /\ u.setOnInsert = (s.setOnInsert ++ c.setOnInsert)
              ++ (((One("user_key", ResolveKey(e).user_key) ++ One("business_name", e.business))
                   ++ IfPresent("user_id", e.user)) ++ IfPresent("anonymous_id", e.anon))
         /\ u.set = s.set ++ c.set
         /\ u.inc = Sums(c.inc, s.inc)
         /\ u.max = Maxima(c.max, s.max)
         /\ u.min = Minima(c.min, s.min)
         /\ u.addToSet = s.addToSet ++ c.addToSet
<1> DEFINE b == Build(e)
           c == CoreBuild(e)
           s == Special(e)
<1>1. b = [setOnInsert |-> s.setOnInsert ++ c.setOnInsert, set |-> s.set ++ c.set,
           inc |-> Sums(c.inc, s.inc), max |-> Maxima(c.max, s.max),
           min |-> Minima(c.min, s.min), addToSet |-> s.addToSet ++ c.addToSet]
  BY BuildIs DEF MergeTwo
<1>2. ResolveKey(e).business_name = e.business BY DEF ResolveKey
<1> HIDE DEF b, c, s
<1>3. QED BY <1>1, <1>2 DEF FinalUpdate, b, c, s

(* The key as the repository puts it in a block.                           *)
LEMMA KeyFields ==
  ASSUME NEW v, NEW w
  PROVE  LET f == One("user_key", v) ++ One("business_name", w) IN
         /\ DOMAIN f = Fields({"user_key", "business_name"})
         /\ f[Field("user_key")] = v /\ f[Field("business_name")] = w
<1> DEFINE m == "user_key"
           n == "business_name"
<1>1. m # n OBVIOUS
<1> HIDE DEF m, n
<1>2. LET f == One(m, v) ++ One(n, w) IN
      DOMAIN f = Fields({m, n}) /\ f[Field(m)] = v /\ f[Field(n)] = w
  BY <1>1, TwoFields
<1>3. QED BY <1>2 DEF m, n

(* What it puts in a new document.                                         *)
LEMMA InsertBlock ==
  ASSUME NEW e, e.priced \in BOOLEAN
  PROVE  LET f == FinalUpdate(e).setOnInsert IN
         /\ DOMAIN f = Fields(InsertNames(e))
         /\ \A n \in InsertNames(e) : f[Field(n)] = InsertValue(e, n)
<1> DEFINE f == FinalUpdate(e).setOnInsert
           c == CoreBuild(e).setOnInsert
           s == Special(e).setOnInsert
           key == One("user_key", ResolveKey(e).user_key) ++ One("business_name", e.business)
           user == IfPresent("user_id", e.user)
           anon == IfPresent("anonymous_id", e.anon)
           ids == user ++ anon
<1>1. /\ DOMAIN c = Fields({"first_seen_ts"}) /\ c[Field("first_seen_ts")] = e.ts
      /\ DOMAIN s = {}
  <2>1. DOMAIN c = Fields({"first_seen_ts"}) /\ c[Field("first_seen_ts")] = e.ts BY CoreBlocks
  <2>2. DOMAIN s = {} BY SpecialBlocks
  <2>3. QED BY <2>1, <2>2
<1>2. /\ DOMAIN key = Fields({"user_key", "business_name"})
      /\ key[Field("user_key")] = ResolveKey(e).user_key /\ key[Field("business_name")] = e.business
  BY KeyFields
<1>3. DOMAIN ids = Fields(IdentityNames(e)) /\ \A n \in IdentityNames(e) : ids[Field(n)] = Identity(e, n)
  BY IdentityBlock
<1>4. IdentityNames(e) \subseteq {"user_id", "anonymous_id"}
  BY DEF IdentityNames, Present
<1>5. f = (s ++ c) ++ ((key ++ user) ++ anon) BY UpdateIs
<1> HIDE DEF f, c, s, key, user, anon
<1>6. f = c ++ (key ++ ids)
  <2>1. DOMAIN (s ++ c) = DOMAIN c /\ \A x \in DOMAIN c : (s ++ c)[x] = c[x] BY <1>1 DEF ++
  <2>2. (key ++ user) ++ anon = key ++ ids BY DEF ++
  <2>3. \A g : (s ++ c) ++ g = c ++ g BY <2>1 DEF ++
  <2>4. QED BY <1>5, <2>2, <2>3
<1> HIDE DEF ids
<1>7. /\ DOMAIN (key ++ ids) = Fields({"user_key", "business_name"} \cup IdentityNames(e))
      /\ (key ++ ids)[Field("user_key")] = ResolveKey(e).user_key
      /\ (key ++ ids)[Field("business_name")] = e.business
      /\ \A n \in IdentityNames(e) : (key ++ ids)[Field(n)] = Identity(e, n)
  BY <1>2, <1>3, <1>4, OverrideNames
<1>8. /\ DOMAIN f = Fields({"first_seen_ts"} \cup ({"user_key", "business_name"} \cup IdentityNames(e)))
      /\ f[Field("first_seen_ts")] = e.ts
      /\ f[Field("user_key")] = ResolveKey(e).user_key
      /\ f[Field("business_name")] = e.business
      /\ \A n \in IdentityNames(e) : f[Field(n)] = Identity(e, n)
  <2> DEFINE g == key ++ ids
             more == {"user_key", "business_name"} \cup IdentityNames(e)
  <2>1. more \cap {"first_seen_ts"} = {} BY <1>4
  <2> HIDE DEF g, more
  <2>2. /\ DOMAIN f = Fields({"first_seen_ts"} \cup more) /\ f[Field("first_seen_ts")] = e.ts
        /\ \A n \in more : f[Field(n)] = g[Field(n)]
    BY <1>1, <1>6, <1>7, <2>1, OverrideNames DEF g, more
  <2>3. QED BY <1>7, <2>2 DEF g, more
<1>9. InsertNames(e) = {"first_seen_ts"} \cup ({"user_key", "business_name"} \cup IdentityNames(e))
  BY DEF InsertNames
<1>10. QED BY <1>4, <1>8, <1>9 DEF InsertValue, f

(* What it sets.                                                           *)
LEMMA SetBlock ==
  ASSUME NEW e, e.priced \in BOOLEAN
  PROVE  LET f == FinalUpdate(e).set IN
         /\ DOMAIN f = Fields(SetNames(e))
         /\ \A n \in SetNames(e) : f[Field(n)] = SetValue(e, n)
<1> DEFINE f == FinalUpdate(e).set
           c == CoreBuild(e).set
           s == Special(e).set
           names == {"last_event_id", "last_event_type"} \cup IdentityNames(e)
<1>1. /\ DOMAIN c = Fields(names)
      /\ c[Field("last_event_id")] = e.id /\ c[Field("last_event_type")] = e.type
      /\ \A n \in IdentityNames(e) : c[Field(n)] = Identity(e, n)
  BY CoreBlocks
<1>2. DOMAIN s = Fields(DetailNames(e)) /\ \A n \in DetailNames(e) : s[Field(n)] = e.detail
  BY SpecialBlocks DEF Gives
<1>3. f = s ++ c BY UpdateIs
<1>4. IdentityNames(e) \subseteq {"user_id", "anonymous_id"}
  BY DEF IdentityNames, Present
<1> HIDE DEF f, c, s
<1>5. /\ DOMAIN f = Fields(DetailNames(e) \cup names)
      /\ \A n \in DetailNames(e) : f[Field(n)] = s[Field(n)]
      /\ \A n \in names \ DetailNames(e) : f[Field(n)] = c[Field(n)]
  BY <1>1, <1>2, <1>3, OverrideNames
<1>6. SetNames(e) = DetailNames(e) \cup names BY DEF SetNames
<1>7. \A n \in names : c[Field(n)] = IF n = "last_event_id" THEN e.id
                                     ELSE IF n = "last_event_type" THEN e.type ELSE Identity(e, n)
  BY <1>1, <1>4
<1>8. QED BY <1>2, <1>5, <1>6, <1>7 DEF SetValue, f

(* The counters it adds to, and the times it may raise.                    *)
Counted(e) == {"total_events"} \cup CountNames(e)
Seen(e) == {"last_seen_ts"} \cup TimeNames(e)

(* What it counts.                                                         *)
LEMMA IncBlock ==
  ASSUME NEW e, e.priced \in BOOLEAN, e.type \in Seq(STRING) \ {<<>>}
  PROVE  LET f == FinalUpdate(e).inc
             names == Counted(e)
         IN
         /\ DOMAIN f = {CountOf(e.type)} \cup Fields(names)
         /\ f[CountOf(e.type)] = 1
         /\ \A n \in names : f[Field(n)] = Increment(e, n)
<1> DEFINE f == FinalUpdate(e).inc
           c == CoreBuild(e).inc
           s == Special(e).inc
           total == One("total_events", 1)
           count == Only(CountOf(e.type), 1)
           names == Counted(e)
<1>1. c = total ++ count BY CoreBlocks
<1>2. DOMAIN total = {Field("total_events")} /\ total[Field("total_events")] = 1
  BY OneField
<1>3. DOMAIN count = {CountOf(e.type)} /\ count[CountOf(e.type)] = 1
  BY DEF Only
<1>4. \A n : CountOf(e.type) # Field(n) BY CountsDiffer
<1>5. DOMAIN s = Fields(CountNames(e)) /\ \A n \in CountNames(e) : s[Field(n)] = Increment(e, n)
  BY SpecialBlocks
<1>6. f = Sums(c, s) BY UpdateIs
<1> HIDE DEF f, c, s, total, count
<1>7. /\ DOMAIN c = {Field("total_events"), CountOf(e.type)}
      /\ c[Field("total_events")] = 1 /\ c[CountOf(e.type)] = 1
  BY <1>1, <1>2, <1>3, <1>4 DEF ++
<1>8. "total_events" \notin CountNames(e) BY DEF CountNames
<1>9. Field("total_events") \notin DOMAIN s /\ CountOf(e.type) \notin DOMAIN s
  <2>1. Field("total_events") \notin DOMAIN s BY <1>5, <1>8, FieldIn
  <2>2. CountOf(e.type) \notin DOMAIN s BY <1>4, <1>5 DEF Fields
  <2>3. QED BY <2>1, <2>2
<1>10. \A n \in CountNames(e) : Field(n) \in DOMAIN s \ DOMAIN c
  BY <1>4, <1>5, <1>7, <1>8, FieldIn
<1>11. /\ DOMAIN f = DOMAIN c \cup DOMAIN s
       /\ \A x \in DOMAIN c \ DOMAIN s : f[x] = c[x]
       /\ \A x \in DOMAIN s \ DOMAIN c : f[x] = s[x]
  BY <1>6 DEF Sums, Combine, Plus, ++
<1>12. Fields(names) = {Field("total_events")} \cup Fields(CountNames(e))
  BY DEF Fields, Counted
<1>13. DOMAIN f = {CountOf(e.type)} \cup Fields(names)
  BY <1>5, <1>7, <1>11, <1>12
<1>14. f[CountOf(e.type)] = 1 /\ f[Field("total_events")] = 1
  BY <1>7, <1>9, <1>11
<1>15. \A n \in CountNames(e) : f[Field(n)] = Increment(e, n)
  BY <1>5, <1>10, <1>11
<1>16. QED BY <1>13, <1>14, <1>15 DEF Increment, Counted, f

(* What it keeps the extremes of, and what it collects.                    *)
LEMMA ExtremeBlocks ==
  ASSUME NEW e, e.priced \in BOOLEAN
  PROVE  LET u == FinalUpdate(e) IN
         /\ Gives(u.max, Seen(e), e.ts)
         /\ Gives(u.min, SignupNames(e), e.ts)
         /\ Gives(u.addToSet, CurrencyNames(e), e.currency)
<1> DEFINE u == FinalUpdate(e)
           c == CoreBuild(e)
           s == Special(e)
<1>1. /\ u.max = Maxima(c.max, s.max) /\ u.min = Minima(c.min, s.min)
      /\ u.addToSet = s.addToSet ++ c.addToSet
  BY UpdateIs
<1>2. c.max = One("last_seen_ts", e.ts) /\ c.min = NoFields /\ c.addToSet = NoFields
  BY CoreBlocks
<1>3. /\ Gives(s.max, TimeNames(e), e.ts) /\ Gives(s.min, SignupNames(e), e.ts)
      /\ Gives(s.addToSet, CurrencyNames(e), e.currency)
  BY SpecialBlocks
<1> HIDE DEF u, c, s
<1>4. Gives(c.max, {"last_seen_ts"}, e.ts) BY <1>2, OneGives
<1>5. Gives(u.max, Seen(e), e.ts)
  <2>1. "last_seen_ts" \notin TimeNames(e) BY DEF TimeNames
  <2>2. /\ Field("last_seen_ts") \in DOMAIN c.max \ DOMAIN s.max
        /\ \A n \in TimeNames(e) : Field(n) \in DOMAIN s.max \ DOMAIN c.max
    BY <1>3, <1>4, <2>1, FieldIn DEF Gives
  <2>3. DOMAIN u.max = DOMAIN c.max \cup DOMAIN s.max BY <1>1 DEF Maxima, Combine, ++
  <2>4. DOMAIN u.max = Fields(Seen(e))
    BY <1>3, <1>4, <2>3, FieldsMore DEF Gives, Seen
  <2>5. /\ \A x \in DOMAIN c.max \ DOMAIN s.max : u.max[x] = c.max[x]
        /\ \A x \in DOMAIN s.max \ DOMAIN c.max : u.max[x] = s.max[x]
    BY <1>1 DEF Maxima, Combine, ++
  <2>6. u.max[Field("last_seen_ts")] = e.ts BY <1>4, <2>2, <2>5 DEF Gives
  <2>7. \A n \in TimeNames(e) : u.max[Field(n)] = e.ts BY <1>3, <2>2, <2>5 DEF Gives
  <2>8. QED BY <2>4, <2>6, <2>7 DEF Gives, Seen
<1>6. Gives(u.min, SignupNames(e), e.ts)
  <2>1. DOMAIN u.min = DOMAIN s.min /\ \A x \in DOMAIN s.min : u.min[x] = s.min[x]
    BY <1>1, <1>2, NoFieldsEmpty DEF Minima, Combine, ++
  <2>2. \A n \in SignupNames(e) : Field(n) \in DOMAIN s.min BY <1>3, FieldIn DEF Gives
  <2>3. QED BY <1>3, <2>1, <2>2 DEF Gives
<1>7. Gives(u.addToSet, CurrencyNames(e), e.currency)
  <2>1. DOMAIN u.addToSet = DOMAIN s.addToSet /\ \A x \in DOMAIN s.addToSet : u.addToSet[x] = s.addToSet[x]
    BY <1>1, <1>2, NoFieldsEmpty DEF ++
  <2>2. \A n \in CurrencyNames(e) : Field(n) \in DOMAIN s.addToSet BY <1>3, FieldIn DEF Gives
  <2>3. QED BY <1>3, <2>1, <2>2 DEF Gives
<1>8. QED BY <1>5, <1>6, <1>7 DEF u
-----------------------------------------------------------------------------
(* What an update finds: the document, or what it inserts.                 *)
Base(d, u) == IF d = NoFields THEN u.setOnInsert ELSE d

(* What the store does to the fields of one block and of no other.         *)
LEMMA ApplyFields ==
  ASSUME NEW d, NEW u
  PROVE  LET b == Base(d, u)
             r == ApplyUpdate(d, u)
         IN
         /\ DOMAIN r = UNION {DOMAIN b, DOMAIN u.set, DOMAIN u.inc, DOMAIN u.max, DOMAIN u.min,
                              DOMAIN u.addToSet}
         /\ \A x \in DOMAIN u.set : r[x] = u.set[x]
         /\ \A x \in DOMAIN u.inc :
              x \notin UNION {DOMAIN u.set, DOMAIN u.max, DOMAIN u.min, DOMAIN u.addToSet} =>
                r[x] = IF x \in DOMAIN b THEN b[x] + u.inc[x] ELSE u.inc[x]
         /\ \A x \in DOMAIN u.max :
              x \notin UNION {DOMAIN u.set, DOMAIN u.inc, DOMAIN u.min, DOMAIN u.addToSet} =>
                r[x] = IF x \in DOMAIN b THEN Larger(b[x], u.max[x]) ELSE u.max[x]
         /\ \A x \in DOMAIN u.min :
              x \notin UNION {DOMAIN u.set, DOMAIN u.inc, DOMAIN u.max, DOMAIN u.addToSet} =>
                r[x] = IF x \in DOMAIN b THEN Smaller(b[x], u.min[x]) ELSE u.min[x]
         /\ \A x \in DOMAIN u.addToSet :
              x \notin UNION {DOMAIN u.set, DOMAIN u.inc, DOMAIN u.max, DOMAIN u.min} =>
                r[x] = IF x \in DOMAIN b THEN b[x] \cup {u.addToSet[x]} ELSE {u.addToSet[x]}
         /\ \A x \in DOMAIN b :
              x \notin UNION {DOMAIN u.set, DOMAIN u.inc, DOMAIN u.max, DOMAIN u.min, DOMAIN u.addToSet}
                => r[x] = b[x]
<1> DEFINE b == Base(d, u)
           r == ApplyUpdate(d, u)
           values == Singletons(u.addToSet)
           counted == Sums(b, u.inc)
           raised == Maxima(counted, u.max)
           lowered == Minima(raised, u.min)
           collected == Unions(lowered, values)
<1>1. r = u.set ++ collected BY DEF ApplyUpdate, Base
<1>2. /\ DOMAIN counted = DOMAIN b \cup DOMAIN u.inc
      /\ \A x \in DOMAIN b \cap DOMAIN u.inc : counted[x] = b[x] + u.inc[x]
      /\ \A x \in DOMAIN b \ DOMAIN u.inc : counted[x] = b[x]
      /\ \A x \in DOMAIN u.inc \ DOMAIN b : counted[x] = u.inc[x]
  BY DEF Sums, Combine, Plus, ++
<1> HIDE DEF b, counted, r
<1>3. /\ DOMAIN raised = DOMAIN counted \cup DOMAIN u.max
      /\ \A x \in DOMAIN counted \cap DOMAIN u.max : raised[x] = Larger(counted[x], u.max[x])
      /\ \A x \in DOMAIN counted \ DOMAIN u.max : raised[x] = counted[x]
      /\ \A x \in DOMAIN u.max \ DOMAIN counted : raised[x] = u.max[x]
  BY DEF Maxima, Combine, ++
<1> HIDE DEF raised
<1>4. /\ DOMAIN lowered = DOMAIN raised \cup DOMAIN u.min
      /\ \A x \in DOMAIN raised \cap DOMAIN u.min : lowered[x] = Smaller(raised[x], u.min[x])
      /\ \A x \in DOMAIN raised \ DOMAIN u.min : lowered[x] = raised[x]
      /\ \A x \in DOMAIN u.min \ DOMAIN raised : lowered[x] = u.min[x]
  BY DEF Minima, Combine, ++
<1>5. /\ DOMAIN values = DOMAIN u.addToSet
      /\ \A x \in DOMAIN u.addToSet : values[x] = {u.addToSet[x]}
  BY DEF Singletons
<1> HIDE DEF lowered, values
<1>6. /\ DOMAIN collected = DOMAIN lowered \cup DOMAIN u.addToSet
      /\ \A x \in DOMAIN lowered \cap DOMAIN u.addToSet : collected[x] = lowered[x] \cup {u.addToSet[x]}
      /\ \A x \in DOMAIN lowered \ DOMAIN u.addToSet : collected[x] = lowered[x]
      /\ \A x \in DOMAIN u.addToSet \ DOMAIN lowered : collected[x] = {u.addToSet[x]}
  BY <1>5 DEF Unions, Combine, AddTo, ++
<1> HIDE DEF collected
<1>7. /\ DOMAIN r = DOMAIN u.set \cup DOMAIN collected
      /\ \A x \in DOMAIN u.set : r[x] = u.set[x]
      /\ \A x \in DOMAIN collected \ DOMAIN u.set : r[x] = collected[x]
  BY <1>1 DEF ++
<1>8. DOMAIN r = UNION {DOMAIN b, DOMAIN u.set, DOMAIN u.inc, DOMAIN u.max, DOMAIN u.min,
                        DOMAIN u.addToSet}
  BY <1>2, <1>3, <1>4, <1>6, <1>7
<1>9. ASSUME NEW x \in DOMAIN u.inc,
             x \notin UNION {DOMAIN u.set, DOMAIN u.max, DOMAIN u.min, DOMAIN u.addToSet}
      PROVE  r[x] = IF x \in DOMAIN b THEN b[x] + u.inc[x] ELSE u.inc[x]
  BY <1>2, <1>3, <1>4, <1>6, <1>7, <1>9
<1>10. ASSUME NEW x \in DOMAIN u.max,
              x \notin UNION {DOMAIN u.set, DOMAIN u.inc, DOMAIN u.min, DOMAIN u.addToSet}
       PROVE  r[x] = IF x \in DOMAIN b THEN Larger(b[x], u.max[x]) ELSE u.max[x]
  BY <1>2, <1>3, <1>4, <1>6, <1>7, <1>10
<1>11. ASSUME NEW x \in DOMAIN u.min,
              x \notin UNION {DOMAIN u.set, DOMAIN u.inc, DOMAIN u.max, DOMAIN u.addToSet}
       PROVE  r[x] = IF x \in DOMAIN b THEN Smaller(b[x], u.min[x]) ELSE u.min[x]
  BY <1>2, <1>3, <1>4, <1>6, <1>7, <1>11
<1>12. ASSUME NEW x \in DOMAIN u.addToSet,
              x \notin UNION {DOMAIN u.set, DOMAIN u.inc, DOMAIN u.max, DOMAIN u.min}
       PROVE  r[x] = IF x \in DOMAIN b THEN b[x] \cup {u.addToSet[x]} ELSE {u.addToSet[x]}
  <2>1. (x \in DOMAIN lowered <=> x \in DOMAIN b) /\ (x \in DOMAIN b => lowered[x] = b[x])
    BY <1>2, <1>3, <1>4, <1>12
  <2>2. r[x] = collected[x] BY <1>6, <1>7, <1>12
  <2>3. CASE x \in DOMAIN b
    <3>1. collected[x] = lowered[x] \cup {u.addToSet[x]} BY <1>6, <2>1, <2>3
    <3>2. QED BY <2>1, <2>2, <2>3, <3>1
  <2>4. CASE x \notin DOMAIN b
    <3>1. collected[x] = {u.addToSet[x]} BY <1>6, <2>1, <2>4
    <3>2. QED BY <2>2, <2>4, <3>1
  <2>5. QED BY <2>3, <2>4
<1>13. ASSUME NEW x \in DOMAIN b,
              x \notin UNION {DOMAIN u.set, DOMAIN u.inc, DOMAIN u.max, DOMAIN u.min, DOMAIN u.addToSet}
       PROVE  r[x] = b[x]
  BY <1>2, <1>3, <1>4, <1>6, <1>7, <1>13
<1>14. QED BY <1>7, <1>8, <1>9, <1>10, <1>11, <1>12, <1>13 DEF b, r

(* The names each operator may touch.                                      *)
SetKind == {"last_event_id", "last_event_type", "user_id", "anonymous_id", "last_order_id",
            "last_product_added", "signup_method", "last_login_method", "last_search_query"}
CountKind == {"total_events", "purchase_count", "lifetime_value", "cart_adds_count", "login_count",
              "search_count"}
TimeKind == {"last_seen_ts", "last_purchase_at", "last_cart_at", "last_login_at", "last_search_at"}
InsertKind == {"first_seen_ts", "user_key", "business_name", "user_id", "anonymous_id"}

(* No field is touched by two operators, but for the ids of a new document.*)
LEMMA NamesDiffer ==
  ASSUME NEW e
  PROVE  /\ SetNames(e) \subseteq SetKind
         /\ Counted(e) \subseteq CountKind
         /\ Seen(e) \subseteq TimeKind
         /\ SignupNames(e) \subseteq {"signed_up_at"}
         /\ CurrencyNames(e) \subseteq {"currencies"}
         /\ InsertNames(e) \subseteq InsertKind
<1>1. IdentityNames(e) \subseteq {"user_id", "anonymous_id"} BY DEF IdentityNames, Present
<1>2. DetailNames(e) \subseteq SetKind BY DEF DetailNames, SetKind
<1>3. SetNames(e) \subseteq SetKind BY <1>1, <1>2 DEF SetNames, SetKind
<1>4. Counted(e) \subseteq CountKind BY DEF Counted, CountNames, CountKind
<1>5. Seen(e) \subseteq TimeKind BY DEF Seen, TimeNames, TimeKind
<1>6. SignupNames(e) \subseteq {"signed_up_at"} /\ CurrencyNames(e) \subseteq {"currencies"}
  BY DEF SignupNames, CurrencyNames
<1>7. InsertNames(e) \subseteq InsertKind BY <1>1 DEF InsertNames, InsertKind
<1>8. QED BY <1>3, <1>4, <1>5, <1>6, <1>7

(* The operators do not share a name.                                      *)
LEMMA KindsDiffer ==
  /\ SetKind \cap CountKind = {} /\ SetKind \cap TimeKind = {} /\ CountKind \cap TimeKind = {}
  /\ {"signed_up_at", "currencies"} \cap (SetKind \cup CountKind \cup TimeKind) = {}
  /\ InsertKind \cap (CountKind \cup TimeKind \cup {"signed_up_at", "currencies"}) = {}
  BY DEF SetKind, CountKind, TimeKind, InsertKind

(* x is in f what it is in g.                                              *)
Same(f, g, x) == (x \in DOMAIN f <=> x \in DOMAIN g) /\ (x \in DOMAIN f => f[x] = g[x])

(* The fields of an update, block by block, and that the blocks are apart. *)
LEMMA BlocksApart ==
  ASSUME NEW e, e.priced \in BOOLEAN, e.type \in Seq(STRING) \ {<<>>}
  PROVE  LET u == FinalUpdate(e)
             c == CountOf(e.type)
         IN
         /\ \A n : /\ Field(n) \in DOMAIN u.setOnInsert <=> n \in InsertNames(e)
                   /\ Field(n) \in DOMAIN u.set <=> n \in SetNames(e)
                   /\ Field(n) \in DOMAIN u.inc <=> n \in Counted(e)
                   /\ Field(n) \in DOMAIN u.max <=> n \in Seen(e)
                   /\ Field(n) \in DOMAIN u.min <=> n \in SignupNames(e)
                   /\ Field(n) \in DOMAIN u.addToSet <=> n \in CurrencyNames(e)
         /\ \A t \in Seq(STRING) \ {<<>>} :
              /\ CountOf(t) \in DOMAIN u.inc <=> t = e.type
              /\ CountOf(t) \notin UNION {DOMAIN u.setOnInsert, DOMAIN u.set, DOMAIN u.max,
                                          DOMAIN u.min, DOMAIN u.addToSet}
<1> DEFINE u == FinalUpdate(e)
           counts == Counted(e)
           times == Seen(e)
<1>1. /\ DOMAIN u.setOnInsert = Fields(InsertNames(e)) /\ DOMAIN u.set = Fields(SetNames(e))
      /\ DOMAIN u.inc = {CountOf(e.type)} \cup Fields(counts)
      /\ DOMAIN u.max = Fields(times)
      /\ DOMAIN u.min = Fields(SignupNames(e))
      /\ DOMAIN u.addToSet = Fields(CurrencyNames(e))
  <2>1. DOMAIN u.setOnInsert = Fields(InsertNames(e)) BY InsertBlock
  <2>2. DOMAIN u.set = Fields(SetNames(e)) BY SetBlock
  <2>3. DOMAIN u.inc = {CountOf(e.type)} \cup Fields(counts) BY IncBlock
  <2>4. /\ DOMAIN u.max = Fields(times) /\ DOMAIN u.min = Fields(SignupNames(e))
        /\ DOMAIN u.addToSet = Fields(CurrencyNames(e))
    <3>1. /\ Gives(u.max, times, e.ts) /\ Gives(u.min, SignupNames(e), e.ts)
          /\ Gives(u.addToSet, CurrencyNames(e), e.currency)
      BY ExtremeBlocks
    <3> HIDE DEF u, times
    <3>2. QED BY <3>1 DEF Gives
  <2>5. QED BY <2>1, <2>2, <2>3, <2>4
<1> HIDE DEF u, counts, times
<1>2. \A t \in Seq(STRING) \ {<<>>} : \A a : CountOf(t) \notin Fields(a)
  BY CountsDiffer DEF Fields
<1>3. \A t \in Seq(STRING) \ {<<>>} : CountOf(t) = CountOf(e.type) <=> t = e.type
  BY CountsDiffer
<1>4. \A t \in Seq(STRING) \ {<<>>} :
        /\ CountOf(t) \in DOMAIN u.inc <=> t = e.type
        /\ CountOf(t) \notin DOMAIN u.setOnInsert /\ CountOf(t) \notin DOMAIN u.set
        /\ CountOf(t) \notin DOMAIN u.max /\ CountOf(t) \notin DOMAIN u.min
        /\ CountOf(t) \notin DOMAIN u.addToSet
  BY <1>1, <1>2, <1>3
<1>5. \A n : Field(n) # CountOf(e.type) BY CountsDiffer
<1>6. \A n : /\ Field(n) \in DOMAIN u.setOnInsert <=> n \in InsertNames(e)
             /\ Field(n) \in DOMAIN u.set <=> n \in SetNames(e)
             /\ Field(n) \in DOMAIN u.inc <=> n \in counts
             /\ Field(n) \in DOMAIN u.max <=> n \in times
             /\ Field(n) \in DOMAIN u.min <=> n \in SignupNames(e)
             /\ Field(n) \in DOMAIN u.addToSet <=> n \in CurrencyNames(e)
  BY <1>1, <1>5, FieldIn
<1>7. QED BY <1>4, <1>6 DEF u, counts, times

(* The fields the update for an event touches, whatever the document.      *)
Touched(e) == SetNames(e) \cup Counted(e) \cup Seen(e) \cup SignupNames(e) \cup CurrencyNames(e)

(* What that update does, field by field: d is the document, b what the    *)
(* update finds and r what it leaves.                                      *)
Applied(e, d, b, r) ==
  /\ \A n \in SetNames(e) : Reads(r, n, SetValue(e, n))
  /\ \A n \in Counted(e) :
       Counter(d, Field(n)) \in Int => Reads(r, n, Counter(d, Field(n)) + Increment(e, n))
  /\ \A n \in Seen(e) : Reads(r, n, IF Lacks(d, n) THEN e.ts ELSE Larger(d[Field(n)], e.ts))
  /\ \A n \in SignupNames(e) :
       Reads(r, n, IF Lacks(d, n) THEN e.ts ELSE Smaller(d[Field(n)], e.ts))
  /\ \A n \in CurrencyNames(e) :
       Reads(r, n, IF Lacks(d, n) THEN {e.currency} ELSE d[Field(n)] \cup {e.currency})
  /\ \A n : n \notin Touched(e) => Same(r, b, Field(n))
  /\ \A n : n \notin InsertNames(e) => Same(b, d, Field(n))
  /\ d = NoFields => \A n \in InsertNames(e) : Reads(b, n, InsertValue(e, n))
  /\ Counter(d, CountOf(e.type)) \in Int =>
       Counter(r, CountOf(e.type)) = Counter(d, CountOf(e.type)) + 1
  /\ \A t \in Seq(STRING) \ {<<>>} : t # e.type => Same(r, d, CountOf(t))

(* That is what the store does.                                            *)
LEMMA AppliedFields ==
  ASSUME NEW e, e.priced \in BOOLEAN, e.price \in Int, e.type \in Seq(STRING) \ {<<>>}, NEW d
  PROVE  Applied(e, d, Base(d, FinalUpdate(e)), ApplyUpdate(d, FinalUpdate(e)))
<1> DEFINE u == FinalUpdate(e)
           b == Base(d, u)
           r == ApplyUpdate(d, u)
           counts == Counted(e)
           times == Seen(e)
           sets == SetNames(e)
           inserts == InsertNames(e)
           signups == SignupNames(e)
           currencies == CurrencyNames(e)
<1>1. /\ \A n : /\ Field(n) \in DOMAIN u.setOnInsert <=> n \in inserts
                /\ Field(n) \in DOMAIN u.set <=> n \in sets
                /\ Field(n) \in DOMAIN u.inc <=> n \in counts
                /\ Field(n) \in DOMAIN u.max <=> n \in times
                /\ Field(n) \in DOMAIN u.min <=> n \in signups
                /\ Field(n) \in DOMAIN u.addToSet <=> n \in currencies
      /\ \A t \in Seq(STRING) \ {<<>>} :
           /\ CountOf(t) \in DOMAIN u.inc <=> t = e.type
           /\ CountOf(t) \notin UNION {DOMAIN u.setOnInsert, DOMAIN u.set, DOMAIN u.max,
                                       DOMAIN u.min, DOMAIN u.addToSet}
  BY BlocksApart
<1>2. /\ sets \subseteq SetKind /\ counts \subseteq CountKind /\ times \subseteq TimeKind
      /\ signups \subseteq {"signed_up_at"} /\ currencies \subseteq {"currencies"}
      /\ inserts \subseteq InsertKind
  BY NamesDiffer
<1>3. /\ \A n \in inserts : u.setOnInsert[Field(n)] = InsertValue(e, n)
      /\ \A n \in sets : u.set[Field(n)] = SetValue(e, n)
      /\ u.inc[CountOf(e.type)] = 1
      /\ \A n \in counts : u.inc[Field(n)] = Increment(e, n)
      /\ Gives(u.max, times, e.ts) /\ Gives(u.min, signups, e.ts)
      /\ Gives(u.addToSet, currencies, e.currency)
  <2>1. \A n \in inserts : u.setOnInsert[Field(n)] = InsertValue(e, n) BY InsertBlock
  <2>2. \A n \in sets : u.set[Field(n)] = SetValue(e, n) BY SetBlock
  <2>3. u.inc[CountOf(e.type)] = 1 /\ \A n \in counts : u.inc[Field(n)] = Increment(e, n) BY IncBlock
  <2>4. /\ Gives(u.max, times, e.ts) /\ Gives(u.min, signups, e.ts)
        /\ Gives(u.addToSet, currencies, e.currency)
    BY ExtremeBlocks
  <2>5. QED BY <2>1, <2>2, <2>3, <2>4
<1>4. /\ DOMAIN r = UNION {DOMAIN b, DOMAIN u.set, DOMAIN u.inc, DOMAIN u.max, DOMAIN u.min,
                           DOMAIN u.addToSet}
      /\ \A x \in DOMAIN u.set : r[x] = u.set[x]
      /\ \A x \in DOMAIN u.inc :
           x \notin UNION {DOMAIN u.set, DOMAIN u.max, DOMAIN u.min, DOMAIN u.addToSet} =>
             r[x] = IF x \in DOMAIN b THEN b[x] + u.inc[x] ELSE u.inc[x]
      /\ \A x \in DOMAIN u.max :
           x \notin UNION {DOMAIN u.set, DOMAIN u.inc, DOMAIN u.min, DOMAIN u.addToSet} =>
             r[x] = IF x \in DOMAIN b THEN Larger(b[x], u.max[x]) ELSE u.max[x]
      /\ \A x \in DOMAIN u.min :
           x \notin UNION {DOMAIN u.set, DOMAIN u.inc, DOMAIN u.max, DOMAIN u.addToSet} =>
             r[x] = IF x \in DOMAIN b THEN Smaller(b[x], u.min[x]) ELSE u.min[x]
      /\ \A x \in DOMAIN u.addToSet :
           x \notin UNION {DOMAIN u.set, DOMAIN u.inc, DOMAIN u.max, DOMAIN u.min} =>
             r[x] = IF x \in DOMAIN b THEN b[x] \cup {u.addToSet[x]} ELSE {u.addToSet[x]}
      /\ \A x \in DOMAIN b :
           x \notin UNION {DOMAIN u.set, DOMAIN u.inc, DOMAIN u.max, DOMAIN u.min, DOMAIN u.addToSet}
             => r[x] = b[x]
  BY ApplyFields
<1> HIDE DEF r, counts, times, sets, inserts, signups, currencies
<1>5. \A x : x \notin DOMAIN u.setOnInsert => Same(b, d, x)
  BY NoFieldsEmpty DEF Same, Base
<1>6. d = NoFields => b = u.setOnInsert BY DEF Base
<1> HIDE DEF u, b
<1>7. \A n : n \notin inserts => Same(b, d, Field(n)) BY <1>1, <1>5
<1>8. d = NoFields => \A n \in inserts : Reads(b, n, InsertValue(e, n))
  BY <1>1, <1>3, <1>6 DEF Reads
<1>9. \A n \in sets : Reads(r, n, SetValue(e, n))
  BY <1>1, <1>3, <1>4 DEF Reads
<1>10. \A n : n \notin UNION {sets, counts, times, signups, currencies} => Same(r, b, Field(n))
  BY <1>1, <1>4 DEF Same
<1>11. \A n \in counts : n \notin UNION {sets, times, signups, currencies, inserts}
  BY <1>2, KindsDiffer
<1>12. \A n \in times : n \notin UNION {sets, counts, signups, currencies, inserts}
  BY <1>2, KindsDiffer
<1>13. \A n \in signups : n \notin UNION {sets, counts, times, currencies, inserts}
  BY <1>2, KindsDiffer
<1>14. \A n \in currencies : n \notin UNION {sets, counts, times, signups, inserts}
  BY <1>2, KindsDiffer
<1>15. ASSUME NEW n \in counts, Counter(d, Field(n)) \in Int
       PROVE  Reads(r, n, Counter(d, Field(n)) + Increment(e, n))
  <2>1. Same(b, d, Field(n)) BY <1>7, <1>11, <1>15
  <2>2. Increment(e, n) \in Int BY DEF Increment
  <2>3. /\ Field(n) \in DOMAIN r
        /\ r[Field(n)] = IF Field(n) \in DOMAIN b THEN b[Field(n)] + Increment(e, n) ELSE Increment(e, n)
    BY <1>1, <1>3, <1>4, <1>11, <1>15
  <2>4. QED BY <1>15, <2>1, <2>2, <2>3 DEF Same, Counter, Reads
<1>16. ASSUME NEW n \in times
       PROVE  Reads(r, n, IF Lacks(d, n) THEN e.ts ELSE Larger(d[Field(n)], e.ts))
  <2>1. Same(b, d, Field(n)) BY <1>7, <1>12, <1>16
  <2>2. /\ Field(n) \in DOMAIN r
        /\ r[Field(n)] = IF Field(n) \in DOMAIN b THEN Larger(b[Field(n)], u.max[Field(n)])
                         ELSE u.max[Field(n)]
    BY <1>1, <1>4, <1>12, <1>16
  <2>3. u.max[Field(n)] = e.ts BY <1>3, <1>16 DEF Gives
  <2>4. QED BY <2>1, <2>2, <2>3 DEF Same, Lacks, Reads
<1>17. ASSUME NEW n \in signups
       PROVE  Reads(r, n, IF Lacks(d, n) THEN e.ts ELSE Smaller(d[Field(n)], e.ts))
  <2>1. Same(b, d, Field(n)) BY <1>7, <1>13, <1>17
  <2>2. /\ Field(n) \in DOMAIN r
        /\ r[Field(n)] = IF Field(n) \in DOMAIN b THEN Smaller(b[Field(n)], u.min[Field(n)])
                         ELSE u.min[Field(n)]
    BY <1>1, <1>4, <1>13, <1>17
  <2>3. u.min[Field(n)] = e.ts BY <1>3, <1>17 DEF Gives
  <2>4. QED BY <2>1, <2>2, <2>3 DEF Same, Lacks, Reads
<1>18. ASSUME NEW n \in currencies
       PROVE  Reads(r, n, IF Lacks(d, n) THEN {e.currency} ELSE d[Field(n)] \cup {e.currency})
  <2>1. Same(b, d, Field(n)) BY <1>7, <1>14, <1>18
  <2>2. /\ Field(n) \in DOMAIN r
        /\ r[Field(n)] = IF Field(n) \in DOMAIN b THEN b[Field(n)] \cup {u.addToSet[Field(n)]}
                         ELSE {u.addToSet[Field(n)]}
    BY <1>1, <1>4, <1>14, <1>18
  <2>3. u.addToSet[Field(n)] = e.currency BY <1>3, <1>18 DEF Gives
  <2>4. QED BY <2>1, <2>2, <2>3 DEF Same, Lacks, Reads
<1>19. \A t \in Seq(STRING) \ {<<>>} : Same(b, d, CountOf(t))
  BY <1>1, <1>5
<1>20. \A t \in Seq(STRING) \ {<<>>} : t # e.type => Same(r, d, CountOf(t))
  <2>1. SUFFICES ASSUME NEW t \in Seq(STRING) \ {<<>>}, t # e.type PROVE Same(r, d, CountOf(t))
    OBVIOUS
  <2>2. CountOf(t) \notin UNION {DOMAIN u.set, DOMAIN u.inc, DOMAIN u.max, DOMAIN u.min,
                                 DOMAIN u.addToSet}
    BY <1>1, <2>1
  <2>3. Same(r, b, CountOf(t)) BY <1>4, <2>2 DEF Same
  <2>4. QED BY <1>19, <2>3 DEF Same
<1>21. ASSUME Counter(d, CountOf(e.type)) \in Int
       PROVE  Counter(r, CountOf(e.type)) = Counter(d, CountOf(e.type)) + 1
  <2>1. /\ CountOf(e.type) \in DOMAIN u.inc
        /\ CountOf(e.type) \notin UNION {DOMAIN u.set, DOMAIN u.max, DOMAIN u.min, DOMAIN u.addToSet}
    BY <1>1
  <2>2. /\ CountOf(e.type) \in DOMAIN r
        /\ r[CountOf(e.type)] = IF CountOf(e.type) \in DOMAIN b THEN b[CountOf(e.type)] + 1 ELSE 1
    BY <1>3, <1>4, <2>1
  <2>3. QED BY <1>19, <1>21, <2>2 DEF Same, Counter
<1>22. \A n : n \notin Touched(e) => Same(r, b, Field(n))
  BY <1>10 DEF Touched, sets, counts, times, signups, currencies
<1>23. QED
  BY <1>7, <1>8, <1>9, <1>15, <1>16, <1>17, <1>18, <1>20, <1>21, <1>22
  DEF Applied, u, b, r, counts, times, sets, inserts, signups, currencies

(* What the validator lets through.                                        *)
LEMMA EventTypes ==
  ASSUME NEW e \in Events
  PROVE  /\ e.type \in Seq(STRING) \ {<<>>} /\ e.id # "" /\ e.anon # "" /\ e.ts \in Nat
         /\ e.price \in Int /\ e.priced \in BOOLEAN
  BY EventsAssumption

(* So for every event that may arrive.                                     *)
LEMMA StepApplies ==
  ASSUME NEW e \in Events, NEW d
  PROVE  Applied(e, d, Base(d, FinalUpdate(e)), ApplyUpdate(d, FinalUpdate(e)))
<1>1. e.priced \in BOOLEAN /\ e.price \in Int /\ e.type \in Seq(STRING) \ {<<>>}
  BY EventTypes
<1>2. QED BY <1>1, AppliedFields

(* What a field that no operator touches keeps.                            *)
LEMMA Untouched ==
  ASSUME NEW e \in Events, NEW d, NEW n,
         n \in UNION {SetKind, CountKind, TimeKind, {"signed_up_at", "currencies"}},
         n \notin Touched(e)
  PROVE  Same(ApplyUpdate(d, FinalUpdate(e)), d, Field(n))
<1> DEFINE u == FinalUpdate(e)
           b == Base(d, u)
           r == ApplyUpdate(d, u)
<1>2. n \notin InsertNames(e)
  <2>1. n \notin {"first_seen_ts", "user_key", "business_name"}
    BY DEF SetKind, CountKind, TimeKind
  <2>2. n \notin IdentityNames(e) BY DEF Touched, SetNames
  <2>3. QED BY <2>1, <2>2 DEF InsertNames
<1>3. Applied(e, d, b, r) BY StepApplies
<1> HIDE DEF b, r
<1>4. Same(r, b, Field(n)) /\ Same(b, d, Field(n)) BY <1>2, <1>3 DEF Applied
<1>5. QED BY <1>4 DEF Same, r

(* The types whose builder counts, keeps a time, and keeps a detail.       *)
CounterType(n) ==
  CASE n = "purchase_count" -> PURCHASE [] n = "cart_adds_count" -> ADD_TO_CART
    [] n = "login_count" -> USER_LOGIN [] n = "search_count" -> SEARCH
TimeType(n) ==
  CASE n = "last_purchase_at" -> PURCHASE [] n = "last_cart_at" -> ADD_TO_CART
    [] n = "last_login_at" -> USER_LOGIN [] n = "last_search_at" -> SEARCH
DetailType(n) ==
  CASE n = "last_order_id" -> PURCHASE [] n = "last_product_added" -> ADD_TO_CART
    [] n = "last_login_method" -> USER_LOGIN [] n = "last_search_query" -> SEARCH
    [] n = "signup_method" -> USER_SIGNUP
CounterFields == {"purchase_count", "cart_adds_count", "login_count", "search_count"}
TimeFields == {"last_purchase_at", "last_cart_at", "last_login_at", "last_search_at"}
DetailFields == {"last_order_id", "last_product_added", "last_login_method", "last_search_query",
                 "signup_method"}

(* The builder of a type touches its own fields and no other builder does. *)
LEMMA FieldTypes ==
  ASSUME NEW e \in Events
  PROVE  /\ \A n \in CounterFields : n \in Counted(e) <=> e.type = CounterType(n)
         /\ "lifetime_value" \in Counted(e) <=> e.type = PURCHASE /\ e.priced
         /\ \A n \in TimeFields : n \in Seen(e) <=> e.type = TimeType(n)
         /\ \A n \in DetailFields : n \in SetNames(e) <=> e.type = DetailType(n) /\ e.detail # ""
         /\ \A n \in DetailFields \cap SetNames(e) : SetValue(e, n) = e.detail
         /\ {"last_event_id", "last_event_type", "anonymous_id"} \subseteq SetNames(e)
         /\ "user_id" \in SetNames(e) <=> e.user # ""
<1>1. \A n \in CounterFields : n \in Counted(e) <=> e.type = CounterType(n)
  BY TypesDiffer DEF CounterFields, Counted, CountNames, CounterType
<1>2. "lifetime_value" \in Counted(e) <=> e.type = PURCHASE /\ e.priced
  BY DEF Counted, CountNames
<1>3. \A n \in TimeFields : n \in Seen(e) <=> e.type = TimeType(n)
  BY TypesDiffer DEF TimeFields, Seen, TimeNames, TimeType
<1>4. \A n \in DetailFields : n \in DetailNames(e) <=> e.type = DetailType(n) /\ e.detail # ""
  BY TypesDiffer DEF DetailFields, DetailNames, DetailType
<1>5. IdentityNames(e) \subseteq {"user_id", "anonymous_id"} BY DEF IdentityNames, Present
<1>6. \A n \in DetailFields : n \in SetNames(e) <=> n \in DetailNames(e)
  BY <1>5 DEF DetailFields, SetNames
<1>7. \A n \in DetailFields \cap SetNames(e) : SetValue(e, n) = e.detail
  BY <1>6 DEF SetValue
<1>8. {"last_event_id", "last_event_type", "anonymous_id"} \subseteq SetNames(e)
  BY EventTypes DEF SetNames, IdentityNames, Present
<1>9. DetailNames(e) \subseteq DetailFields BY DEF DetailNames, DetailFields
<1>10. "user_id" \in SetNames(e) <=> e.user # ""
  BY <1>9 DEF SetNames, IdentityNames, Present, DetailFields
<1>11. QED BY <1>1, <1>2, <1>3, <1>4, <1>6, <1>7, <1>8, <1>10
-----------------------------------------------------------------------------
(* A history with one more event.                                          *)
LEMMA OneMore ==
  ASSUME NEW h \in Seq(Events), NEW e \in Events
  PROVE  LET g == Append(h, e)
             m == Len(h) + 1
         IN
         /\ g \in Seq(Events) /\ Len(h) \in Nat /\ Len(g) = m /\ g[m] = e /\ Last(g) = e
         /\ DOMAIN h = 1..Len(h) /\ DOMAIN g = DOMAIN h \cup {m} /\ m \notin DOMAIN h
         /\ \A i \in DOMAIN h : h[i] \in Events /\ g[i] = h[i]
  BY DEF Last

(* One more event counts for its type only.                                *)
LEMMA OneMoreNumber ==
  ASSUME NEW h \in Seq(Events), NEW e \in Events, NEW type
  PROVE  /\ NumberOf(h, type) \in Nat
         /\ NumberOf(Append(h, e), type) = NumberOf(h, type) + (IF e.type = type THEN 1 ELSE 0)
<1> DEFINE g == Append(h, e)
           m == Len(h) + 1
           I == {i \in DOMAIN h : h[i].type = type}
           J == {i \in DOMAIN g : g[i].type = type}
<1>1. /\ Len(h) \in Nat /\ DOMAIN h = 1..Len(h)
      /\ DOMAIN g = DOMAIN h \cup {m} /\ m \notin DOMAIN h /\ g[m] = e
      /\ \A i \in DOMAIN h : g[i] = h[i]
  BY OneMore
<1> HIDE DEF g, m
<1>2. IsFiniteSet(DOMAIN h) BY <1>1, FS_Interval
<1>3. IsFiniteSet(I) BY <1>2, FS_Subset
<1>4. J = I \cup (IF e.type = type THEN {m} ELSE {}) BY <1>1
<1>5. m \notin I BY <1>1
<1>6. Cardinality(I) \in Nat BY <1>3, FS_CardinalityType
<1>7. CASE e.type = type
  <2>1. J = I \cup {m} BY <1>4, <1>7
  <2> HIDE DEF I, J
  <2>2. Cardinality(J) = Cardinality(I) + 1 BY <1>3, <1>5, <2>1, FS_AddElement
  <2>3. QED BY <1>6, <1>7, <2>2 DEF NumberOf, I, J, g
<1>8. CASE e.type # type
  <2>1. J = I BY <1>4, <1>8
  <2> HIDE DEF I, J
  <2>2. Cardinality(J) = Cardinality(I) + 0 BY <1>6, <2>1
  <2>3. QED BY <1>6, <1>8, <2>2 DEF NumberOf, I, J, g
<1>9. QED BY <1>7, <1>8

(* And adds its time, its currency, its detail and its user.               *)
LEMMA OneMoreSets ==
  ASSUME NEW h \in Seq(Events), NEW e \in Events, NEW type
  PROVE  LET g == Append(h, e)
             m == Len(h) + 1
         IN
         /\ TimesOf(g, type) = TimesOf(h, type) \cup (IF e.type = type THEN {e.ts} ELSE {})
         /\ {g[i].ts : i \in DOMAIN g} = {h[i].ts : i \in DOMAIN h} \cup {e.ts}
         /\ Currencies(g) = Currencies(h) \cup
              (IF e.type = PURCHASE /\ e.currency # "" THEN {e.currency} ELSE {})
         /\ Detailed(g, type) = Detailed(h, type) \cup
              (IF e.type = type /\ e.detail # "" THEN {m} ELSE {})
         /\ Identified(g) = Identified(h) \cup (IF e.user # "" THEN {m} ELSE {})
<1> DEFINE g == Append(h, e)
           m == Len(h) + 1
<1>1. /\ DOMAIN g = DOMAIN h \cup {m} /\ m \notin DOMAIN h /\ g[m] = e
      /\ \A i \in DOMAIN h : g[i] = h[i]
  BY OneMore
<1> HIDE DEF g, m
<1>2. TimesOf(g, type) = TimesOf(h, type) \cup (IF e.type = type THEN {e.ts} ELSE {})
  BY <1>1 DEF TimesOf
<1>3. {g[i].ts : i \in DOMAIN g} = {h[i].ts : i \in DOMAIN h} \cup {e.ts} BY <1>1
<1>4. Currencies(g) = Currencies(h) \cup
        (IF e.type = PURCHASE /\ e.currency # "" THEN {e.currency} ELSE {})
  BY <1>1 DEF Currencies
<1>5. Detailed(g, type) = Detailed(h, type) \cup
        (IF e.type = type /\ e.detail # "" THEN {m} ELSE {})
  BY <1>1 DEF Detailed
<1>6. Identified(g) = Identified(h) \cup (IF e.user # "" THEN {m} ELSE {})
  BY <1>1 DEF Identified
<1>7. QED BY <1>2, <1>3, <1>4, <1>5, <1>6 DEF g, m

(* The two of them for every type at once.                                 *)
LEMMA OneMoreTimes ==
  ASSUME NEW h \in Seq(Events), NEW e \in Events
  PROVE  \A t : TimesOf(Append(h, e), t) =
                  TimesOf(h, t) \cup (IF e.type = t THEN {e.ts} ELSE {})
<1>1. TAKE t
<1>2. QED BY OneMoreSets

LEMMA OneMoreDetails ==
  ASSUME NEW h \in Seq(Events), NEW e \in Events
  PROVE  \A t : Detailed(Append(h, e), t) = Detailed(h, t) \cup
                  (IF e.type = t /\ e.detail # "" THEN {Len(h) + 1} ELSE {})
<1>1. TAKE t
<1>2. QED BY OneMoreSets

(* m is the largest of S.                                                  *)
Largest(m, S) == m \in S /\ \A i \in S : m >= i

(* The largest is what Max gives, and the least what Min gives.            *)
LEMMA MaxIs == \A S : \A m : S \subseteq Int /\ Largest(m, S) => Max(S) = m
<1>1. SUFFICES ASSUME NEW S, NEW m, S \subseteq Int, Largest(m, S) PROVE Max(S) = m
  OBVIOUS
<1>2. Max(S) \in S /\ \A i \in S : Max(S) >= i
  BY <1>1 DEF Largest, Max
<1>3. m \in Int /\ Max(S) \in Int BY <1>1, <1>2 DEF Largest
<1>4. m >= Max(S) /\ Max(S) >= m BY <1>1, <1>2 DEF Largest
<1>5. QED BY <1>3, <1>4

(* As MaxIs.                                                               *)
LEMMA MinIs ==
  \A S : \A m : S \subseteq Int /\ m \in S /\ (\A i \in S : m <= i) => Min(S) = m
<1>1. SUFFICES ASSUME NEW S, NEW m, S \subseteq Int, m \in S, \A i \in S : m <= i PROVE Min(S) = m
  OBVIOUS
<1>2. Min(S) \in S /\ \A i \in S : Min(S) <= i
  BY <1>1 DEF Min
<1>3. m \in Int /\ Min(S) \in Int BY <1>1, <1>2
<1>4. m <= Min(S) /\ Min(S) <= m BY <1>1, <1>2
<1>5. QED BY <1>3, <1>4

-----------------------------------------------------------------------------
(* The document d of a history h counts h.                                 *)
Counts(d, h) ==
  /\ Counter(d, Field("total_events")) = Len(h)
  /\ h # <<>> => Field("total_events") \in DOMAIN d
  /\ \A t \in Seq(STRING) \ {<<>>} : Counter(d, CountOf(t)) = NumberOf(h, t)
  /\ \A n \in CounterFields : Counter(d, Field(n)) = NumberOf(h, CounterType(n))

(* One more event is one more on the right counters.                       *)
LEMMA CountsStep ==
  ASSUME NEW e \in Events, NEW h \in Seq(Events), NEW d, Counts(d, h)
  PROVE  Counts(ApplyUpdate(d, FinalUpdate(e)), Append(h, e))
<1> DEFINE u == FinalUpdate(e)
           b == Base(d, u)
           r == ApplyUpdate(d, u)
           g == Append(h, e)
<1>1. Applied(e, d, b, r) BY StepApplies
<1>2. \A n : /\ n \in UNION {SetKind, CountKind, TimeKind, {"signed_up_at", "currencies"}}
             /\ n \notin Touched(e)
             => Same(r, d, Field(n))
  BY Untouched
<1>3. /\ Len(g) = Len(h) + 1 /\ Len(h) \in Nat
      /\ \A t : /\ NumberOf(h, t) \in Nat
                /\ NumberOf(g, t) = NumberOf(h, t) + (IF e.type = t THEN 1 ELSE 0)
  BY OneMore, OneMoreNumber
<1> HIDE DEF b, r, g
<1>4. Reads(r, "total_events", Len(g))
  <2>1. "total_events" \in Counted(e) /\ Increment(e, "total_events") = 1 BY DEF Counted, Increment
  <2>2. QED BY <1>1, <1>3, <2>1 DEF Applied, Counts
<1>5. \A t \in Seq(STRING) \ {<<>>} : Counter(r, CountOf(t)) = NumberOf(g, t)
  <2>1. SUFFICES ASSUME NEW t \in Seq(STRING) \ {<<>>} PROVE Counter(r, CountOf(t)) = NumberOf(g, t)
    OBVIOUS
  <2>2. Counter(d, CountOf(t)) = NumberOf(h, t) /\ NumberOf(h, t) \in Int BY <1>3 DEF Counts
  <2>3. CASE t = e.type BY <1>1, <1>3, <2>2, <2>3 DEF Applied
  <2>4. CASE t # e.type
    <3>1. Same(r, d, CountOf(t)) BY <1>1, <2>4 DEF Applied
    <3>2. QED BY <1>3, <2>2, <2>4, <3>1 DEF Same, Counter
  <2>5. QED BY <2>3, <2>4
<1>6. \A n \in CounterFields : Counter(r, Field(n)) = NumberOf(g, CounterType(n))
  <2>1. SUFFICES ASSUME NEW n \in CounterFields
                 PROVE  Counter(r, Field(n)) = NumberOf(g, CounterType(n))
    OBVIOUS
  <2>2. /\ Counter(d, Field(n)) = NumberOf(h, CounterType(n)) /\ NumberOf(h, CounterType(n)) \in Nat
        /\ NumberOf(g, CounterType(n)) =
             NumberOf(h, CounterType(n)) + (IF e.type = CounterType(n) THEN 1 ELSE 0)
    BY <1>3 DEF Counts
  <2>3. n \in Counted(e) <=> e.type = CounterType(n) BY FieldTypes
  <2>4. n # "lifetime_value" /\ n \in CountKind BY DEF CounterFields, CountKind
  <2>5. CASE n \in Counted(e)
    <3>1. Reads(r, n, Counter(d, Field(n)) + 1)
      BY <1>1, <2>2, <2>4, <2>5 DEF Applied, Increment
    <3>2. QED BY <2>2, <2>3, <2>5, <3>1 DEF Reads, Counter
  <2>6. CASE n \notin Counted(e)
    <3>1. n \notin Touched(e) BY <2>4, <2>6, NamesDiffer, KindsDiffer DEF Touched
    <3>2. Same(r, d, Field(n)) BY <1>2, <2>4, <3>1
    <3>3. QED BY <2>2, <2>3, <2>6, <3>2 DEF Same, Counter
  <2>7. QED BY <2>5, <2>6
<1>7. QED BY <1>4, <1>5, <1>6 DEF Counts, Reads, Counter, r, g

(* f is the running sum of the prices of h.                                *)
IsSum(f, h) == f = [i \in 0..Len(h) |-> IF i = 0 THEN 0 ELSE f[i - 1] + PriceOf(h[i])]

(* The document d has the sum of the prices of h.  It is stated of every   *)
(* running sum, and that there is one, as Spent picks some such function.  *)
Sum(d, h) ==
  /\ Counter(d, Field("lifetime_value")) \in Int
  /\ \E f : IsSum(f, h)
  /\ \A f : IsSum(f, h) => f[Len(h)] = Counter(d, Field("lifetime_value"))

(* That is what Spent says.                                                *)
LEMMA SumIsSpent == \A d, h : Sum(d, h) => Counter(d, Field("lifetime_value")) = Spent(h)
<1>1. SUFFICES ASSUME NEW d, NEW h, Sum(d, h) PROVE Counter(d, Field("lifetime_value")) = Spent(h)
  OBVIOUS
<1>2. Spent(h) = (CHOOSE f : IsSum(f, h))[Len(h)] BY DEF Spent, IsSum
<1>3. IsSum(CHOOSE f : IsSum(f, h), h) BY <1>1 DEF Sum
<1>4. QED BY <1>1, <1>2, <1>3 DEF Sum

(* One more event adds its price.                                          *)
LEMMA SumStep ==
  ASSUME NEW e \in Events, NEW h \in Seq(Events), NEW d, Sum(d, h)
  PROVE  Sum(ApplyUpdate(d, FinalUpdate(e)), Append(h, e))
<1> DEFINE r == ApplyUpdate(d, FinalUpdate(e))
           g == Append(h, e)
           F == Field("lifetime_value")
           m == Len(h) + 1
<1>1. /\ Len(h) \in Nat /\ Len(g) = m /\ g[m] = e /\ DOMAIN h = 1..Len(h)
      /\ \A i \in 1..Len(h) : g[i] = h[i]
  BY OneMore
<1>2. PriceOf(e) \in Int
  <2>1. e.price \in Int BY EventTypes
  <2>2. QED BY <2>1 DEF PriceOf
<1>3. Counter(r, F) = Counter(d, F) + PriceOf(e)
  <2>1. Applied(e, d, Base(d, FinalUpdate(e)), r) BY StepApplies
  <2>2. Counter(d, F) \in Int BY DEF Sum
  <2>3. "lifetime_value" \in Counted(e) <=> e.type = PURCHASE /\ e.priced BY FieldTypes
  <2>4. CASE "lifetime_value" \in Counted(e)
    <3>1. Increment(e, "lifetime_value") = PriceOf(e) BY <2>3, <2>4 DEF Increment, PriceOf
    <3>2. Reads(r, "lifetime_value", Counter(d, F) + PriceOf(e))
      BY <2>1, <2>2, <2>4, <3>1 DEF Applied
    <3>3. QED BY <3>2 DEF Reads, Counter
  <2>5. CASE "lifetime_value" \notin Counted(e)
    <3>1. PriceOf(e) = 0 BY <2>3, <2>5 DEF PriceOf
    <3>2. "lifetime_value" \in CountKind BY DEF CountKind
    <3>3. "lifetime_value" \notin Touched(e) BY <2>5, <3>2, NamesDiffer, KindsDiffer DEF Touched
    <3>4. Same(r, d, F) BY <3>2, <3>3, Untouched
    <3>5. Counter(r, F) = Counter(d, F) BY <3>4 DEF Same, Counter
    <3>6. QED BY <2>2, <3>1, <3>5
  <2>6. QED BY <2>4, <2>5
<1> HIDE DEF r, g, F
<1>4. ASSUME NEW f, IsSum(f, g) PROVE f[Len(g)] = Counter(r, F)
  <2> DEFINE k == [i \in 0..Len(h) |-> f[i]]
  <2>1. \A i \in 0..m : f[i] = IF i = 0 THEN 0 ELSE f[i - 1] + PriceOf(g[i]) BY <1>1, <1>4 DEF IsSum
  <2>2. \A i \in 0..Len(h) : k[i] = IF i = 0 THEN 0 ELSE k[i - 1] + PriceOf(h[i])
    BY <1>1, <2>1
  <2>3. IsSum(k, h) BY <2>2 DEF IsSum
  <2>4. k[Len(h)] = Counter(d, F) BY <2>3 DEF Sum, F
  <2>5. f[m] = f[Len(h)] + PriceOf(e) BY <1>1, <2>1
  <2>6. k[Len(h)] = f[Len(h)] BY <1>1
  <2>7. QED BY <1>1, <1>3, <2>4, <2>5, <2>6
<1>5. \E f : IsSum(f, g)
  <2>1. PICK f : IsSum(f, h) BY DEF Sum
  <2> DEFINE k == [i \in 0..m |-> IF i = m THEN f[Len(h)] + PriceOf(e) ELSE f[i]]
  <2>2. \A i \in 0..Len(h) : f[i] = IF i = 0 THEN 0 ELSE f[i - 1] + PriceOf(h[i])
    BY <2>1 DEF IsSum
  <2>3. \A i \in 0..m : k[i] = IF i = 0 THEN 0 ELSE k[i - 1] + PriceOf(g[i])
    BY <1>1, <2>2
  <2>4. IsSum(k, g) BY <1>1, <2>3 DEF IsSum
  <2>5. QED BY <2>4
<1>6. Counter(r, F) \in Int BY <1>2, <1>3 DEF Sum, F
<1>7. QED BY <1>4, <1>5, <1>6 DEF Sum, r, g, F

(* The field n of d is the largest of S, if there is one.                  *)
HasLargest(d, n, S) ==
  IF S = {} THEN Lacks(d, n) ELSE Field(n) \in DOMAIN d /\ Largest(d[Field(n)], S)

(* One more time, in $max.                                                 *)
LEMMA LargestMore ==
  ASSUME NEW d, NEW r, NEW n, NEW S, NEW t \in Nat, S \subseteq Nat, HasLargest(d, n, S),
         Reads(r, n, IF Lacks(d, n) THEN t ELSE Larger(d[Field(n)], t))
  PROVE  HasLargest(r, n, S \cup {t})
<1>1. CASE S = {}
  BY <1>1 DEF HasLargest, Reads, Largest
<1>2. CASE S # {}
  <2>1. ~Lacks(d, n) /\ d[Field(n)] \in S /\ \A i \in S : d[Field(n)] >= i
    BY <1>2 DEF HasLargest, Largest, Lacks
  <2>2. d[Field(n)] \in Nat BY <2>1
  <2>3. Field(n) \in DOMAIN r /\ r[Field(n)] = IF d[Field(n)] >= t THEN d[Field(n)] ELSE t
    BY <2>1 DEF Reads, Larger
  <2>4. QED BY <2>1, <2>2, <2>3 DEF HasLargest, Largest
<1>3. QED BY <1>1, <1>2

(* The document d has the times of h: its latest ones, of all events and   *)
(* of the types that keep one.                                             *)
Times(d, h) ==
  /\ HasLargest(d, "last_seen_ts", {h[i].ts : i \in DOMAIN h})
  /\ \A n \in TimeFields : HasLargest(d, n, TimesOf(h, TimeType(n)))

(* One more event raises the right times.                                  *)
LEMMA TimesStep ==
  ASSUME NEW e \in Events, NEW h \in Seq(Events), NEW d, Times(d, h)
  PROVE  Times(ApplyUpdate(d, FinalUpdate(e)), Append(h, e))
<1> DEFINE b == Base(d, FinalUpdate(e))
           r == ApplyUpdate(d, FinalUpdate(e))
           g == Append(h, e)
           seen(s) == {s[i].ts : i \in DOMAIN s}
<1>1. Applied(e, d, b, r) BY StepApplies
<1>2. /\ seen(g) = seen(h) \cup {e.ts}
      /\ \A t : TimesOf(g, t) = TimesOf(h, t) \cup (IF e.type = t THEN {e.ts} ELSE {})
  <2>1. seen(g) = seen(h) \cup {e.ts} BY OneMoreSets
  <2>2. \A t : TimesOf(g, t) = TimesOf(h, t) \cup (IF e.type = t THEN {e.ts} ELSE {})
    BY OneMoreTimes
  <2>3. QED BY <2>1, <2>2
<1>3. e.ts \in Nat /\ seen(h) \subseteq Nat /\ \A t : TimesOf(h, t) \subseteq Nat
  <2>1. e.ts \in Nat /\ \A i \in DOMAIN h : h[i].ts \in Nat BY EventTypes, OneMore
  <2>2. QED BY <2>1 DEF TimesOf
<1>4. \A n : /\ n \in UNION {SetKind, CountKind, TimeKind, {"signed_up_at", "currencies"}}
             /\ n \notin Touched(e)
             => Same(r, d, Field(n))
  BY Untouched
<1> HIDE DEF b, r, g, seen
<1>5. \A n \in Seen(e) : Reads(r, n, IF Lacks(d, n) THEN e.ts ELSE Larger(d[Field(n)], e.ts))
  BY <1>1 DEF Applied
<1>6. HasLargest(r, "last_seen_ts", seen(g))
  <2>1. HasLargest(d, "last_seen_ts", seen(h)) BY DEF Times, seen
  <2>2. "last_seen_ts" \in Seen(e) BY DEF Seen
  <2>3. HasLargest(r, "last_seen_ts", seen(h) \cup {e.ts})
    BY <1>3, <1>5, <2>1, <2>2, LargestMore
  <2>4. QED BY <1>2, <2>3
<1>7. \A n \in TimeFields : HasLargest(r, n, TimesOf(g, TimeType(n)))
  <2>1. SUFFICES ASSUME NEW n \in TimeFields PROVE HasLargest(r, n, TimesOf(g, TimeType(n)))
    OBVIOUS
  <2> DEFINE S == TimesOf(h, TimeType(n))
  <2>2. HasLargest(d, n, S) BY DEF Times
  <2>3. n \in Seen(e) <=> e.type = TimeType(n) BY FieldTypes
  <2>4. S \subseteq Nat BY <1>3
  <2> HIDE DEF S
  <2>5. CASE n \in Seen(e)
    <3>1. HasLargest(r, n, S \cup {e.ts}) BY <1>3, <1>5, <2>2, <2>4, <2>5, LargestMore
    <3>2. TimesOf(g, TimeType(n)) = S \cup {e.ts} BY <1>2, <2>3, <2>5 DEF S
    <3>3. QED BY <3>1, <3>2
  <2>6. CASE n \notin Seen(e)
    <3>1. n \in TimeKind BY DEF TimeFields, TimeKind
    <3>2. n \notin Touched(e) BY <2>6, <3>1, NamesDiffer, KindsDiffer DEF Touched
    <3>3. Same(r, d, Field(n)) BY <1>4, <3>1, <3>2
    <3>4. TimesOf(g, TimeType(n)) = S BY <1>2, <2>3, <2>6 DEF S
    <3>5. QED BY <2>2, <3>3, <3>4 DEF Same, HasLargest, Lacks
  <2>7. QED BY <2>5, <2>6
<1>8. QED BY <1>6, <1>7 DEF Times, r, g, seen

(* The signup is the first, and the currencies are those seen.             *)
Seens(d, h) ==
  LET signups == TimesOf(h, USER_SIGNUP)
      at == Field("signed_up_at")
      currencies == Field("currencies")
  IN
  /\ IF signups = {} THEN at \notin DOMAIN d
     ELSE at \in DOMAIN d /\ d[at] \in signups /\ \A t \in signups : d[at] <= t
  /\ IF Currencies(h) = {} THEN currencies \notin DOMAIN d
     ELSE currencies \in DOMAIN d /\ d[currencies] = Currencies(h)

(* One more event keeps them so.                                           *)
LEMMA SeensStep ==
  ASSUME NEW e \in Events, NEW h \in Seq(Events), NEW d, Seens(d, h)
  PROVE  Seens(ApplyUpdate(d, FinalUpdate(e)), Append(h, e))
<1> DEFINE b == Base(d, FinalUpdate(e))
           r == ApplyUpdate(d, FinalUpdate(e))
           g == Append(h, e)
           at == Field("signed_up_at")
           currencies == Field("currencies")
           S == TimesOf(h, USER_SIGNUP)
           T == TimesOf(g, USER_SIGNUP)
           C == Currencies(h)
           D == Currencies(g)
<1>1. Applied(e, d, b, r) BY StepApplies
<1>2. T = S \cup (IF e.type = USER_SIGNUP THEN {e.ts} ELSE {})
  BY OneMoreSets
<1>3. D = C \cup (IF e.type = PURCHASE /\ e.currency # "" THEN {e.currency} ELSE {})
  BY OneMoreSets
<1>4. e.ts \in Nat /\ S \subseteq Nat
  <2>1. e.ts \in Nat /\ \A i \in DOMAIN h : h[i].ts \in Nat BY EventTypes, OneMore
  <2>2. QED BY <2>1 DEF TimesOf
<1>5. /\ IF S = {} THEN at \notin DOMAIN d
         ELSE at \in DOMAIN d /\ d[at] \in S /\ \A t \in S : d[at] <= t
      /\ IF C = {} THEN currencies \notin DOMAIN d ELSE currencies \in DOMAIN d /\ d[currencies] = C
  BY DEF Seens
<1>6. "signed_up_at" \notin SignupNames(e) => Same(r, d, at)
  <2>1. "signed_up_at" \notin SignupNames(e) => "signed_up_at" \notin Touched(e)
    BY NamesDiffer, KindsDiffer DEF Touched
  <2>2. QED BY <2>1, Untouched
<1>7. "currencies" \notin CurrencyNames(e) => Same(r, d, currencies)
  <2>1. "currencies" \notin CurrencyNames(e) => "currencies" \notin Touched(e)
    BY NamesDiffer, KindsDiffer DEF Touched
  <2>2. QED BY <2>1, Untouched
<1> HIDE DEF b, r, g, S, T, C, D
<1>8. /\ "signed_up_at" \in SignupNames(e) =>
           Reads(r, "signed_up_at", IF at \notin DOMAIN d THEN e.ts ELSE Smaller(d[at], e.ts))
      /\ "currencies" \in CurrencyNames(e) =>
           Reads(r, "currencies",
                 IF currencies \notin DOMAIN d THEN {e.currency} ELSE d[currencies] \cup {e.currency})
  BY <1>1 DEF Applied, Lacks
<1>9. /\ "signed_up_at" \in SignupNames(e) <=> e.type = USER_SIGNUP
      /\ "currencies" \in CurrencyNames(e) <=> e.type = PURCHASE /\ e.currency # ""
  BY DEF SignupNames, CurrencyNames
<1>10. IF T = {} THEN at \notin DOMAIN r
       ELSE at \in DOMAIN r /\ r[at] \in T /\ \A t \in T : r[at] <= t
  <2> HIDE DEF at
  <2>1. CASE e.type = USER_SIGNUP
    <3>1. at \in DOMAIN r /\ r[at] = IF at \notin DOMAIN d THEN e.ts ELSE Smaller(d[at], e.ts)
      BY <1>8, <1>9, <2>1 DEF Reads, at
    <3>2. T = S \cup {e.ts} BY <1>2, <2>1
    <3>3. CASE S = {} BY <1>4, <1>5, <3>1, <3>2, <3>3
    <3>4. CASE S # {}
      <4>1. d[at] \in Nat BY <1>4, <1>5, <3>4
      <4>2. r[at] = IF d[at] <= e.ts THEN d[at] ELSE e.ts BY <1>5, <3>1, <3>4 DEF Smaller
      <4>3. QED BY <1>4, <1>5, <3>1, <3>2, <3>4, <4>1, <4>2
    <3>5. QED BY <3>3, <3>4
  <2>2. CASE e.type # USER_SIGNUP
    BY <1>2, <1>5, <1>6, <1>9, <2>2 DEF Same
  <2>3. QED BY <2>1, <2>2
<1>11. IF D = {} THEN currencies \notin DOMAIN r ELSE currencies \in DOMAIN r /\ r[currencies] = D
  <2> HIDE DEF currencies
  <2>1. CASE e.type = PURCHASE /\ e.currency # ""
    <3>1. /\ currencies \in DOMAIN r
          /\ r[currencies] = IF currencies \notin DOMAIN d THEN {e.currency}
                             ELSE d[currencies] \cup {e.currency}
      BY <1>8, <1>9, <2>1 DEF Reads, currencies
    <3>2. D = C \cup {e.currency} BY <1>3, <2>1
    <3>3. CASE C = {} BY <1>5, <3>1, <3>2, <3>3
    <3>4. CASE C # {} BY <1>5, <3>1, <3>2, <3>4
    <3>5. QED BY <3>3, <3>4
  <2>2. CASE ~(e.type = PURCHASE /\ e.currency # "")
    <3>1. D = C BY <1>3, <2>2
    <3>2. Same(r, d, currencies) BY <1>7, <1>9, <2>2
    <3>3. QED BY <1>5, <3>1, <3>2 DEF Same
  <2>3. QED BY <2>1, <2>2
<1>12. QED BY <1>10, <1>11 DEF Seens, r, g, T, D

(* The field n of d has the value of the last of the events I, if any.     *)
HasLast(d, n, I, values) ==
  IF I = {} THEN Lacks(d, n) ELSE \E m : Largest(m, I) /\ Reads(d, n, values[m])

(* Each kept detail of d is the last of its type, and the user the last.   *)
Details(d, h) ==
  /\ \A n \in DetailFields :
       HasLast(d, n, Detailed(h, DetailType(n)), [i \in DOMAIN h |-> h[i].detail])
  /\ HasLast(d, "user_id", Identified(h), [i \in DOMAIN h |-> h[i].user])

(* What the core builder sets.                                             *)
LEMMA SetValues ==
  ASSUME NEW e \in Events
  PROVE  /\ SetValue(e, "last_event_id") = e.id /\ SetValue(e, "last_event_type") = e.type
         /\ SetValue(e, "anonymous_id") = e.anon /\ SetValue(e, "user_id") = e.user
<1>1. DetailNames(e) \subseteq DetailFields BY DEF DetailNames, DetailFields
<1>2. /\ "last_event_id" \notin DetailNames(e) /\ "last_event_type" \notin DetailNames(e)
      /\ "anonymous_id" \notin DetailNames(e) /\ "user_id" \notin DetailNames(e)
  BY <1>1 DEF DetailFields
<1>3. QED BY <1>2 DEF SetValue, Identity

(* One more event that has the field.                                      *)
LEMMA LastMore ==
  ASSUME NEW h \in Seq(Events), NEW r, NEW n, NEW I, I \subseteq DOMAIN h, NEW values,
         Reads(r, n, values[Len(h) + 1])
  PROVE  HasLast(r, n, I \cup {Len(h) + 1}, values)
<1> DEFINE m == Len(h) + 1
<1>1. Len(h) \in Nat /\ I \subseteq 1..Len(h) OBVIOUS
<1>2. Largest(m, I \cup {m}) BY <1>1 DEF Largest
<1>3. I \cup {m} # {} OBVIOUS
<1> HIDE DEF m
<1>4. Reads(r, n, values[m]) BY DEF m
<1>5. HasLast(r, n, I \cup {m}, values) BY <1>2, <1>3, <1>4 DEF HasLast
<1>6. QED BY <1>5 DEF m

(* One more that does not.                                                 *)
LEMMA LastKept ==
  ASSUME NEW d, NEW r, NEW n, NEW I, NEW v, NEW w, HasLast(d, n, I, v), Same(r, d, Field(n)),
         \A i \in I : w[i] = v[i]
  PROVE  HasLast(r, n, I, w)
<1>1. CASE I = {} BY <1>1 DEF HasLast, Lacks, Same
<1>2. CASE I # {}
  <2>1. PICK m : Largest(m, I) /\ Reads(d, n, v[m]) BY <1>2 DEF HasLast
  <2>2. Reads(r, n, w[m]) BY <2>1 DEF Largest, Reads, Same
  <2>3. QED BY <1>2, <2>1, <2>2 DEF HasLast
<1>3. QED BY <1>1, <1>2

(* One more event keeps the last details and the last user.                *)
LEMMA DetailsStep ==
  ASSUME NEW e \in Events, NEW h \in Seq(Events), NEW d, Details(d, h)
  PROVE  Details(ApplyUpdate(d, FinalUpdate(e)), Append(h, e))
<1> DEFINE b == Base(d, FinalUpdate(e))
           r == ApplyUpdate(d, FinalUpdate(e))
           g == Append(h, e)
           m == Len(h) + 1
           details(s) == [i \in DOMAIN s |-> s[i].detail]
           users(s) == [i \in DOMAIN s |-> s[i].user]
<1>1. Applied(e, d, b, r) BY StepApplies
<1>2. \A t : Detailed(g, t) = Detailed(h, t) \cup (IF e.type = t /\ e.detail # "" THEN {m} ELSE {})
  BY OneMoreDetails
<1>3. Identified(g) = Identified(h) \cup (IF e.user # "" THEN {m} ELSE {})
  BY OneMoreSets
<1>4. /\ DOMAIN g = DOMAIN h \cup {m} /\ m \notin DOMAIN h /\ g[m] = e
      /\ \A i \in DOMAIN h : g[i] = h[i]
  BY OneMore
<1>5. /\ details(g)[m] = e.detail /\ users(g)[m] = e.user
      /\ \A i \in DOMAIN h : details(g)[i] = details(h)[i] /\ users(g)[i] = users(h)[i]
  BY <1>4
<1>6. \A t : Detailed(h, t) \subseteq DOMAIN h BY DEF Detailed
<1>7. Identified(h) \subseteq DOMAIN h BY DEF Identified
<1>8. \A n \in SetKind : n \notin SetNames(e) => Same(r, d, Field(n))
  <2>1. \A n \in SetKind : n \notin SetNames(e) => n \notin Touched(e)
    BY NamesDiffer, KindsDiffer DEF Touched
  <2>2. QED BY <2>1, Untouched
<1> HIDE DEF b, r, g, details, users
<1>9. \A n \in SetNames(e) : Reads(r, n, SetValue(e, n)) BY <1>1 DEF Applied
<1>10. ASSUME NEW n \in DetailFields
       PROVE  HasLast(r, n, Detailed(g, DetailType(n)), details(g))
  <2> DEFINE I == Detailed(h, DetailType(n))
  <2>1. HasLast(d, n, I, details(h)) BY <1>10 DEF Details, details
  <2>2. /\ n \in SetNames(e) <=> e.type = DetailType(n) /\ e.detail # ""
        /\ n \in SetNames(e) => SetValue(e, n) = e.detail
    BY <1>10, FieldTypes
  <2>3. I \subseteq DOMAIN h BY <1>6
  <2>4. Detailed(g, DetailType(n)) = IF n \in SetNames(e) THEN I \cup {m} ELSE I
    BY <1>2, <2>2
  <2> HIDE DEF I
  <2>5. CASE n \in SetNames(e)
    <3>1. Reads(r, n, details(g)[m]) BY <1>5, <1>9, <2>2, <2>5
    <3>2. HasLast(r, n, I \cup {m}, details(g)) BY <2>3, <3>1, LastMore
    <3>3. QED BY <2>4, <2>5, <3>2
  <2>6. CASE n \notin SetNames(e)
    <3>1. n \in SetKind BY <1>10 DEF DetailFields, SetKind
    <3>2. Same(r, d, Field(n)) BY <1>8, <2>6, <3>1
    <3>3. \A i \in I : details(g)[i] = details(h)[i] BY <1>5, <2>3
    <3>4. HasLast(r, n, I, details(g)) BY <2>1, <3>2, <3>3, LastKept
    <3>5. QED BY <2>4, <2>6, <3>4
  <2>7. QED BY <2>5, <2>6
<1>11. HasLast(r, "user_id", Identified(g), users(g))
  <2> DEFINE I == Identified(h)
  <2>1. HasLast(d, "user_id", I, users(h)) BY DEF Details, users
  <2>2. "user_id" \in SetNames(e) <=> e.user # "" BY FieldTypes
  <2>3. SetValue(e, "user_id") = e.user BY SetValues
  <2>4. Identified(g) = IF "user_id" \in SetNames(e) THEN I \cup {m} ELSE I
    BY <1>3, <2>2
  <2> HIDE DEF I
  <2>5. CASE "user_id" \in SetNames(e)
    <3>1. Reads(r, "user_id", users(g)[m]) BY <1>5, <1>9, <2>3, <2>5
    <3>2. HasLast(r, "user_id", I \cup {m}, users(g)) BY <1>7, <3>1, LastMore DEF I
    <3>3. QED BY <2>4, <2>5, <3>2
  <2>6. CASE "user_id" \notin SetNames(e)
    <3>1. "user_id" \in SetKind BY DEF SetKind
    <3>2. Same(r, d, Field("user_id")) BY <1>8, <2>6, <3>1
    <3>3. \A i \in I : users(g)[i] = users(h)[i] BY <1>5, <1>7 DEF I
    <3>4. HasLast(r, "user_id", I, users(g)) BY <2>1, <3>2, <3>3, LastKept
    <3>5. QED BY <2>4, <2>6, <3>4
  <2>7. QED BY <2>5, <2>6
<1>12. QED BY <1>10, <1>11 DEF Details, r, g, details, users

(* What the document has of the last event, and of its key and the first.  *)
Lasts(d, h) ==
  h # <<>> => /\ Reads(d, "last_event_id", Last(h).id) /\ Reads(d, "last_event_type", Last(h).type)
              /\ Reads(d, "anonymous_id", Last(h).anon)
Firsts(k, d, h) ==
  h # <<>> => /\ Reads(d, "first_seen_ts", h[1].ts)
              /\ Reads(d, "user_key", k.user_key) /\ Reads(d, "business_name", k.business_name)

(* Every event overwrites the former.                                      *)
LEMMA LastsStep ==
  ASSUME NEW e \in Events, NEW h \in Seq(Events), NEW d
  PROVE  Lasts(ApplyUpdate(d, FinalUpdate(e)), Append(h, e))
<1> DEFINE b == Base(d, FinalUpdate(e))
           r == ApplyUpdate(d, FinalUpdate(e))
<1>1. Applied(e, d, b, r) BY StepApplies
<1>2. Last(Append(h, e)) = e BY OneMore
<1>3. {"last_event_id", "last_event_type", "anonymous_id"} \subseteq SetNames(e) BY FieldTypes
<1>4. /\ SetValue(e, "last_event_id") = e.id /\ SetValue(e, "last_event_type") = e.type
      /\ SetValue(e, "anonymous_id") = e.anon
  BY SetValues
<1> HIDE DEF b, r
<1>5. \A n \in SetNames(e) : Reads(r, n, SetValue(e, n)) BY <1>1 DEF Applied
<1>6. /\ Reads(r, "last_event_id", e.id) /\ Reads(r, "last_event_type", e.type)
      /\ Reads(r, "anonymous_id", e.anon)
  BY <1>3, <1>4, <1>5
<1>7. QED BY <1>2, <1>6 DEF Lasts, r

(* And none overwrites the latter.                                         *)
LEMMA FirstsStep ==
  ASSUME NEW e \in Events, NEW h \in Seq(Events), NEW d, NEW k, ResolveKey(e) = k,
         Firsts(k, d, h), h = <<>> => d = NoFields, h # <<>> => d # NoFields
  PROVE  Firsts(k, ApplyUpdate(d, FinalUpdate(e)), Append(h, e))
<1> DEFINE b == Base(d, FinalUpdate(e))
           r == ApplyUpdate(d, FinalUpdate(e))
           g == Append(h, e)
           names == {"first_seen_ts", "user_key", "business_name"}
<1>1. Applied(e, d, b, r) BY StepApplies
<1>2. \A n \in names : n \notin Touched(e) /\ n \in InsertNames(e)
  <2>1. \A n \in names : n \notin UNION {SetKind, CountKind, TimeKind, {"signed_up_at", "currencies"}}
    BY DEF SetKind, CountKind, TimeKind
  <2>2. QED BY <2>1, NamesDiffer DEF Touched, InsertNames
<1>3. /\ InsertValue(e, "first_seen_ts") = e.ts /\ InsertValue(e, "user_key") = k.user_key
      /\ InsertValue(e, "business_name") = k.business_name
  BY DEF InsertValue, ResolveKey
<1>4. h # <<>> => b = d BY DEF Base
<1>5. IF h = <<>> THEN g[1] = e ELSE g[1] = h[1]
  <2>1. Len(h) \in Nat /\ (h = <<>> <=> Len(h) = 0) /\ DOMAIN h = 1..Len(h) OBVIOUS
  <2>2. g[Len(h) + 1] = e /\ \A i \in DOMAIN h : g[i] = h[i] BY OneMore
  <2>3. QED BY <2>1, <2>2
<1> HIDE DEF b, r, g
<1>6. \A n \in names : Same(r, b, Field(n)) BY <1>1, <1>2 DEF Applied
<1>7. CASE h = <<>>
  <2>1. \A n \in names : Reads(b, n, InsertValue(e, n)) BY <1>1, <1>2, <1>7 DEF Applied
  <2>2. \A n \in names : Reads(r, n, InsertValue(e, n)) BY <1>6, <2>1 DEF Reads, Same
  <2>3. /\ Reads(r, "first_seen_ts", e.ts) /\ Reads(r, "user_key", k.user_key)
        /\ Reads(r, "business_name", k.business_name)
    BY <1>3, <2>2
  <2>4. QED BY <1>5, <1>7, <2>3 DEF Firsts, r, g
<1>8. CASE h # <<>>
  <2>1. /\ Reads(b, "first_seen_ts", h[1].ts)
        /\ Reads(b, "user_key", k.user_key) /\ Reads(b, "business_name", k.business_name)
    BY <1>4, <1>8 DEF Firsts
  <2>2. \A n \in names : \A v : Reads(b, n, v) => Reads(r, n, v) BY <1>6 DEF Reads, Same
  <2>3. /\ Reads(r, "first_seen_ts", h[1].ts) /\ Reads(r, "user_key", k.user_key)
        /\ Reads(r, "business_name", k.business_name)
    BY <2>1, <2>2
  <2>4. QED BY <1>5, <1>8, <2>3 DEF Firsts, r, g
<1>9. QED BY <1>7, <1>8
-----------------------------------------------------------------------------
(* The plain fields of a document.                                         *)
Names == SetKind \cup CountKind \cup TimeKind \cup InsertKind \cup {"signed_up_at", "currencies"}

(* A field is one of these or the counter of a type.                       *)
IsField(x) == (\E n \in Names : x = Field(n)) \/ (\E t \in Seq(STRING) \ {<<>>} : x = CountOf(t))

(* No plain field is inside another field or has one inside it.            *)
LEMMA PlainFields ==
  ASSUME NEW x, NEW y, IsField(x), IsField(y), x # y,
         (\E n \in Names : x = Field(n)) \/ (\E n \in Names : y = Field(n))
  PROVE  ~Overlap(x, y)
<1>1. \A n \in Names : n # "event_counts"
  BY DEF Names, SetKind, CountKind, TimeKind, InsertKind
<1>2. \A t \in Seq(STRING) \ {<<>>} : /\ Len(CountOf(t)) \in Nat /\ Len(CountOf(t)) > 1
                                     /\ CountOf(t)[1] = "event_counts"
  <2>1. SUFFICES ASSUME NEW t \in Seq(STRING) \ {<<>>}, NEW a
                 PROVE  /\ Len(<<a>> \o t) \in Nat /\ Len(<<a>> \o t) > 1
                        /\ (<<a>> \o t)[1] = a
    BY DEF CountOf
  <2>2. Len(<<a>>) = 1 /\ Len(t) \in Nat \ {0} OBVIOUS
  <2>3. Len(<<a>> \o t) = Len(t) + 1 /\ (<<a>> \o t)[1] = a BY <2>2
  <2>4. QED BY <2>2, <2>3
<1>3. \A a : \A t : Len(t) \in Nat \ {0} /\ IsPrefix(Field(a), t) => a = t[1]
  <2>1. SUFFICES ASSUME NEW a, NEW t, Len(t) \in Nat \ {0}, IsPrefix(Field(a), t) PROVE a = t[1]
    OBVIOUS
  <2>2. SubSeq(<<a>>, 1, 1) = SubSeq(t, 1, 1) BY <2>1 DEF IsPrefix, Field
  <2>3. SubSeq(<<a>>, 1, 1)[1] = a OBVIOUS
  <2>4. SubSeq(t, 1, 1)[1] = t[1] BY <2>1
  <2>5. QED BY <2>2, <2>3, <2>4
<1>4. \A n : Len(Field(n)) = 1 /\ Field(n)[1] = n BY DEF Field
<1>5. \A m, n : IsPrefix(Field(m), Field(n)) => m = n
  BY <1>3, <1>4
<1>6. \A n \in Names : \A t \in Seq(STRING) \ {<<>>} :
        ~IsPrefix(Field(n), CountOf(t)) /\ ~IsPrefix(CountOf(t), Field(n))
  <2>1. SUFFICES ASSUME NEW n \in Names, NEW t \in Seq(STRING) \ {<<>>}
                 PROVE  ~IsPrefix(Field(n), CountOf(t)) /\ ~IsPrefix(CountOf(t), Field(n))
    OBVIOUS
  <2>2. Len(CountOf(t)) \in Nat \ {0} /\ CountOf(t)[1] = "event_counts" BY <1>2
  <2>3. ~IsPrefix(Field(n), CountOf(t)) BY <1>1, <1>3, <2>2
  <2>4. ~(Len(CountOf(t)) <= Len(Field(n))) BY <1>2, <1>4
  <2>5. QED BY <2>3, <2>4 DEF IsPrefix
<1>7. QED BY <1>5, <1>6 DEF IsField, Overlap

(* A document has such fields and is a tree.                               *)
Shape(d) == (\A x \in DOMAIN d : IsField(x)) /\ Tree(d)

(* An update the store does not refuse keeps it a tree.                    *)
LEMMA ShapeStep ==
  ASSUME NEW e \in Events, NEW d, Shape(d), ~ShapeClash(d, FinalUpdate(e))
  PROVE  Shape(ApplyUpdate(d, FinalUpdate(e)))
<1> DEFINE u == FinalUpdate(e)
           b == Base(d, u)
           r == ApplyUpdate(d, u)
           new == CountOf(e.type)
<1>1. e.type \in Seq(STRING) \ {<<>>} /\ e.priced \in BOOLEAN BY EventTypes
<1>2. DOMAIN r = UNION {DOMAIN b, DOMAIN u.set, DOMAIN u.inc, DOMAIN u.max, DOMAIN u.min,
                        DOMAIN u.addToSet}
  BY ApplyFields
<1>3. /\ DOMAIN u.setOnInsert = Fields(InsertNames(e)) /\ DOMAIN u.set = Fields(SetNames(e))
      /\ DOMAIN u.inc = {new} \cup Fields(Counted(e))
      /\ DOMAIN u.max = Fields(Seen(e)) /\ DOMAIN u.min = Fields(SignupNames(e))
      /\ DOMAIN u.addToSet = Fields(CurrencyNames(e))
  <2>1. DOMAIN u.setOnInsert = Fields(InsertNames(e)) BY <1>1, InsertBlock
  <2>2. DOMAIN u.set = Fields(SetNames(e)) BY <1>1, SetBlock
  <2>3. DOMAIN u.inc = {new} \cup Fields(Counted(e)) BY <1>1, IncBlock
  <2>4. /\ Gives(u.max, Seen(e), e.ts) /\ Gives(u.min, SignupNames(e), e.ts)
        /\ Gives(u.addToSet, CurrencyNames(e), e.currency)
    BY <1>1, ExtremeBlocks
  <2> HIDE DEF u, new
  <2>5. /\ DOMAIN u.max = Fields(Seen(e)) /\ DOMAIN u.min = Fields(SignupNames(e))
        /\ DOMAIN u.addToSet = Fields(CurrencyNames(e))
    BY <2>4 DEF Gives
  <2>6. QED BY <2>1, <2>2, <2>3, <2>5
<1>4. /\ InsertNames(e) \subseteq Names /\ SetNames(e) \subseteq Names /\ Counted(e) \subseteq Names
      /\ Seen(e) \subseteq Names /\ SignupNames(e) \subseteq Names /\ CurrencyNames(e) \subseteq Names
  BY NamesDiffer DEF Names
<1> DEFINE Plain(x) == \E n \in Names : x = Field(n)
<1>5. \A a : a \subseteq Names => \A x \in Fields(a) : Plain(x) BY DEF Fields
<1>6. DOMAIN b \subseteq DOMAIN d \cup DOMAIN u.setOnInsert BY DEF Base
<1>7. \A x \in DOMAIN u.inc, y \in DOMAIN d : x # y => ~Overlap(x, y) BY DEF ShapeClash
<1> HIDE DEF u, b, r, Plain
<1>8. \A x \in DOMAIN r : x \in DOMAIN d \/ x = new \/ Plain(x)
  BY <1>2, <1>3, <1>4, <1>5, <1>6
<1>9. \A x \in DOMAIN r : IsField(x)
  <2>1. IsField(new) BY <1>1 DEF IsField
  <2>2. \A x : Plain(x) => IsField(x) BY DEF Plain, IsField
  <2>3. QED BY <1>8, <2>1, <2>2 DEF Shape
<1>10. ASSUME NEW x \in DOMAIN r, NEW y \in DOMAIN r, x # y PROVE ~Overlap(x, y)
  <2>1. CASE Plain(x) \/ Plain(y) BY <1>9, <1>10, <2>1, PlainFields DEF Plain
  <2>2. CASE x \in DOMAIN d /\ y \in DOMAIN d BY <1>10, <2>2 DEF Shape, Tree
  <2>3. CASE x = new /\ y \in DOMAIN d BY <1>3, <1>7, <1>10, <2>3
  <2>4. CASE x \in DOMAIN d /\ y = new
    <3>1. ~Overlap(y, x) BY <1>3, <1>7, <1>10, <2>4
    <3>2. QED BY <3>1 DEF Overlap
  <2>5. QED BY <1>8, <1>10, <2>1, <2>2, <2>3, <2>4
<1>11. Tree(r) BY <1>10 DEF Tree
<1>12. Shape(r) BY <1>9, <1>11 DEF Shape
<1>13. QED BY <1>12 DEF r, u
-----------------------------------------------------------------------------
(* What the document d of a key k says of its history h.  The properties   *)
(* below follow from it, and it is needed as a whole: an update either     *)
(* finds a document, which has kept all of this, or none, and then there   *)
(* is no history; and a counter can only be added to if it is a number.    *)
DocInv(k, d, h) ==
  /\ h = <<>> => d = NoFields
  /\ \A i \in DOMAIN h : ResolveKey(h[i]) = k
  /\ Counts(d, h) /\ Sum(d, h) /\ Times(d, h) /\ Seens(d, h) /\ Details(d, h)
  /\ Lasts(d, h) /\ Firsts(k, d, h) /\ Shape(d)

(* The inductive invariant: every document tells its history.              *)
StoreInv ==
  /\ DOMAIN docs = Keys
  /\ history \in [Keys -> Seq(Events)]
  /\ \A k \in Keys : DocInv(k, docs[k], history[k])
  /\ refused \subseteq Events
  /\ upserts \in 0..MaxUpserts

(* Before the first event.                                                 *)
LEMMA NoHistory == \A k : DocInv(k, NoFields, <<>>)
<1> DEFINE d == NoFields
           h == <<>>
<1>1. DOMAIN d = {} /\ DOMAIN h = {} /\ Len(h) = 0 BY NoFieldsEmpty
<1>2. \A x : Counter(d, x) = 0 BY <1>1 DEF Counter
<1>3. \A n : Lacks(d, n) BY <1>1 DEF Lacks
<1>4. \A t : NumberOf(h, t) = 0
  <2>1. \A t : {i \in DOMAIN h : h[i].type = t} = {} BY <1>1
  <2>2. Cardinality({}) = 0 BY FS_EmptySet
  <2>3. QED BY <2>1, <2>2 DEF NumberOf
<1>5. /\ \A t : TimesOf(h, t) = {} /\ Detailed(h, t) = {}
      /\ {h[i].ts : i \in DOMAIN h} = {} /\ Currencies(h) = {} /\ Identified(h) = {}
  BY <1>1 DEF TimesOf, Detailed, Currencies, Identified
<1>6. Sum(d, h)
  <2> DEFINE f == [i \in 0..0 |-> 0]
  <2>1. IsSum(f, h)
    <3>1. \A i \in 0..Len(h) : f[i] = IF i = 0 THEN 0 ELSE f[i - 1] + PriceOf(h[i]) BY <1>1
    <3>2. 0..Len(h) = 0..0 BY <1>1
    <3>3. QED BY <3>1, <3>2 DEF IsSum
  <2>2. \A g : IsSum(g, h) => g[Len(h)] = 0 BY <1>1 DEF IsSum
  <2>3. QED BY <1>2, <2>1, <2>2 DEF Sum
<1>7. Counts(d, h) BY <1>1, <1>2, <1>4 DEF Counts
<1>8. Times(d, h) BY <1>3, <1>5 DEF Times, HasLargest
<1>9. Seens(d, h) BY <1>1, <1>5 DEF Seens
<1>10. Details(d, h) BY <1>3, <1>5 DEF Details, HasLast
<1>11. Shape(d) BY <1>1 DEF Shape, Tree
<1>12. \A k : Lasts(d, h) /\ Firsts(k, d, h) BY DEF Lasts, Firsts
<1>13. QED BY <1>1, <1>6, <1>7, <1>8, <1>9, <1>10, <1>11, <1>12 DEF DocInv

(* One more event.                                                         *)
LEMMA DocStep ==
  ASSUME NEW e \in Events, NEW h \in Seq(Events), NEW d, NEW k, ResolveKey(e) = k,
         DocInv(k, d, h), ~ShapeClash(d, FinalUpdate(e))
  PROVE  DocInv(k, ApplyUpdate(d, FinalUpdate(e)), Append(h, e))
<1> DEFINE r == ApplyUpdate(d, FinalUpdate(e))
           g == Append(h, e)
<1>1. g # <<>>
  <2>1. Len(g) = Len(h) + 1 /\ Len(h) \in Nat BY OneMore
  <2>2. Len(<<>>) = 0 OBVIOUS
  <2>3. QED BY <2>1, <2>2
<1>2. \A i \in DOMAIN g : ResolveKey(g[i]) = k
  <2>1. /\ DOMAIN g = DOMAIN h \cup {Len(h) + 1} /\ g[Len(h) + 1] = e
        /\ \A i \in DOMAIN h : g[i] = h[i]
    BY OneMore
  <2>2. \A i \in DOMAIN h : ResolveKey(h[i]) = k BY DEF DocInv
  <2> HIDE DEF g
  <2>3. QED BY <2>1, <2>2
<1>3. h # <<>> => d # NoFields BY NoFieldsEmpty DEF DocInv, Counts
<1>4. Counts(r, g) BY CountsStep DEF DocInv
<1>5. Sum(r, g) BY SumStep DEF DocInv
<1>6. Times(r, g) BY TimesStep DEF DocInv
<1>7. Seens(r, g) BY SeensStep DEF DocInv
<1>8. Details(r, g) BY DetailsStep DEF DocInv
<1>9. Lasts(r, g) BY LastsStep
<1>10. Firsts(k, r, g) BY <1>3, FirstsStep DEF DocInv
<1>11. Shape(r) BY ShapeStep DEF DocInv
<1> HIDE DEF r, g
<1>12. DocInv(k, r, g)
  BY <1>1, <1>2, <1>4, <1>5, <1>6, <1>7, <1>8, <1>9, <1>10, <1>11 DEF DocInv
<1>13. QED BY <1>12 DEF r, g

(* Every behaviour keeps it.                                               *)
LEMMA StoreInvariant == Spec => []StoreInv
<1>1. Init => StoreInv
  <2>1. SUFFICES ASSUME Init PROVE StoreInv OBVIOUS
  <2>2. history \in [Keys -> Seq(Events)] BY <2>1 DEF Init
  <2>3. \A k \in Keys : DocInv(k, docs[k], history[k]) BY <2>1, NoHistory DEF Init
  <2>4. upserts \in 0..MaxUpserts BY <2>1, MaxUpsertsAssumption DEF Init
  <2>5. QED BY <2>1, <2>2, <2>3, <2>4 DEF Init, StoreInv
<1>2. StoreInv /\ [Next]_vars => StoreInv'
  <2> SUFFICES ASSUME StoreInv, [Next]_vars PROVE StoreInv' OBVIOUS
  <2>1. ASSUME NEW e \in Events, Process(e) PROVE StoreInv'
    <3> DEFINE k == ResolveKey(e)
               u == FinalUpdate(e)
               rejected == (StrictStore /\ DuplicatePaths(u)) \/ ShapeClash(docs[k], u)
    <3>1. k \in Keys BY DEF Keys
    <3>2. upserts' \in 0..MaxUpserts BY <2>1, MaxUpsertsAssumption DEF Process, StoreInv
    <3>3. CASE rejected
      <4>1. docs' = docs /\ history' = history /\ refused' = refused \cup {e}
        BY <2>1, <3>3 DEF Process
      <4>2. QED BY <3>2, <4>1 DEF StoreInv
    <3>4. CASE ~rejected
      <4>1. /\ docs' = [docs EXCEPT ![k] = ApplyUpdate(docs[k], u)]
            /\ history' = [history EXCEPT ![k] = Append(history[k], e)]
            /\ refused' = refused
        BY <2>1, <3>4 DEF Process
      <4>2. ~ShapeClash(docs[k], u) BY <3>4
      <4>3. history[k] \in Seq(Events) /\ DocInv(k, docs[k], history[k])
        BY <3>1 DEF StoreInv
      <4>4. DocInv(k, ApplyUpdate(docs[k], u), Append(history[k], e))
        BY <4>2, <4>3, DocStep
      <4> HIDE DEF k, u
      <4>5. DOMAIN docs' = Keys /\ history' \in [Keys -> Seq(Events)]
        BY <3>1, <4>1, <4>3 DEF StoreInv
      <4>6. \A j \in Keys : DocInv(j, docs'[j], history'[j])
        BY <3>1, <4>1, <4>4 DEF StoreInv
      <4>7. QED BY <3>2, <4>1, <4>5, <4>6 DEF StoreInv
    <3>5. QED BY <3>3, <3>4
  <2>2. CASE Idle BY <2>2 DEF Idle, vars, StoreInv
  <2>3. CASE UNCHANGED vars BY <2>3 DEF vars, StoreInv
  <2>4. QED BY <2>1, <2>2, <2>3 DEF Next
<1>3. QED BY <1>1, <1>2, PTL DEF Spec
-----------------------------------------------------------------------------
(* No document ever has a value where it has an object, and there is one   *)
(* document per key (core.builder.ts:39, feature.repository.ts:81).        *)
THEOREM StoreTypes == Spec => []TypeOK
<1>1. StoreInv => TypeOK BY DEF StoreInv, DocInv, Shape, TypeOK
<1>2. QED BY <1>1, StoreInvariant, PTL

(* Every counter is the number of events behind it, in whatever order they *)
(* were processed (builder.interface.ts:60-66).                            *)
THEOREM CountersCorrect == Spec => []CountersMatchHistory
<1>1. StoreInv => CountersMatchHistory
  <2>1. SUFFICES ASSUME StoreInv, NEW k \in Keys, history[k] # <<>>
                 PROVE  LET doc == docs[k]
                            h == history[k]
                        IN
                        /\ Reads(doc, "total_events", Len(h))
                        /\ \A type \in {e.type : e \in Events} :
                             Counter(doc, CountOf(type)) = NumberOf(h, type)
                        /\ Counter(doc, <<"purchase_count">>) = NumberOf(h, PURCHASE)
                        /\ Counter(doc, <<"cart_adds_count">>) = NumberOf(h, ADD_TO_CART)
                        /\ Counter(doc, <<"login_count">>) = NumberOf(h, USER_LOGIN)
                        /\ Counter(doc, <<"search_count">>) = NumberOf(h, SEARCH)
                        /\ Counter(doc, <<"lifetime_value">>) = Spent(h)
    BY DEF CountersMatchHistory, Stored
  <2> DEFINE d == docs[k]
             h == history[k]
  <2>2. Counts(d, h) /\ Sum(d, h) BY <2>1 DEF StoreInv, DocInv
  <2>3. h # <<>> BY <2>1
  <2> HIDE DEF d, h
  <2>4. Reads(d, "total_events", Len(h)) BY <2>2, <2>3 DEF Counts, Reads, Counter
  <2>5. \A type \in {e.type : e \in Events} : Counter(d, CountOf(type)) = NumberOf(h, type)
    BY <2>2, EventTypes DEF Counts
  <2>6. \A n : Field(n) = <<n>> BY DEF Field
  <2>7. \A n \in CounterFields : Counter(d, <<n>>) = NumberOf(h, CounterType(n))
    BY <2>2, <2>6 DEF Counts
  <2>8. /\ Counter(d, <<"purchase_count">>) = NumberOf(h, PURCHASE)
        /\ Counter(d, <<"cart_adds_count">>) = NumberOf(h, ADD_TO_CART)
        /\ Counter(d, <<"login_count">>) = NumberOf(h, USER_LOGIN)
        /\ Counter(d, <<"search_count">>) = NumberOf(h, SEARCH)
    <3>1. /\ "purchase_count" \in CounterFields /\ CounterType("purchase_count") = PURCHASE
          /\ "cart_adds_count" \in CounterFields /\ CounterType("cart_adds_count") = ADD_TO_CART
          /\ "login_count" \in CounterFields /\ CounterType("login_count") = USER_LOGIN
          /\ "search_count" \in CounterFields /\ CounterType("search_count") = SEARCH
      BY DEF CounterFields, CounterType
    <3>2. QED BY <2>7, <3>1
  <2>9. Counter(d, <<"lifetime_value">>) = Spent(h) BY <2>2, <2>6, SumIsSpent
  <2>10. QED BY <2>4, <2>5, <2>8, <2>9 DEF d, h
<1>2. QED BY <1>1, StoreInvariant, PTL

(* The largest of some times, as the property says it.                     *)
LEMMA LargestIsLatest ==
  ASSUME NEW d, NEW n, NEW S, S \subseteq Nat, HasLargest(d, n, S)
  PROVE  LatestIn(d, n, S)
<1>1. CASE S = {} BY <1>1 DEF HasLargest, LatestIn
<1>2. CASE S # {}
  <2>1. Field(n) \in DOMAIN d /\ Largest(d[Field(n)], S) BY <1>2 DEF HasLargest
  <2>2. S \subseteq Int OBVIOUS
  <2>3. Max(S) = d[Field(n)] BY <2>1, <2>2, MaxIs
  <2>4. QED BY <1>2, <2>1, <2>3 DEF LatestIn, Reads
<1>3. QED BY <1>1, <1>2

(* Every time is the extreme over the events behind it, in whatever order  *)
(* they were processed (builder.interface.ts:67-83).                       *)
THEOREM ExtremesCorrect == Spec => []ExtremesMatchHistory
<1>1. StoreInv => ExtremesMatchHistory
  <2>1. SUFFICES ASSUME StoreInv, NEW k \in Keys, history[k] # <<>>
                 PROVE  LET doc == docs[k]
                            h == history[k]
                            signups == TimesOf(h, USER_SIGNUP)
                        IN
                        /\ LatestIn(doc, "last_seen_ts", {h[i].ts : i \in DOMAIN h})
                        /\ Reads(doc, "first_seen_ts", h[1].ts)
                        /\ LatestIn(doc, "last_purchase_at", TimesOf(h, PURCHASE))
                        /\ LatestIn(doc, "last_cart_at", TimesOf(h, ADD_TO_CART))
                        /\ LatestIn(doc, "last_login_at", TimesOf(h, USER_LOGIN))
                        /\ LatestIn(doc, "last_search_at", TimesOf(h, SEARCH))
                        /\ IF signups = {} THEN Lacks(doc, "signed_up_at")
                           ELSE Reads(doc, "signed_up_at", Min(signups))
                        /\ IF Currencies(h) = {} THEN Lacks(doc, "currencies")
                           ELSE Reads(doc, "currencies", Currencies(h))
    BY DEF ExtremesMatchHistory, Stored
  <2> DEFINE d == docs[k]
             h == history[k]
             seen == {h[i].ts : i \in DOMAIN h}
             signups == TimesOf(h, USER_SIGNUP)
  <2>2. Times(d, h) /\ Seens(d, h) /\ Firsts(k, d, h) BY <2>1 DEF StoreInv, DocInv
  <2>3. h # <<>> /\ h \in Seq(Events) BY <2>1 DEF StoreInv
  <2>4. seen \subseteq Nat /\ \A t : TimesOf(h, t) \subseteq Nat
    <3> HIDE DEF h
    <3>1. \A i \in DOMAIN h : h[i] \in Events BY <2>3
    <3>2. \A i \in DOMAIN h : h[i].ts \in Nat BY <3>1, EventTypes
    <3>3. QED BY <3>2 DEF TimesOf
  <2> HIDE DEF d, h
  <2>5. Reads(d, "first_seen_ts", h[1].ts) BY <2>2, <2>3 DEF Firsts
  <2>6. LatestIn(d, "last_seen_ts", seen)
    <3>1. HasLargest(d, "last_seen_ts", seen) BY <2>2 DEF Times
    <3> HIDE DEF seen
    <3>2. QED BY <2>4, <3>1, LargestIsLatest
  <2>7. \A n \in TimeFields : LatestIn(d, n, TimesOf(h, TimeType(n)))
    BY <2>2, <2>4, LargestIsLatest DEF Times
  <2>8. /\ LatestIn(d, "last_purchase_at", TimesOf(h, PURCHASE))
        /\ LatestIn(d, "last_cart_at", TimesOf(h, ADD_TO_CART))
        /\ LatestIn(d, "last_login_at", TimesOf(h, USER_LOGIN))
        /\ LatestIn(d, "last_search_at", TimesOf(h, SEARCH))
    <3>1. /\ "last_purchase_at" \in TimeFields /\ TimeType("last_purchase_at") = PURCHASE
          /\ "last_cart_at" \in TimeFields /\ TimeType("last_cart_at") = ADD_TO_CART
          /\ "last_login_at" \in TimeFields /\ TimeType("last_login_at") = USER_LOGIN
          /\ "last_search_at" \in TimeFields /\ TimeType("last_search_at") = SEARCH
      BY DEF TimeFields, TimeType
    <3>2. QED BY <2>7, <3>1
  <2>9. IF signups = {} THEN Lacks(d, "signed_up_at") ELSE Reads(d, "signed_up_at", Min(signups))
    <3>1. signups \subseteq Int BY <2>4
    <3>2. CASE signups = {} BY <2>2, <3>2 DEF Seens, Lacks
    <3>3. CASE signups # {}
      <4> DEFINE at == Field("signed_up_at")
      <4>1. at \in DOMAIN d /\ d[at] \in signups /\ \A t \in signups : d[at] <= t
        BY <2>2, <3>3 DEF Seens
      <4> HIDE DEF at, signups
      <4>2. Min(signups) = d[at] BY <3>1, <4>1, MinIs
      <4>3. QED BY <3>3, <4>1, <4>2 DEF Reads, at
    <3>4. QED BY <3>2, <3>3
  <2>10. IF Currencies(h) = {} THEN Lacks(d, "currencies") ELSE Reads(d, "currencies", Currencies(h))
    BY <2>2 DEF Seens, Lacks, Reads
  <2>11. QED BY <2>5, <2>6, <2>8, <2>9, <2>10 DEF d, h
<1>2. QED BY <1>1, StoreInvariant, PTL

(* The last of some events, as the property says it.                       *)
LEMMA LastIsLargest ==
  ASSUME NEW d, NEW n, NEW I, I \subseteq Int, NEW v, HasLast(d, n, I, v)
  PROVE  IF I = {} THEN Lacks(d, n) ELSE Max(I) \in I /\ Reads(d, n, v[Max(I)])
<1>1. CASE I = {} BY <1>1 DEF HasLast
<1>2. CASE I # {}
  <2>1. PICK m : Largest(m, I) /\ Reads(d, n, v[m]) BY <1>2 DEF HasLast
  <2>2. Max(I) = m BY <2>1, MaxIs
  <2>3. QED BY <1>2, <2>1, <2>2 DEF Largest
<1>3. QED BY <1>1, <1>2

(* What a document has of its last user.                                   *)
LEMMA LastUser ==
  ASSUME NEW d, NEW h \in Seq(Events), Details(d, h)
  PROVE  IF Identified(h) = {} THEN Lacks(d, "user_id")
         ELSE /\ Max(Identified(h)) \in Identified(h)
              /\ Reads(d, "user_id", h[Max(Identified(h))].user)
<1> DEFINE users == [i \in DOMAIN h |-> h[i].user]
           I == Identified(h)
<1>1. DOMAIN h \subseteq Int /\ I \subseteq DOMAIN h
  <2>1. DOMAIN h = 1..Len(h) /\ Len(h) \in Nat OBVIOUS
  <2>2. \A i \in DOMAIN h : i \in Int BY <2>1
  <2>3. I \subseteq DOMAIN h BY DEF Identified
  <2>4. QED BY <2>2, <2>3
<1>2. HasLast(d, "user_id", I, users) BY DEF Details
<1>3. \A i \in I : users[i] = h[i].user BY <1>1
<1> HIDE DEF users, I
<1>4. IF I = {} THEN Lacks(d, "user_id") ELSE Max(I) \in I /\ Reads(d, "user_id", users[Max(I)])
  BY <1>1, <1>2, LastIsLargest
<1>5. QED BY <1>3, <1>4 DEF I

(* A field that keeps the last value keeps it across events that lack it   *)
(* (core.builder.ts:26-32).                                                *)
THEOREM LastValuesCorrect == Spec => []LastValuesAreKept
<1>1. StoreInv => LastValuesAreKept
  <2>1. SUFFICES ASSUME StoreInv, NEW k \in Keys, history[k] # <<>>
                 PROVE  LET doc == docs[k]
                            h == history[k]
                        IN
                        /\ Reads(doc, "last_event_id", Last(h).id)
                        /\ Reads(doc, "last_event_type", Last(h).type)
                        /\ LastDetail(doc, "last_order_id", h, PURCHASE)
                        /\ LastDetail(doc, "last_product_added", h, ADD_TO_CART)
                        /\ LastDetail(doc, "last_login_method", h, USER_LOGIN)
                        /\ LastDetail(doc, "last_search_query", h, SEARCH)
                        /\ IF Detailed(h, USER_SIGNUP) = {} THEN Lacks(doc, "signup_method")
                           ELSE \E i \in Detailed(h, USER_SIGNUP) :
                                  Reads(doc, "signup_method", h[i].detail)
                        /\ Reads(doc, "anonymous_id", Last(h).anon)
                        /\ IF Identified(h) = {} THEN Lacks(doc, "user_id")
                           ELSE Reads(doc, "user_id", h[Max(Identified(h))].user)
    BY DEF LastValuesAreKept, Stored
  <2> DEFINE d == docs[k]
             h == history[k]
             details == [i \in DOMAIN h |-> h[i].detail]
  <2>2. Details(d, h) /\ Lasts(d, h) BY <2>1 DEF StoreInv, DocInv
  <2>3. h # <<>> /\ h \in Seq(Events) BY <2>1 DEF StoreInv
  <2> HIDE DEF d, h
  <2>4. /\ Reads(d, "last_event_id", Last(h).id) /\ Reads(d, "last_event_type", Last(h).type)
        /\ Reads(d, "anonymous_id", Last(h).anon)
    BY <2>2, <2>3 DEF Lasts
  <2>5. IF Identified(h) = {} THEN Lacks(d, "user_id")
        ELSE Reads(d, "user_id", h[Max(Identified(h))].user)
    BY <2>2, <2>3, LastUser
  <2>6. \A n \in DetailFields :
          /\ LastDetail(d, n, h, DetailType(n))
          /\ LET I == Detailed(h, DetailType(n)) IN I # {} => Max(I) \in I
    <3>1. SUFFICES ASSUME NEW n \in DetailFields
                   PROVE  /\ LastDetail(d, n, h, DetailType(n))
                          /\ LET I == Detailed(h, DetailType(n)) IN I # {} => Max(I) \in I
      OBVIOUS
    <3> DEFINE I == Detailed(h, DetailType(n))
    <3>2. DOMAIN h \subseteq Int /\ I \subseteq DOMAIN h
      <4>1. DOMAIN h = 1..Len(h) /\ Len(h) \in Nat BY <2>3
      <4>2. \A i \in DOMAIN h : i \in Int BY <4>1
      <4>3. I \subseteq DOMAIN h BY DEF Detailed
      <4>4. QED BY <4>2, <4>3
    <3>3. HasLast(d, n, I, details) BY <2>2 DEF Details
    <3>4. \A i \in I : details[i] = h[i].detail BY <3>2
    <3> HIDE DEF I, details
    <3>5. IF I = {} THEN Lacks(d, n) ELSE Max(I) \in I /\ Reads(d, n, details[Max(I)])
      BY <3>2, <3>3, LastIsLargest
    <3>6. IF I = {} THEN Lacks(d, n) ELSE Reads(d, n, h[Max(I)].detail) BY <3>4, <3>5
    <3>7. QED BY <3>5, <3>6 DEF LastDetail, I
  <2>7. /\ LastDetail(d, "last_order_id", h, PURCHASE)
        /\ LastDetail(d, "last_product_added", h, ADD_TO_CART)
        /\ LastDetail(d, "last_login_method", h, USER_LOGIN)
        /\ LastDetail(d, "last_search_query", h, SEARCH)
        /\ LastDetail(d, "signup_method", h, USER_SIGNUP)
        /\ LET I == Detailed(h, USER_SIGNUP) IN I # {} => Max(I) \in I
    <3>1. /\ "last_order_id" \in DetailFields /\ DetailType("last_order_id") = PURCHASE
          /\ "last_product_added" \in DetailFields /\ DetailType("last_product_added") = ADD_TO_CART
          /\ "last_login_method" \in DetailFields /\ DetailType("last_login_method") = USER_LOGIN
          /\ "last_search_query" \in DetailFields /\ DetailType("last_search_query") = SEARCH
          /\ "signup_method" \in DetailFields /\ DetailType("signup_method") = USER_SIGNUP
      BY DEF DetailFields, DetailType
    <3>2. QED BY <2>6, <3>1
  <2>8. IF Detailed(h, USER_SIGNUP) = {} THEN Lacks(d, "signup_method")
        ELSE \E i \in Detailed(h, USER_SIGNUP) : Reads(d, "signup_method", h[i].detail)
    BY <2>7 DEF LastDetail
  <2>9. QED BY <2>4, <2>5, <2>7, <2>8 DEF d, h
<1>2. QED BY <1>1, StoreInvariant, PTL

(* A document belongs to the identity it is filed under, though its events *)
(* may come with and without a user (feature.service.ts:36-57).            *)
THEOREM FiledCorrectly == Spec => []FiledUnderIdentity
<1>1. StoreInv => FiledUnderIdentity
  <2>1. SUFFICES ASSUME StoreInv, NEW k \in Keys, history[k] # <<>>
                 PROVE  /\ Reads(docs[k], "user_key", k.user_key)
                        /\ Reads(docs[k], "business_name", k.business_name)
                        /\ Lacks(docs[k], "user_id") \/ Reads(docs[k], "user_id", k.user_key)
                        /\ Lacks(docs[k], "user_id") => Reads(docs[k], "anonymous_id", k.user_key)
    BY DEF FiledUnderIdentity, Stored
  <2> DEFINE d == docs[k]
             h == history[k]
             I == Identified(h)
  <2>2. /\ Details(d, h) /\ Lasts(d, h) /\ Firsts(k, d, h)
        /\ \A i \in DOMAIN h : ResolveKey(h[i]) = k
    BY <2>1 DEF StoreInv, DocInv
  <2>3. h # <<>> /\ h \in Seq(Events) BY <2>1 DEF StoreInv
  <2> HIDE DEF d, h
  <2>4. Reads(d, "user_key", k.user_key) /\ Reads(d, "business_name", k.business_name)
    BY <2>2, <2>3 DEF Firsts
  <2>5. \A i \in DOMAIN h : k.user_key = IF h[i].user # "" THEN h[i].user ELSE h[i].anon
    <3>1. \A e : ResolveKey(e).user_key = IF e.user # "" THEN e.user ELSE e.anon BY DEF ResolveKey
    <3>2. QED BY <2>2, <3>1
  <2>6. IF I = {} THEN Lacks(d, "user_id") ELSE Max(I) \in I /\ Reads(d, "user_id", h[Max(I)].user)
    BY <2>2, <2>3, LastUser
  <2>7. CASE I = {}
    <3>1. Len(h) \in DOMAIN h BY <2>3
    <3>2. Last(h).user = "" BY <2>7, <3>1 DEF Identified, Last
    <3>3. k.user_key = Last(h).anon BY <2>5, <3>1, <3>2 DEF Last
    <3>4. Reads(d, "anonymous_id", Last(h).anon) BY <2>2, <2>3 DEF Lasts
    <3>5. QED BY <2>4, <2>6, <2>7, <3>3, <3>4 DEF d
  <2>8. CASE I # {}
    <3>1. Max(I) \in DOMAIN h /\ h[Max(I)].user # "" BY <2>6, <2>8 DEF Identified
    <3>2. k.user_key = h[Max(I)].user BY <2>5, <3>1
    <3>3. Reads(d, "user_id", k.user_key) /\ ~Lacks(d, "user_id")
      BY <2>6, <2>8, <3>2 DEF Reads, Lacks
    <3>4. QED BY <2>4, <3>3 DEF d
  <2>9. QED BY <2>7, <2>8
<1>2. QED BY <1>1, StoreInvariant, PTL
-----------------------------------------------------------------------------
(* The document d has a counter for the types of its history h, and for no *)
(* other type.                                                             *)
CountedTypes(d, h) ==
  \A t \in Seq(STRING) \ {<<>>} : CountOf(t) \in DOMAIN d <=> \E i \in DOMAIN h : h[i].type = t

(* One more event is one more type, at most.                               *)
LEMMA CountedTypesStep ==
  ASSUME NEW e \in Events, NEW h \in Seq(Events), NEW d, CountedTypes(d, h)
  PROVE  CountedTypes(ApplyUpdate(d, FinalUpdate(e)), Append(h, e))
<1> DEFINE u == FinalUpdate(e)
           b == Base(d, u)
           r == ApplyUpdate(d, u)
           g == Append(h, e)
<1>1. e.type \in Seq(STRING) \ {<<>>} /\ e.priced \in BOOLEAN BY EventTypes
<1>2. CountOf(e.type) \in DOMAIN u.inc BY <1>1, BlocksApart
<1>3. DOMAIN u.inc \subseteq DOMAIN r
  <2>1. DOMAIN r = UNION {DOMAIN b, DOMAIN u.set, DOMAIN u.inc, DOMAIN u.max, DOMAIN u.min,
                          DOMAIN u.addToSet}
    BY ApplyFields
  <2> HIDE DEF u, b, r
  <2>2. QED BY <2>1
<1>4. \A t \in Seq(STRING) \ {<<>>} : t # e.type => Same(r, d, CountOf(t))
  BY StepApplies DEF Applied
<1>5. /\ DOMAIN g = DOMAIN h \cup {Len(h) + 1} /\ g[Len(h) + 1] = e
      /\ \A i \in DOMAIN h : g[i] = h[i]
  BY OneMore
<1> HIDE DEF u, b, r, g
<1>6. ASSUME NEW t \in Seq(STRING) \ {<<>>}
      PROVE  CountOf(t) \in DOMAIN r <=> \E i \in DOMAIN g : g[i].type = t
  <2>1. CASE t = e.type BY <1>2, <1>3, <1>5, <2>1
  <2>2. CASE t # e.type
    <3>1. CountOf(t) \in DOMAIN r <=> CountOf(t) \in DOMAIN d BY <1>4, <2>2 DEF Same
    <3>2. (\E i \in DOMAIN g : g[i].type = t) <=> \E i \in DOMAIN h : h[i].type = t BY <1>5, <2>2
    <3>3. QED BY <3>1, <3>2 DEF CountedTypes
  <2>3. QED BY <2>1, <2>2
<1>7. CountedTypes(r, g) BY <1>6 DEF CountedTypes
<1>8. QED BY <1>7 DEF r, g, u

(* What it is to be a prefix, place by place.                              *)
LEMMA PrefixMeans ==
  ASSUME NEW X, NEW u \in Seq(X), NEW v \in Seq(X)
  PROVE  IsPrefix(u, v) <=> Len(u) <= Len(v) /\ \A i \in 1..Len(u) : u[i] = v[i]
<1>1. /\ SubSeq(u, 1, Len(u)) = u
      /\ Len(u) <= Len(v) => /\ SubSeq(v, 1, Len(u)) \in Seq(X)
                             /\ Len(SubSeq(v, 1, Len(u))) = Len(u)
                             /\ \A i \in 1..Len(u) : SubSeq(v, 1, Len(u))[i] = v[i]
  OBVIOUS
<1>2. QED BY <1>1 DEF IsPrefix

(* A sequence is a prefix of another when it is so behind the same element.*)
LEMMA PrefixBehind ==
  ASSUME NEW X, NEW a, NEW s \in Seq(X), NEW t \in Seq(X)
  PROVE  IsPrefix(<<a>> \o s, <<a>> \o t) <=> IsPrefix(s, t)
<1> DEFINE Y == X \cup {a}
           b == <<a>> \o s
           c == <<a>> \o t
<1>1. Len(s) \in Nat /\ Len(t) \in Nat OBVIOUS
<1>2. s \in Seq(Y) /\ t \in Seq(Y) /\ <<a>> \in Seq(Y) OBVIOUS
<1> HIDE DEF Y
<1>3. /\ b \in Seq(Y) /\ Len(b) = 1 + Len(s) /\ b[1] = a
      /\ \A i \in 1..Len(s) : b[i + 1] = s[i]
  BY <1>2
<1>4. /\ c \in Seq(Y) /\ Len(c) = 1 + Len(t) /\ c[1] = a
      /\ \A i \in 1..Len(t) : c[i + 1] = t[i]
  BY <1>2
<1> HIDE DEF b, c
<1>5. IsPrefix(s, t) <=> Len(s) <= Len(t) /\ \A i \in 1..Len(s) : s[i] = t[i] BY PrefixMeans
<1>6. IsPrefix(b, c) <=> Len(b) <= Len(c) /\ \A i \in 1..Len(b) : b[i] = c[i]
  <2>1. b \in Seq(Y) /\ c \in Seq(Y) BY <1>3, <1>4
  <2>2. QED BY <2>1, PrefixMeans
<1>7. ASSUME IsPrefix(s, t) PROVE IsPrefix(b, c)
  <2>1. ASSUME NEW i \in 1..Len(b) PROVE b[i] = c[i]
    <3>1. CASE i = 1 BY <1>3, <1>4, <3>1
    <3>2. CASE i # 1
      <4> DEFINE j == i - 1
      <4>1. j \in 1..Len(s) /\ i = j + 1 BY <1>1, <1>3, <3>2
      <4>2. j \in 1..Len(t) /\ s[j] = t[j] BY <1>1, <1>5, <1>7, <4>1
      <4> HIDE DEF j
      <4>3. QED BY <1>3, <1>4, <4>1, <4>2
    <3>3. QED BY <3>1, <3>2
  <2>2. QED BY <1>1, <1>3, <1>4, <1>5, <1>6, <1>7, <2>1
<1>8. ASSUME IsPrefix(b, c) PROVE IsPrefix(s, t)
  <2>1. Len(s) <= Len(t) BY <1>1, <1>3, <1>4, <1>6, <1>8
  <2>2. ASSUME NEW i \in 1..Len(s) PROVE s[i] = t[i]
    <3>1. i + 1 \in 1..Len(b) /\ i \in 1..Len(t) BY <1>1, <1>3, <2>1
    <3>2. QED BY <1>3, <1>4, <1>6, <1>8, <3>1
  <2>3. QED BY <1>5, <2>1, <2>2
<1>9. QED BY <1>7, <1>8 DEF b, c

(* A type is inside another if its counter is inside the other's.          *)
LEMMA CountsInside ==
  ASSUME NEW s \in Seq(STRING) \ {<<>>}, NEW t \in Seq(STRING) \ {<<>>}
  PROVE  IsPrefix(CountOf(s), CountOf(t)) <=> IsPrefix(s, t)
<1>1. s \in Seq(STRING) /\ t \in Seq(STRING) OBVIOUS
<1>2. QED BY <1>1, PrefixBehind DEF CountOf

(* The history h has an event whose type is inside that of e, or e's in it.*)
Nested(e, h) == \E i \in DOMAIN h : h[i].type # e.type /\ Overlap(h[i].type, e.type)

(* An update meets a document of another shape just when a type is inside  *)
(* another.                                                                *)
LEMMA ClashIsNested ==
  ASSUME NEW e \in Events, NEW h \in Seq(Events), NEW d, Shape(d), CountedTypes(d, h)
  PROVE  ShapeClash(d, FinalUpdate(e)) <=> Nested(e, h)
<1> DEFINE u == FinalUpdate(e)
           c == CountOf(e.type)
<1>1. e.type \in Seq(STRING) \ {<<>>} /\ e.priced \in BOOLEAN BY EventTypes
<1>2. DOMAIN u.inc = {c} \cup Fields(Counted(e)) BY <1>1, IncBlock
<1>3. Counted(e) \subseteq Names BY <1>1, NamesDiffer DEF Names
<1>4. \A i \in DOMAIN h : h[i].type \in Seq(STRING) \ {<<>>}
  <2>1. \A i \in DOMAIN h : h[i] \in Events OBVIOUS
  <2>2. QED BY <2>1, EventTypes
<1>5. IsField(c) BY <1>1 DEF IsField
<1>6. \A n \in Counted(e) : IsField(Field(n)) BY <1>3 DEF IsField
<1>7. \A t \in Seq(STRING) \ {<<>>} : /\ Overlap(c, CountOf(t)) <=> Overlap(t, e.type)
                                      /\ c = CountOf(t) <=> t = e.type
  BY <1>1, CountsInside, CountsDiffer DEF Overlap
<1> HIDE DEF u, c
<1>8. ASSUME ShapeClash(d, u) PROVE Nested(e, h)
  <2>1. PICK x \in DOMAIN u.inc, y \in DOMAIN d : x # y /\ Overlap(x, y)
    BY <1>8 DEF ShapeClash
  <2>2. IsField(x) /\ IsField(y) BY <1>2, <1>5, <1>6 DEF Fields, Shape
  <2>3. /\ ~\E n \in Names : x = Field(n)
        /\ ~\E n \in Names : y = Field(n)
    BY <2>1, <2>2, PlainFields
  <2>4. x = c BY <1>2, <1>3, <2>3 DEF Fields
  <2>5. PICK t \in Seq(STRING) \ {<<>>} : y = CountOf(t) BY <2>2, <2>3 DEF IsField
  <2>6. PICK i \in DOMAIN h : h[i].type = t BY <2>5 DEF CountedTypes
  <2>7. t # e.type /\ Overlap(t, e.type) BY <1>7, <2>1, <2>4, <2>5
  <2>8. QED BY <2>6, <2>7 DEF Nested
<1>9. ASSUME Nested(e, h) PROVE ShapeClash(d, u)
  <2>1. PICK i \in DOMAIN h : h[i].type # e.type /\ Overlap(h[i].type, e.type)
    BY <1>9 DEF Nested
  <2> DEFINE t == h[i].type
  <2>2. t \in Seq(STRING) \ {<<>>} BY <1>4
  <2>3. CountOf(t) \in DOMAIN d BY <2>2 DEF CountedTypes
  <2>4. CountOf(t) # c /\ Overlap(c, CountOf(t)) BY <1>7, <2>1, <2>2
  <2>5. QED BY <1>2, <2>3, <2>4 DEF ShapeClash
<1>10. QED BY <1>8, <1>9 DEF u

(* A strict store has no document, for every update gives anonymous_id     *)
(* twice; the types of an identity are not inside one another, and an      *)
(* event is refused for nothing but that.                                  *)
RefusalInv ==
  /\ StrictStore => \A k \in Keys : history[k] = <<>>
  /\ \A k \in Keys : CountedTypes(docs[k], history[k])
  /\ ~StrictStore => \A e \in refused : Nested(e, history[ResolveKey(e)])

(* Every update of the repository sets what it inserts.                    *)
LEMMA EveryUpdateIsDuplicate ==
  ASSUME NEW e \in Events
  PROVE  DuplicatePaths(FinalUpdate(e))
<1> DEFINE u == FinalUpdate(e)
           x == Field("anonymous_id")
<1>1. e.priced \in BOOLEAN BY EventTypes
<1>2. "anonymous_id" \in IdentityNames(e) BY EventTypes DEF IdentityNames, Present
<1>3. x \in DOMAIN u.setOnInsert /\ x \in DOMAIN u.set
  <2>1. "anonymous_id" \in InsertNames(e) /\ "anonymous_id" \in SetNames(e)
    BY <1>2 DEF InsertNames, SetNames
  <2>2. DOMAIN u.setOnInsert = Fields(InsertNames(e)) BY <1>1, InsertBlock
  <2>3. DOMAIN u.set = Fields(SetNames(e)) BY <1>1, SetBlock
  <2> HIDE DEF u
  <2>4. QED BY <2>1, <2>2, <2>3, FieldIn
<1>4. u.setOnInsert = u["setOnInsert"] /\ u.set = u["set"] OBVIOUS
<1>5. "setOnInsert" \in UpdateOperators /\ "set" \in UpdateOperators /\ "setOnInsert" # "set"
  BY DEF UpdateOperators
<1>6. IsPrefix(x, x)
  <2>1. x = <<"anonymous_id">> BY DEF Field
  <2>2. QED BY <2>1 DEF IsPrefix
<1>7. <<"setOnInsert", x>> # <<"set", x>> BY <1>5
<1> HIDE DEF u, x
<1>8. DuplicatePaths(u) BY <1>3, <1>4, <1>5, <1>6, <1>7 DEF DuplicatePaths, Overlap
<1>9. QED BY <1>8 DEF u

(* Every behaviour keeps RefusalInv.                                       *)
LEMMA RefusalInvariant == Spec => []RefusalInv
<1>1. Init => RefusalInv
  <2> SUFFICES ASSUME Init PROVE RefusalInv OBVIOUS
  <2>1. \A k \in Keys : docs[k] = NoFields /\ history[k] = <<>> BY DEF Init
  <2>2. CountedTypes(NoFields, <<>>) BY NoFieldsEmpty DEF CountedTypes
  <2>3. refused = {} BY DEF Init
  <2>4. QED BY <2>1, <2>2, <2>3 DEF RefusalInv
<1>2. StoreInv /\ RefusalInv /\ [Next]_vars => RefusalInv'
  <2> SUFFICES ASSUME StoreInv, RefusalInv, [Next]_vars PROVE RefusalInv' OBVIOUS
  <2>1. ASSUME NEW e \in Events, Process(e) PROVE RefusalInv'
    <3> DEFINE k == ResolveKey(e)
               u == FinalUpdate(e)
               rejected == (StrictStore /\ DuplicatePaths(u)) \/ ShapeClash(docs[k], u)
    <3>1. k \in Keys BY DEF Keys
    <3>2. history[k] \in Seq(Events) /\ Shape(docs[k]) /\ CountedTypes(docs[k], history[k])
      BY <3>1 DEF StoreInv, DocInv, RefusalInv
    <3>3. ShapeClash(docs[k], u) <=> Nested(e, history[k]) BY <3>2, ClashIsNested
    <3>4. DuplicatePaths(u) BY EveryUpdateIsDuplicate
    <3>5. CASE rejected
      <4>1. docs' = docs /\ history' = history /\ refused' = refused \cup {e}
        BY <2>1, <3>5 DEF Process
      <4>2. ~StrictStore => Nested(e, history[k]) BY <3>3, <3>5
      <4> HIDE DEF u, rejected
      <4>3. QED BY <4>1, <4>2 DEF RefusalInv
    <3>6. CASE ~rejected
      <4>1. /\ docs' = [docs EXCEPT ![k] = ApplyUpdate(docs[k], u)]
            /\ history' = [history EXCEPT ![k] = Append(history[k], e)]
            /\ refused' = refused
        BY <2>1, <3>6 DEF Process
      <4>2. ~StrictStore BY <3>4, <3>6
      <4>3. CountedTypes(ApplyUpdate(docs[k], u), Append(history[k], e))
        BY <3>2, CountedTypesStep
      <4>4. \A f : Nested(f, history[k]) => Nested(f, Append(history[k], e))
        <5>1. /\ DOMAIN history[k] \subseteq DOMAIN Append(history[k], e)
              /\ \A i \in DOMAIN history[k] : Append(history[k], e)[i] = history[k][i]
          BY <3>2, OneMore
        <5>2. QED BY <5>1 DEF Nested
      <4> HIDE DEF k, u, rejected
      <4>5. /\ \A j \in Keys : j # k => docs'[j] = docs[j] /\ history'[j] = history[j]
            /\ docs'[k] = ApplyUpdate(docs[k], u) /\ history'[k] = Append(history[k], e)
        BY <3>1, <4>1 DEF StoreInv
      <4>6. \A j \in Keys : CountedTypes(docs'[j], history'[j])
        BY <4>3, <4>5 DEF RefusalInv
      <4>7. \A f \in refused : ResolveKey(f) \in Keys BY DEF Keys, StoreInv
      <4>8. \A f \in refused' : Nested(f, history'[ResolveKey(f)])
        BY <4>1, <4>2, <4>4, <4>5, <4>7 DEF RefusalInv
      <4>9. QED BY <4>2, <4>6, <4>8 DEF RefusalInv
    <3>7. QED BY <3>5, <3>6
  <2>2. CASE UNCHANGED vars BY <2>2 DEF vars, RefusalInv
  <2>3. QED BY <2>1, <2>2 DEF Next, Idle
<1>3. QED BY <1>1, <1>2, StoreInvariant, PTL DEF Spec

(* A store that rejects an update which gives a field twice, as the comment*)
(* of feature.repository.ts:71-73 has it, never stores anything: the       *)
(* repository puts anonymous_id both in $setOnInsert and in $set (66-67,   *)
(* core.builder.ts:28-29).                                                 *)
THEOREM StrictStoresStoreNothing ==
  Spec => [](StrictStore => \A k \in Keys : docs[k] = NoFields)
<1>1. StoreInv /\ RefusalInv => (StrictStore => \A k \in Keys : docs[k] = NoFields)
  BY DEF StoreInv, DocInv, RefusalInv
<1>2. QED BY <1>1, StoreInvariant, RefusalInvariant, PTL

(* A store that does not refuses an event only when its type is inside     *)
(* another of the same identity, or the other in it, and of two such types *)
(* it never has both (core.builder.ts:9-10, 39).                           *)
THEOREM OnlyNestedTypesAreRefused ==
  Spec => [](~StrictStore =>
    /\ \A e \in refused : Nested(e, history[ResolveKey(e)])
    /\ \A k \in Keys : \A i \in DOMAIN history[k] : ~Nested(history[k][i], history[k]))
<1>1. ASSUME StoreInv, RefusalInv, NEW k \in Keys, NEW i \in DOMAIN history[k], NEW j \in DOMAIN history[k],
             history[k][j].type # history[k][i].type
      PROVE  ~Overlap(history[k][j].type, history[k][i].type)
  <2> DEFINE s == history[k][i].type
             t == history[k][j].type
  <2>1. history[k][i] \in Events /\ history[k][j] \in Events BY <1>1 DEF StoreInv
  <2>2. s \in Seq(STRING) \ {<<>>} /\ t \in Seq(STRING) \ {<<>>} BY <2>1, EventTypes
  <2>3. CountOf(s) \in DOMAIN docs[k] /\ CountOf(t) \in DOMAIN docs[k]
    BY <1>1, <2>2 DEF RefusalInv, CountedTypes
  <2>4. CountOf(s) # CountOf(t) BY <1>1, <2>2, CountsDiffer
  <2>5. ~Overlap(CountOf(t), CountOf(s)) BY <1>1, <2>3, <2>4 DEF StoreInv, DocInv, Shape, Tree
  <2>6. QED BY <2>2, <2>5, CountsInside DEF Overlap
<1>2. StoreInv /\ RefusalInv =>
        (~StrictStore =>
          /\ \A e \in refused : Nested(e, history[ResolveKey(e)])
          /\ \A k \in Keys : \A i \in DOMAIN history[k] : ~Nested(history[k][i], history[k]))
  BY <1>1 DEF RefusalInv, Nested
<1>3. QED BY <1>2, StoreInvariant, RefusalInvariant, PTL
=============================================================================
