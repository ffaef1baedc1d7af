---------------------------- MODULE MCFeatureStore ----------------------------
(* Instances of FeatureStore for model checking.                           *)
EXTENDS FeatureStore

Event(id, type, ts, user, detail) ==
  [id |-> id, type |-> type, ts |-> ts, business |-> "aap", user |-> user,
   anon |-> "a", priced |-> FALSE, price |-> 0, currency |-> "",
   detail |-> detail]

(* One user of one brand: every builder, timestamps out of order, details  *)
(* present and absent, a purchase without price, a type inside another.    *)
OneUser == {
  [Event("buy1", PURCHASE, 2, "u", "o1") EXCEPT !.priced = TRUE, !.price = 5, !.currency = "INR"],
  [Event("buy2", PURCHASE, 1, "u", "") EXCEPT !.priced = TRUE, !.price = 3, !.currency = "USD"],
  Event("cart1", ADD_TO_CART, 1, "u", "p1"),
  Event("signup1", USER_SIGNUP, 3, "u", "google"),
  Event("signup2", USER_SIGNUP, 1, "u", "otp"),
  Event("login1", USER_LOGIN, 2, "u", ""),
  Event("search1", SEARCH, 2, "u", "q"),
  Event("custom1", <<"custom">>, 1, "u", ""),
  Event("custom2", <<"custom", "v2">>, 2, "u", "") }

(* The same browser before login and with another user, another browser,   *)
(* another brand.                                                          *)
Identities == {
  Event("view1", <<"page_view">>, 2, "", ""),
  Event("view3", <<"page_view">>, 3, "w", ""),
  [Event("view2", <<"page_view">>, 1, "u", "") EXCEPT !.anon = "b"],
  [Event("login2", USER_LOGIN, 1, "u", "otp") EXCEPT !.business = "saas"] }

AllEvents == OneUser \cup Identities
=============================================================================
