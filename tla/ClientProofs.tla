----------------------------- MODULE ClientProofs -----------------------------
(***************************************************************************)
(* Proofs about the two components that are clients of a library: the      *)
(* requests of CircuitBreaker, for any calls and breakers, and whatever    *)
(* the failure rate and the server do; and the configuration of OdinConfig,*)
(* for any keys, nodes and bounds.  The components share nothing.          *)
(***************************************************************************)
EXTENDS CircuitBreaker, OdinConfig, WellFoundedInduction, TLAPS

(***************************************************************************)
(* CircuitBreaker.                                                         *)
(***************************************************************************)
(* Nothing that executeRequest ends with is rejected, so the call ends.    *)
LEMMA EndsAnswer ==
  ASSUME NEW c, NEW outcome, Ends(c, outcome)
  PROVE  /\ call' = [call EXCEPT ![c] = "answered"]
         /\ result' = [result EXCEPT ![c] = outcome]
  BY DEF Ends, Rejects

(* The initial state is well typed.                                        *)
LEMMA InitTyped == Init => TypeOK
  BY DEF Init, TypeOK, Results

(* Every step keeps the state well typed.                                  *)
LEMMA TypeStep == TypeOK /\ [Next]_vars => TypeOK'
<1> SUFFICES ASSUME TypeOK, [Next]_vars PROVE TypeOK'
  OBVIOUS
<1> USE CallsAssumption, DefaultAssumption
<1>1. ASSUME NEW c \in Calls, RequestDirectly(c) PROVE TypeOK'
  BY <1>1 DEF TypeOK, RequestDirectly, Send
<1>2. ASSUME NEW c \in Calls, RequestGuarded(c) PROVE TypeOK'
  <2> DEFINE n == NameOf[c]
  <2>1. n \in Names BY <1>2 DEF RequestGuarded
  <2>2. FallbackOf(c) \in Calls \cup {Default} BY DEF FallbackOf
  <2>3. fallback' \in [Names -> Calls \cup {Default, "none"}]
    BY <1>2, <2>1, <2>2 DEF TypeOK, RequestGuarded, SetFallback
  <2>4. after' \in [Calls -> SUBSET Calls]
    BY <1>2 DEF TypeOK, RequestGuarded, Overlap
  <2>5. CASE Send(c)
    <3>1. state' \in [Names -> {"none", "closed", "open", "halfOpen", "probing"}]
      BY <1>2, <2>1 DEF TypeOK, RequestGuarded
    <3>2. QED BY <2>3, <2>4, <2>5, <3>1 DEF TypeOK, Send
  <2>6. CASE Rescue(c, fallback'[n]) /\ UNCHANGED <<state, sends>>
    <3>1. fallback'[n] \in Calls \cup {Default, "none"} BY <2>1, <2>3
    <3>2. PICK outcome \in {"default", "oops"} : Ends(c, outcome) BY <2>6 DEF Rescue
    <3>3. call' = [call EXCEPT ![c] = "answered"] /\ result' = [result EXCEPT ![c] = outcome]
      BY <3>2, EndsAnswer
    <3>4. QED BY <2>3, <2>4, <2>6, <3>1, <3>3 DEF TypeOK, Rescue, Results
  <2>7. QED BY <1>2, <2>5, <2>6 DEF RequestGuarded
<1>3. ASSUME NEW c \in Calls, Succeed(c) PROVE TypeOK'
  <2>1. call' = [call EXCEPT ![c] = "answered"] /\ result' = [result EXCEPT ![c] = "success"]
    BY <1>3, EndsAnswer DEF Succeed
  <2>2. QED BY <1>3, <2>1 DEF TypeOK, Succeed, Results
<1>4. ASSUME NEW c \in Calls, FailDirectly(c) PROVE TypeOK'
  <2>1. call' = [call EXCEPT ![c] = "answered"] /\ result' = [result EXCEPT ![c] = "failure"]
    BY <1>4, EndsAnswer DEF FailDirectly
  <2>2. QED BY <1>4, <2>1 DEF TypeOK, FailDirectly, Results
<1>5. ASSUME NEW c \in Calls, FailGuarded(c) PROVE TypeOK'
  <2> DEFINE n == NameOf[c]
  <2>1. n \in Names BY <1>5 DEF FailGuarded
  <2>2. fallback[n] \in Calls \cup {Default, "none"} BY <2>1 DEF TypeOK
  <2>3. PICK outcome \in {"default", "oops"} : Ends(c, outcome) BY <1>5 DEF FailGuarded, Rescue
  <2>4. call' = [call EXCEPT ![c] = "answered"] /\ result' = [result EXCEPT ![c] = outcome]
    BY <2>3, EndsAnswer
  <2>5. state' \in [Names -> {"none", "closed", "open", "halfOpen", "probing"}]
    BY <1>5, <2>1 DEF TypeOK, FailGuarded
  <2>6. QED BY <1>5, <2>2, <2>4, <2>5 DEF TypeOK, FailGuarded, Rescue, Results
<1>6. ASSUME NEW n \in Names, Reset(n) PROVE TypeOK'
  BY <1>6 DEF TypeOK, Reset
<1>7. CASE UNCHANGED vars
  BY <1>7 DEF TypeOK, vars
<1>8. QED BY <1>1, <1>2, <1>3, <1>4, <1>5, <1>6, <1>7 DEF Next

(* Type correctness of the requests, for any calls and breakers.           *)
THEOREM TypeCorrect == Spec => []TypeOK
  BY InitTyped, TypeStep, PTL DEF Spec
-----------------------------------------------------------------------------
(* A call is sent at most once: one that is sent waits for its only answer, *)
(* and one that is answered never begins again.                            *)
OnceInv ==
  \A c \in Calls :
    /\ call[c] # "retrying"
    /\ sends[c] = 0 \/ (sends[c] = 1 /\ call[c] \in {"sent", "answered"})

(* Every step keeps OnceInv.                                               *)
LEMMA OnceStep == TypeOK /\ OnceInv /\ [Next]_vars => OnceInv'
<1> SUFFICES ASSUME TypeOK, OnceInv, [Next]_vars PROVE OnceInv'
  OBVIOUS
<1>1. ASSUME NEW c \in Calls, Begins(c), Send(c) PROVE OnceInv'
  <2>1. sends[c] = 0 BY <1>1 DEF OnceInv, Begins
  <2>2. sends' = [sends EXCEPT ![c] = 1] BY <1>1, <2>1 DEF Send
  <2>3. QED BY <1>1, <2>2 DEF OnceInv, TypeOK, Send
<1>2. ASSUME NEW c \in Calls, NEW outcome, Ends(c, outcome), UNCHANGED sends PROVE OnceInv'
  <2>1. call' = [call EXCEPT ![c] = "answered"] BY <1>2, EndsAnswer
  <2>2. QED BY <1>2, <2>1 DEF OnceInv, TypeOK
<1>3. ASSUME NEW c \in Calls, NEW owner, Rescue(c, owner), UNCHANGED sends PROVE OnceInv'
  BY <1>2, <1>3 DEF Rescue
<1>4. CASE UNCHANGED <<call, sends>>
  BY <1>4 DEF OnceInv
<1>5. QED
  BY <1>1, <1>2, <1>3, <1>4
  DEF Next, RequestDirectly, RequestGuarded, Succeed, FailDirectly, FailGuarded, Reset, vars

(* No request is sent twice, whatever attempts is and however it fails.    *)
THEOREM SentAtMostOnce == Spec => [](\A c \in Calls : sends[c] <= 1)
<1>1. Init => OnceInv BY DEF Init, OnceInv
<1>2. ASSUME OnceInv, NEW c \in Calls PROVE sends[c] <= 1
  <2>1. sends[c] \in {0, 1} BY <1>2 DEF OnceInv
  <2>2. QED BY <2>1
<1>3. OnceInv => \A c \in Calls : sends[c] <= 1 BY <1>2
<1>4. QED BY <1>1, <1>3, OnceStep, TypeCorrect, PTL DEF Spec
-----------------------------------------------------------------------------
(* A fallback a call may be rescued by: its own, or that of a call of its  *)
(* breaker that began under it.                                            *)
MayRescue(c, owner) ==
  \/ owner = FallbackOf(c)
  \/ \E d \in after[c] : NameOf[d] = NameOf[c] /\ owner = FallbackOf(d)

(* While a call waits, its breaker has a fallback that may rescue it.      *)
RescueInv ==
  \A c \in Calls :
    /\ c \in Guarded /\ call[c] = "sent" => MayRescue(c, fallback[NameOf[c]])
    /\ rescuer[c] # "none" => MayRescue(c, rescuer[c])

(* Every step keeps RescueInv.                                             *)
LEMMA RescueStep == TypeOK /\ RescueInv /\ [Next]_vars => RescueInv'
<1> SUFFICES ASSUME TypeOK, RescueInv, [Next]_vars PROVE RescueInv'
  OBVIOUS
<1> USE CallsAssumption
<1>1. ASSUME NEW c \in Calls, RequestDirectly(c) PROVE RescueInv'
  BY <1>1 DEF RescueInv, MayRescue, TypeOK, RequestDirectly, Send
<1>2. ASSUME NEW c \in Calls, RequestGuarded(c) PROVE RescueInv'
  <2> DEFINE n == NameOf[c]
  <2>1. c \in Guarded /\ n \in Names /\ call[c] # "sent"
    BY <1>2 DEF RequestGuarded, Begins
  <2>2. fallback' = [fallback EXCEPT ![n] = FallbackOf(c)]
    BY <1>2 DEF RequestGuarded, SetFallback
  <2>3. fallback'[n] = FallbackOf(c) BY <2>1, <2>2 DEF TypeOK
  <2>4. \A d \in Calls : after[d] \subseteq after'[d]
    BY <1>2 DEF RequestGuarded, Overlap, TypeOK
  <2>5. \A d \in Guarded : call[d] = "sent" /\ NameOf[d] = n => c \in after'[d]
    BY <1>2 DEF RequestGuarded, Overlap, TypeOK
  <2>6. \A d \in Calls : \A owner : MayRescue(d, owner) => MayRescue(d, owner)'
    BY <2>4 DEF MayRescue
  <2>7. ASSUME NEW d \in Calls, d # c
        PROVE  call'[d] = call[d] /\ rescuer'[d] = rescuer[d]
    <3>1. CASE Send(c) BY <3>1, <2>7 DEF Send, TypeOK
    <3>2. CASE Rescue(c, fallback'[n])
      <4>1. call' = [call EXCEPT ![c] = "answered"] BY <3>2, EndsAnswer DEF Rescue
      <4>2. QED BY <3>2, <4>1, <2>7 DEF Rescue, TypeOK
    <3>3. QED BY <1>2, <3>1, <3>2 DEF RequestGuarded
  <2>8. ASSUME NEW d \in Guarded, d # c, call'[d] = "sent"
        PROVE  MayRescue(d, fallback[NameOf[d]])'
    <3>1. call[d] = "sent" BY <2>7, <2>8
    <3>2. CASE NameOf[d] = n
      BY <3>1, <3>2, <2>1, <2>3, <2>5, <2>8 DEF MayRescue
    <3>3. CASE NameOf[d] # n
      <4>1. fallback'[NameOf[d]] = fallback[NameOf[d]] BY <3>3, <2>2, <2>8 DEF TypeOK
      <4>2. MayRescue(d, fallback[NameOf[d]]) BY <3>1, <2>8 DEF RescueInv
      <4>3. QED BY <4>1, <4>2, <2>6, <2>8
    <3>4. QED BY <3>2, <3>3
  <2>9. MayRescue(c, fallback[n])' BY <2>3 DEF MayRescue
  <2>10. rescuer'[c] \in {rescuer[c], FallbackOf(c)}
    <3>1. CASE Send(c) BY <3>1 DEF Send
    <3>2. CASE Rescue(c, fallback'[n]) BY <3>2, <2>3 DEF Rescue, TypeOK
    <3>3. QED BY <1>2, <3>1, <3>2 DEF RequestGuarded
  <2>11. ASSUME NEW d \in Calls, rescuer'[d] # "none" PROVE MayRescue(d, rescuer[d])'
    <3>1. CASE d = c /\ rescuer'[c] = FallbackOf(c) BY <3>1 DEF MayRescue
    <3>2. CASE rescuer'[d] = rescuer[d]
      <4>1. MayRescue(d, rescuer[d]) BY <2>11, <3>2 DEF RescueInv
      <4>2. QED BY <4>1, <3>2, <2>6
    <3>3. QED BY <3>1, <3>2, <2>7, <2>10
  <2>12. QED BY <2>8, <2>9, <2>11 DEF RescueInv
<1>3. ASSUME NEW c \in Calls, Succeed(c) PROVE RescueInv'
  <2>1. call' = [call EXCEPT ![c] = "answered"] BY <1>3, EndsAnswer DEF Succeed
  <2>2. QED BY <1>3, <2>1 DEF RescueInv, MayRescue, TypeOK, Succeed
<1>4. ASSUME NEW c \in Calls, FailDirectly(c) PROVE RescueInv'
  <2>1. call' = [call EXCEPT ![c] = "answered"] BY <1>4, EndsAnswer DEF FailDirectly
  <2>2. QED BY <1>4, <2>1 DEF RescueInv, MayRescue, TypeOK, FailDirectly
<1>5. ASSUME NEW c \in Calls, FailGuarded(c) PROVE RescueInv'
  <2>1. call' = [call EXCEPT ![c] = "answered"] BY <1>5, EndsAnswer DEF FailGuarded, Rescue
  <2>2. MayRescue(c, fallback[NameOf[c]]) BY <1>5 DEF RescueInv, FailGuarded
  <2>3. rescuer' = [rescuer EXCEPT ![c] = fallback[NameOf[c]]] BY <1>5 DEF FailGuarded, Rescue
  <2>4. UNCHANGED <<fallback, after>> BY <1>5 DEF FailGuarded
  <2>5. \A d \in Calls : \A owner : MayRescue(d, owner) => MayRescue(d, owner)'
    BY <2>4 DEF MayRescue
  <2>6. QED BY <2>1, <2>2, <2>3, <2>4, <2>5 DEF RescueInv, TypeOK
<1>6. ASSUME NEW n \in Names, Reset(n) PROVE RescueInv'
  BY <1>6 DEF RescueInv, MayRescue, Reset
<1>7. CASE UNCHANGED vars
  BY <1>7 DEF RescueInv, MayRescue, vars
<1>8. QED BY <1>1, <1>2, <1>3, <1>4, <1>5, <1>6, <1>7 DEF Next

(* No call is rescued by the fallback of an earlier one, nor by one of     *)
(* another breaker.                                                        *)
THEOREM FallbacksAreOwnOrOverlapping == Spec => []ForeignFallbackNeedsOverlap
<1>1. Init => RescueInv BY DEF Init, RescueInv
<1>2. RescueInv => ForeignFallbackNeedsOverlap
  BY DEF RescueInv, MayRescue, ForeignFallbackNeedsOverlap
<1>3. QED BY <1>1, <1>2, RescueStep, TypeCorrect, PTL DEF Spec
-----------------------------------------------------------------------------
(***************************************************************************)
(* OdinConfig.  Facts about numbers and sequences come first, then what    *)
(* the types say, then the parts of OdinInv: each with the lemmas about    *)
(* the steps that can disturb it.                                          *)
(***************************************************************************)
(* A set of numbers that is not empty has a least one.                     *)
LEMMA LeastNumber ==
  ASSUME NEW S \in SUBSET Nat, S # {}
  PROVE  \E x \in S : \A y \in S : x <= y
<1>1. ASSUME NEW a \in Nat, NEW b \in Nat PROVE <<a, b>> \in OpToRel(<, Nat) <=> a < b
  BY DEF OpToRel
<1>2. PICK R : IsWellFoundedOn(R, Nat) /\ (\A a, b \in Nat : <<a, b>> \in R <=> a < b)
  BY <1>1, NatLessThanWellFounded
<1>3. S \subseteq Nat
  OBVIOUS
<1>4. \A T : T \subseteq Nat /\ T # {} => \E x \in T : \A y \in T : <<y, x>> \notin R
  <2> SUFFICES ASSUME NEW T, T \subseteq Nat, T # {} PROVE \E x \in T : \A y \in T : <<y, x>> \notin R
    OBVIOUS
  <2>1. IsWellFoundedOn(R, Nat)
    BY <1>2
  <2> QED
    BY <2>1, WFMin, Zenon
<1>5. PICK x \in S : \A y \in S : <<y, x>> \notin R
  BY <1>3, <1>4
<1>6. \A y \in S : ~(y < x)
  BY <1>2, <1>3, <1>5
<1>7. \A y \in S : x <= y
  BY <1>3, <1>6
<1> QED
  BY <1>5, <1>7

(* Induction: a set of numbers with 0 and with every successor is Nat.     *)
LEMMA Induction ==
  ASSUME NEW S \in SUBSET Nat, 0 \in S, \A n \in S : n + 1 \in S
  PROVE  \A n \in Nat : n \in S
<1> SUFFICES ASSUME Nat \ S # {} PROVE FALSE
  OBVIOUS
<1>1. PICK x \in Nat \ S : \A y \in Nat \ S : x <= y
  BY LeastNumber
<1>2. x # 0 /\ x - 1 \in Nat
  BY <1>1
<1>3. x - 1 \in S
  BY <1>1, <1>2
<1> QED
  BY <1>1, <1>2, <1>3

(* What Picked is computed with, up to the position n.                     *)
PicksUpTo(f, s, positions, n) ==
  f = [m \in 0..n |->
         IF m = 0 THEN <<>>
         ELSE IF m \in positions THEN Append(f[m - 1], s[m]) ELSE f[m - 1]]

(* It exists for every position.                                           *)
LEMMA PicksExist ==
  ASSUME NEW s, NEW positions
  PROVE  \A n \in Nat : \E f : PicksUpTo(f, s, positions, n)
<1> DEFINE S == {n \in Nat : \E f : PicksUpTo(f, s, positions, n)}
<1>1. 0 \in S
  <2>1. PicksUpTo([m \in 0..0 |-> <<>>], s, positions, 0)
    BY DEF PicksUpTo
  <2> QED
    BY <2>1
<1>2. ASSUME NEW n \in S PROVE n + 1 \in S
  <2>1. PICK f : PicksUpTo(f, s, positions, n)
    BY <1>2
  <2> DEFINE last == IF n + 1 \in positions THEN Append(f[n], s[n + 1]) ELSE f[n]
             g == [m \in 0..(n + 1) |-> IF m = n + 1 THEN last ELSE f[m]]
  <2>2. \A m \in 0..n : f[m] = IF m = 0 THEN <<>>
                               ELSE IF m \in positions THEN Append(f[m - 1], s[m]) ELSE f[m - 1]
    BY <2>1 DEF PicksUpTo
  <2>3. \A m \in 0..(n + 1) : g[m] = IF m = 0 THEN <<>>
                               ELSE IF m \in positions THEN Append(g[m - 1], s[m]) ELSE g[m - 1]
    <3> SUFFICES ASSUME NEW m \in 0..(n + 1)
                 PROVE  g[m] = IF m = 0 THEN <<>>
                               ELSE IF m \in positions THEN Append(g[m - 1], s[m]) ELSE g[m - 1]
      OBVIOUS
    <3>1. CASE m = n + 1
      <4>1. m # 0 /\ m - 1 = n /\ n \in 0..(n + 1) /\ n # n + 1
        BY <3>1, <1>2
      <4>2. g[n] = f[n] /\ g[m] = last
        BY <4>1, <3>1
      <4> QED
        BY <3>1, <4>1, <4>2
    <3>2. CASE m \in 0..n
      <4>1. m # n + 1 /\ g[m] = f[m]
        BY <3>2, <1>2
      <4>2. m # 0 => m - 1 \in 0..(n + 1) /\ m - 1 # n + 1 /\ g[m - 1] = f[m - 1]
        BY <3>2, <1>2
      <4> QED
        BY <2>2, <3>2, <4>1, <4>2
    <3> QED
      BY <3>1, <3>2, <1>2
  <2>4. PicksUpTo(g, s, positions, n + 1)
    <3>1. g = [m \in 0..(n + 1) |-> g[m]]
      OBVIOUS
    <3> HIDE DEF g
    <3> QED
      BY <2>3, <3>1 DEF PicksUpTo
  <2> QED
    BY <2>4
<1>3. S \subseteq Nat
  OBVIOUS
<1> HIDE DEF S
<1>4. \A n \in Nat : n \in S
  BY <1>1, <1>2, <1>3, Induction
<1> QED
  BY <1>4 DEF S

(* r is made of elements of s at some of the positions, no position twice, *)
(* that place gives.                                                       *)
MadeOf(r, s, positions, n, place) ==
  /\ place \in [1..Len(r) -> positions \cap (1..n)]
  /\ \A i, j \in 1..Len(r) : place[i] = place[j] => i = j
  /\ \A i \in 1..Len(r) : r[i] = s[place[i]]

(* Picked returns elements of s, each position at most once.               *)
LEMMA PickedIs ==
  ASSUME NEW X, NEW s \in Seq(X), NEW positions
  PROVE  /\ Picked(s, positions) \in Seq(X)
         /\ \E place : MadeOf(Picked(s, positions), s, positions, Len(s), place)
<1> DEFINE N == Len(s)
           f == CHOOSE f : PicksUpTo(f, s, positions, N)
           Good(n) == f[n] \in Seq(X) /\ \E place : MadeOf(f[n], s, positions, n, place)
           S == {n \in Nat : n <= N => Good(n)}
<1>0. N \in Nat /\ \A n \in 1..N : s[n] \in X
  OBVIOUS
<1>1. PicksUpTo(f, s, positions, N)
  BY <1>0, PicksExist
<1>2. Picked(s, positions) = f[N]
  BY DEF Picked, PicksUpTo
<1> HIDE DEF f
<1>3. \A m \in 0..N : f[m] = IF m = 0 THEN <<>>
                             ELSE IF m \in positions THEN Append(f[m - 1], s[m]) ELSE f[m - 1]
  BY <1>1 DEF PicksUpTo
<1> HIDE DEF N
<1>4. Good(0)
  <2>1. f[0] = <<>>
    BY <1>0, <1>3
  <2>2. MadeOf(f[0], s, positions, 0, <<>>)
    BY <2>1 DEF MadeOf
  <2> QED
    BY <2>1, <2>2
<1>5. ASSUME NEW n \in Nat, n + 1 <= N, Good(n) PROVE Good(n + 1)
  <2> DEFINE r == f[n]
  <2>1. PICK place : MadeOf(r, s, positions, n, place)
    BY <1>5
  <2>2. r \in Seq(X) /\ Len(r) \in Nat
    BY <1>5
  <2>3. n + 1 \in 0..N /\ n + 1 # 0 /\ (n + 1) - 1 = n /\ s[n + 1] \in X
    BY <1>0, <1>5
  <2>4. f[n + 1] = IF n + 1 \in positions THEN Append(r, s[n + 1]) ELSE r
    BY <1>3, <2>3
  <2> HIDE DEF r
  <2>5. CASE n + 1 \notin positions
    <3>1. MadeOf(r, s, positions, n + 1, place)
      BY <2>1, <2>2 DEF MadeOf
    <3> QED
      BY <2>2, <2>4, <2>5, <3>1
  <2>6. CASE n + 1 \in positions
    <3> DEFINE q == Append(r, s[n + 1])
               p == [i \in 1..(Len(r) + 1) |-> IF i = Len(r) + 1 THEN n + 1 ELSE place[i]]
    <3>1. /\ q \in Seq(X) /\ Len(q) = Len(r) + 1
          /\ \A i \in 1..Len(r) : q[i] = r[i]
          /\ q[Len(r) + 1] = s[n + 1]
      BY <2>2, <2>3
    <3>2. \A i \in 1..Len(r) : place[i] \in positions \cap (1..n) /\ r[i] = s[place[i]]
      BY <2>1 DEF MadeOf
    <3>3. p \in [1..Len(q) -> positions \cap (1..(n + 1))]
      BY <1>5, <2>2, <2>6, <3>1, <3>2
    <3>4. ASSUME NEW i \in 1..Len(q), NEW j \in 1..Len(q), p[i] = p[j] PROVE i = j
      <4>1. \A a \in 1..Len(r) : place[a] # n + 1
        BY <1>5, <3>2
      <4>2. i \in 1..Len(r) /\ j \in 1..Len(r) => place[i] = place[j]
        BY <2>2, <3>1, <3>4
      <4>3. i \in 1..Len(r) /\ j \in 1..Len(r) => i = j
        BY <2>1, <4>2 DEF MadeOf
      <4> QED
        BY <2>2, <3>1, <3>4, <4>1, <4>3
    <3>5. \A i \in 1..Len(q) : q[i] = s[p[i]]
      BY <2>2, <3>1, <3>2
    <3> HIDE DEF p, q
    <3>6. MadeOf(q, s, positions, n + 1, p)
      BY <3>3, <3>4, <3>5 DEF MadeOf
    <3>7. f[n + 1] = q
      BY <2>4, <2>6 DEF q
    <3> QED
      BY <3>1, <3>6, <3>7
  <2> QED
    BY <2>5, <2>6
<1> HIDE DEF Good
<1>6. 0 \in S /\ S \subseteq Nat
  BY <1>4
<1>7. ASSUME NEW n \in S PROVE n + 1 \in S
  BY <1>0, <1>5, <1>7
<1> HIDE DEF S
<1>8. \A n \in Nat : n \in S
  BY <1>6, <1>7, Induction
<1>9. Good(N)
  BY <1>0, <1>8 DEF S
<1> QED
  BY <1>2, <1>9 DEF Good, N

-----------------------------------------------------------------------------
(* The elements of a sequence.                                             *)
Elems(s) == {s[i] : i \in DOMAIN s}

(* Sequences over a set are sequences over a larger one.                   *)
LEMMA SeqOfMore ==
  ASSUME NEW X, NEW Y, X \subseteq Y, NEW s \in Seq(X)
  PROVE  s \in Seq(Y)
<1>1. Len(s) \in Nat /\ s = [i \in 1..Len(s) |-> s[i]] /\ \A i \in 1..Len(s) : s[i] \in Y
  OBVIOUS
<1>2. s \in [1..Len(s) -> Y]
  BY <1>1
<1> QED
  BY <1>1, <1>2

(* What Append, Tail and \o do to elements and positions.                  *)
LEMMA AppendDoes ==
  ASSUME NEW X, NEW s \in Seq(X), NEW e \in X
  PROVE  /\ Append(s, e) \in Seq(X)
         /\ DOMAIN Append(s, e) = 1..(Len(s) + 1) /\ DOMAIN s = 1..Len(s) /\ Len(s) \in Nat
         /\ \A i \in DOMAIN s : Append(s, e)[i] = s[i]
         /\ Append(s, e)[Len(s) + 1] = e
         /\ Elems(Append(s, e)) = Elems(s) \cup {e}
  BY DEF Elems

(* The elements of the rest of a sequence are those after the first.       *)
LEMMA TailDoes ==
  ASSUME NEW X, NEW s \in Seq(X), s # <<>>
  PROVE  /\ Tail(s) \in Seq(X) /\ Head(s) \in X
         /\ Head(s) = s[1] /\ 1 \in DOMAIN s
         /\ DOMAIN s = 1..Len(s) /\ Len(s) \in Nat
         /\ \A i \in DOMAIN Tail(s) : i + 1 \in DOMAIN s /\ Tail(s)[i] = s[i + 1]
         /\ \A i \in DOMAIN s : i = 1 \/ (i - 1 \in DOMAIN Tail(s) /\ Tail(s)[i - 1] = s[i])
         /\ \A i \in DOMAIN Tail(s) : i \in Nat
         /\ Elems(s) = Elems(Tail(s)) \cup {Head(s)}
<1>1. /\ Tail(s) \in Seq(X) /\ Head(s) \in X
      /\ Head(s) = s[1] /\ 1 \in DOMAIN s
      /\ DOMAIN s = 1..Len(s) /\ Len(s) \in Nat
      /\ \A i \in DOMAIN Tail(s) : i \in Nat
  OBVIOUS
<1>2. DOMAIN Tail(s) = 1..(Len(s) - 1) /\ \A i \in 1..(Len(s) - 1) : Tail(s)[i] = s[i + 1]
  OBVIOUS
<1>3. \A i \in DOMAIN Tail(s) : i + 1 \in DOMAIN s /\ Tail(s)[i] = s[i + 1]
  BY <1>1, <1>2
<1>4. \A i \in DOMAIN s : i = 1 \/ (i - 1 \in DOMAIN Tail(s) /\ Tail(s)[i - 1] = s[i])
  BY <1>1, <1>2
<1>5. Elems(s) = Elems(Tail(s)) \cup {Head(s)}
  <2>1. ASSUME NEW i \in DOMAIN s PROVE s[i] \in Elems(Tail(s)) \cup {Head(s)}
    BY <1>1, <1>4 DEF Elems
  <2>2. ASSUME NEW i \in DOMAIN Tail(s) PROVE Tail(s)[i] \in Elems(s)
    BY <1>3 DEF Elems
  <2>3. Head(s) \in Elems(s)
    BY <1>1 DEF Elems
  <2>4. Elems(s) \subseteq Elems(Tail(s)) \cup {Head(s)}
    BY <2>1 DEF Elems
  <2>5. Elems(Tail(s)) \subseteq Elems(s)
    BY <2>2 DEF Elems
  <2> QED
    BY <2>3, <2>4, <2>5
<1> QED
  BY <1>1, <1>3, <1>4, <1>5

(* The places of two sequences, one after the other.                       *)
LEMMA ConcatDoes ==
  ASSUME NEW X, NEW s \in Seq(X), NEW t \in Seq(X)
  PROVE  /\ s \o t \in Seq(X)
         /\ DOMAIN (s \o t) = 1..(Len(s) + Len(t)) /\ DOMAIN s = 1..Len(s) /\ DOMAIN t = 1..Len(t)
         /\ Len(s) \in Nat /\ Len(t) \in Nat
         /\ \A i \in DOMAIN s : i \in DOMAIN (s \o t) /\ (s \o t)[i] = s[i]
         /\ \A i \in DOMAIN t : i + Len(s) \in DOMAIN (s \o t) /\ (s \o t)[i + Len(s)] = t[i]
         /\ \A i \in DOMAIN (s \o t) : i \notin DOMAIN s => i - Len(s) \in DOMAIN t /\ (s \o t)[i] = t[i - Len(s)]
         /\ Elems(s \o t) = Elems(s) \cup Elems(t)
<1>1. /\ s \o t \in Seq(X)
      /\ DOMAIN (s \o t) = 1..(Len(s) + Len(t)) /\ DOMAIN s = 1..Len(s) /\ DOMAIN t = 1..Len(t)
      /\ Len(s) \in Nat /\ Len(t) \in Nat
  OBVIOUS
<1>2. \A i \in 1..(Len(s) + Len(t)) : (s \o t)[i] = IF i <= Len(s) THEN s[i] ELSE t[i - Len(s)]
  OBVIOUS
<1>3. \A i \in DOMAIN s : i \in DOMAIN (s \o t) /\ (s \o t)[i] = s[i]
  BY <1>1, <1>2
<1>4. \A i \in DOMAIN t : i + Len(s) \in DOMAIN (s \o t) /\ (s \o t)[i + Len(s)] = t[i]
  BY <1>1, <1>2
<1>5. \A i \in DOMAIN (s \o t) : i \notin DOMAIN s => i - Len(s) \in DOMAIN t /\ (s \o t)[i] = t[i - Len(s)]
  BY <1>1, <1>2
<1>6. Elems(s \o t) = Elems(s) \cup Elems(t)
  <2> DEFINE r == s \o t
  <2> HIDE DEF r
  <2>1. ASSUME NEW i \in DOMAIN r PROVE r[i] \in Elems(s) \cup Elems(t)
    BY <1>3, <1>5 DEF r, Elems
  <2>2. ASSUME NEW i \in DOMAIN s PROVE s[i] \in Elems(r)
    BY <1>3 DEF r, Elems
  <2>3. ASSUME NEW i \in DOMAIN t PROVE t[i] \in Elems(r)
    BY <1>4 DEF r, Elems
  <2>4. Elems(r) \subseteq Elems(s) \cup Elems(t)
    BY <2>1 DEF Elems
  <2>5. Elems(s) \subseteq Elems(r) /\ Elems(t) \subseteq Elems(r)
    BY <2>2, <2>3 DEF Elems
  <2> QED
    BY <2>4, <2>5 DEF r
<1> QED
  BY <1>1, <1>3, <1>4, <1>5, <1>6
-----------------------------------------------------------------------------
(* The events of every node.                                               *)
Events == {Event(n) : n \in Nodes}

(* The two kinds of requests.                                              *)
ListRequests == {r \in Requests : r.kind = "list"}
DataRequests == {r \in Requests : r.kind = "data"}

(* What a node may be read as.                                             *)
Versions == 0..(MaxWrites + 1)

(* What an inbox holds: events, and replies that fit their requests.       *)
Messages ==
  Events \cup {Reply(r, f) : r \in ListRequests, f \in SUBSET Keys}
         \cup {Reply(r, f) : r \in DataRequests, f \in Versions}

(* Where a load may be.                                                    *)
States == {"none", "reading", "done", "aborted"}
Loads == [state: States, tree: Trees, leaves: SUBSET Keys]

(* Type correctness, with queues that are sequences and the budget of      *)
(* clients.                                                                *)
TypeInv ==
  /\ node \in [Nodes -> Versions]
  /\ watches \in [Clients -> SUBSET Nodes]
  /\ lists \in [Clients -> SUBSET Trees]
  /\ status \in [Clients -> {"none", "connecting", "up", "down", "expired"}]
  /\ asked \in [Clients -> Seq(Requests)]
  /\ inbox \in [Clients -> Seq(Messages)]
  /\ current \in Clients
  /\ connected \in BOOLEAN
  /\ load \in [Clients -> Loads]
  /\ props \in [Keys -> [level: Levels, version: Versions]]
  /\ \A k \in Keys : props[k].level = "local" <=> props[k].version = 0
  /\ started \in {"no", "ready", "failed"}
  /\ writes \in 0..MaxWrites /\ alterations \in 0..MaxAltered /\ losses \in 0..MaxLosses
  /\ mishaps \subseteq Mishaps /\ altered \subseteq Keys
  /\ current <= 1 + losses + MaxExpiries

(* The clients are 1, 2, ... up to a number of them.                       *)
LEMMA ClientsAre ==
  /\ 1 \in Clients /\ 0 \notin Clients
  /\ \A c \in Clients : c \in Nat
  /\ \A c \in Nat : c >= 1 /\ c <= 1 + MaxLosses + MaxExpiries => c \in Clients
  BY BoundsAssumption DEF Clients

(* Requests and messages, by their parts.                                  *)
LEMMA RequestIs ==
  ASSUME NEW r \in Requests
  PROVE  /\ r.kind \in {"list", "data"} /\ r.node \in Nodes /\ r.load \in {0} \cup Clients
         /\ r.kind = "list" => r.load \in Clients /\ r.node[2] = Root
         /\ r.node[1] \in Trees
  BY DEF Requests, Nodes

(* The requests that are made are requests of their kind.                  *)
LEMMA RequestsMade ==
  /\ \A l \in Clients, t \in Trees :
       /\ ListOf(l, t) \in ListRequests /\ ListOf(l, t) \in Requests
       /\ ListOf(l, t).kind = "list" /\ ListOf(l, t).node = <<t, Root>> /\ ListOf(l, t).load = l
  /\ \A l \in {0} \cup Clients, n \in Nodes :
       /\ DataOf(l, n) \in DataRequests /\ DataOf(l, n) \in Requests
       /\ DataOf(l, n).kind = "data" /\ DataOf(l, n).node = n /\ DataOf(l, n).load = l
  BY DEF ListOf, DataOf, Requests, ListRequests, DataRequests, Nodes

(* A message is an event of a node, or a reply that fits its request.      *)
LEMMA MessageIs ==
  ASSUME NEW m \in Messages
  PROVE  /\ ~IsReply(m) => m.node \in Nodes /\ m = Event(m.node)
         /\ IsReply(m) => /\ m.request \in Requests
                          /\ m.request.kind = "list" => m.found \in SUBSET Keys
                          /\ m.request.kind = "data" => m.found \in Versions
<1>1. CASE m \in Events
  BY <1>1 DEF Events, Event, IsReply
<1>2. ASSUME NEW r \in ListRequests, NEW f \in SUBSET Keys, m = Reply(r, f)
      PROVE  IsReply(m) /\ m.request = r /\ m.found = f
  BY <1>2 DEF IsReply, Reply
<1>3. ASSUME NEW r \in DataRequests, NEW f \in Versions, m = Reply(r, f)
      PROVE  IsReply(m) /\ m.request = r /\ m.found = f
  BY <1>3 DEF IsReply, Reply
<1>4. CASE \E r \in ListRequests, f \in SUBSET Keys : m = Reply(r, f)
  BY <1>2, <1>4 DEF ListRequests
<1>5. CASE \E r \in DataRequests, f \in Versions : m = Reply(r, f)
  BY <1>3, <1>5 DEF DataRequests
<1> QED
  BY <1>1, <1>4, <1>5 DEF Messages

(* What is put in an inbox is a message.                                   *)
LEMMA MessagesMade ==
  /\ \A n \in Nodes : Event(n) \in Messages /\ ~IsReply(Event(n)) /\ Event(n).node = n
  /\ \A r \in ListRequests, f \in SUBSET Keys :
       Reply(r, f) \in Messages /\ IsReply(Reply(r, f)) /\ Reply(r, f).request = r /\ Reply(r, f).found = f
  /\ \A r \in DataRequests, f \in Versions :
       Reply(r, f) \in Messages /\ IsReply(Reply(r, f)) /\ Reply(r, f).request = r /\ Reply(r, f).found = f
<1>1. \A n \in Nodes : Event(n) \in Messages /\ ~IsReply(Event(n)) /\ Event(n).node = n
  BY DEF Messages, Events, Event, IsReply
<1>2. \A r, f : IsReply(Reply(r, f)) /\ Reply(r, f).request = r /\ Reply(r, f).found = f
  BY DEF IsReply, Reply
<1>3. \A r \in ListRequests, f \in SUBSET Keys : Reply(r, f) \in Messages
  BY DEF Messages
<1>4. \A r \in DataRequests, f \in Versions : Reply(r, f) \in Messages
  BY DEF Messages
<1> QED
  BY <1>1, <1>2, <1>3, <1>4

(* The nodes below a root are nodes, and none is a root.                   *)
LEMMA LeavesAre ==
  /\ \A n \in Leaves : n \in Nodes /\ n[1] \in Trees /\ n[2] \in Keys /\ n[2] # Root /\ n = <<n[1], n[2]>>
  /\ \A t \in Trees, k \in Keys : <<t, k>> \in Leaves
  /\ Initial \subseteq Leaves /\ Writable \subseteq Leaves /\ Alterable \subseteq Leaves
  /\ \A n \in Nodes : n[1] \in Trees /\ n[2] \in Keys \cup {Root} /\ n = <<n[1], n[2]>>
  BY KeysAssumption DEF Leaves, Nodes

(* TypeInv is what the model calls type correctness.                       *)
LEMMA TypesFollow == TypeInv => OdinTypeOK
<1> SUFFICES ASSUME TypeInv PROVE OdinTypeOK
  OBVIOUS
<1>1. ASSUME NEW c \in Clients, NEW i \in DOMAIN asked[c] PROVE asked[c][i] \in Requests
  <2>1. asked[c] \in Seq(Requests)
    BY DEF TypeInv
  <2> QED
    BY <2>1
<1>2. ASSUME NEW c \in Clients, NEW i \in DOMAIN inbox[c] PROVE inbox[c][i] \in Messages
  <2>1. inbox[c] \in Seq(Messages)
    BY DEF TypeInv
  <2> QED
    BY <2>1
<1>3. ASSUME NEW c \in Clients, NEW i \in DOMAIN inbox[c]
      PROVE  IF IsReply(inbox[c][i]) THEN inbox[c][i].request \in Requests ELSE inbox[c][i].node \in Nodes
  BY <1>2, MessageIs
<1> QED
  BY <1>1, <1>3 DEF TypeInv, OdinTypeOK, Versions, Loads, States
-----------------------------------------------------------------------------
(* The initial state is well typed.                                        *)
LEMMA TypeInit == OdinInit => TypeInv
<1> SUFFICES ASSUME OdinInit PROVE TypeInv
  OBVIOUS
<1> USE BoundsAssumption
<1>1. <<>> \in Seq(Requests) /\ <<>> \in Seq(Messages)
  OBVIOUS
<1>2. node \in [Nodes -> Versions]
  BY DEF OdinInit, Versions
<1>3. load \in [Clients -> Loads]
  BY DEF OdinInit, Load, Loads, States, Trees
<1>4. props \in [Keys -> [level: Levels, version: Versions]]
  BY DEF OdinInit, Versions, Levels
<1>5. current <= 1 + losses + MaxExpiries
  BY DEF OdinInit
<1>7. asked \in [Clients -> Seq(Requests)] /\ inbox \in [Clients -> Seq(Messages)]
  <2>1. asked = [c \in Clients |-> <<>>] /\ inbox = [c \in Clients |-> <<>>]
    BY DEF OdinInit
  <2> QED
    BY <1>1, <2>1
<1>8. /\ watches \in [Clients -> SUBSET Nodes] /\ lists \in [Clients -> SUBSET Trees]
      /\ status \in [Clients -> {"none", "connecting", "up", "down", "expired"}]
  BY DEF OdinInit
<1>9. \A k \in Keys : props[k].level = "local" <=> props[k].version = 0
  BY DEF OdinInit
<1>6. /\ current \in Clients /\ connected \in BOOLEAN
      /\ started \in {"no", "ready", "failed"}
  BY ClientsAre DEF OdinInit
<1>10. /\ writes \in 0..MaxWrites /\ alterations \in 0..MaxAltered /\ losses \in 0..MaxLosses
      /\ mishaps \subseteq Mishaps /\ altered \subseteq Keys
  BY DEF OdinInit
<1> QED
  BY <1>2, <1>3, <1>4, <1>5, <1>6, <1>7, <1>8, <1>9, <1>10 DEF TypeInv

(* What a change of n appends to the inbox of d: events only, among them n *)
(* where n is watched.                                                     *)
LEMMA FireDoes ==
  ASSUME TypeInv, NEW n \in Nodes, NEW trees \in SUBSET Trees, Fire(n, trees)
  PROVE  /\ inbox' \in [Clients -> Seq(Messages)]
         /\ watches' = [c \in Clients |-> watches[c] \ {n}]
         /\ lists' \in [Clients -> SUBSET Trees]
         /\ \A d \in Clients : \E told \in Seq(Events) :
              inbox'[d] = inbox[d] \o told /\ (n \in watches[d] => Event(n) \in Elems(told))
<1> DEFINE told(d) == (IF n \in watches[d] THEN <<Event(n)>> ELSE <<>>)
                        \o (IF n[1] \in lists[d] \cap trees THEN <<Event(<<n[1], Root>>)>> ELSE <<>>)
<1>1. Event(n) \in Events /\ Event(<<n[1], Root>>) \in Events
  BY LeavesAre DEF Events, Nodes
<1>2. ASSUME NEW d \in Clients
      PROVE  told(d) \in Seq(Events) /\ (n \in watches[d] => Event(n) \in Elems(told(d)))
  <2> DEFINE a == IF n \in watches[d] THEN <<Event(n)>> ELSE <<>>
             b == IF n[1] \in lists[d] \cap trees THEN <<Event(<<n[1], Root>>)>> ELSE <<>>
  <2>1. a \in Seq(Events) /\ b \in Seq(Events)
    BY <1>1
  <2>2. n \in watches[d] => a = <<Event(n)>> /\ 1 \in DOMAIN a /\ a[1] = Event(n)
    OBVIOUS
  <2>3. n \in watches[d] => Event(n) \in Elems(a)
    BY <2>2 DEF Elems
  <2>4. told(d) = a \o b
    OBVIOUS
  <2> HIDE DEF a, b, told
  <2> QED
    BY <2>1, <2>3, <2>4, ConcatDoes
<1>3. ASSUME NEW d \in Clients PROVE inbox'[d] = inbox[d] \o told(d)
  <2>1. inbox'[d] = inbox[d] \o (IF n \in watches[d] THEN <<Event(n)>> ELSE <<>>)
                      \o (IF n[1] \in lists[d] \cap trees THEN <<Event(<<n[1], Root>>)>> ELSE <<>>)
    BY DEF Fire
  <2> DEFINE a == IF n \in watches[d] THEN <<Event(n)>> ELSE <<>>
             b == IF n[1] \in lists[d] \cap trees THEN <<Event(<<n[1], Root>>)>> ELSE <<>>
  <2>2. a \in Seq(Events) /\ b \in Seq(Events)
    BY <1>1
  <2>3. inbox[d] \in Seq(Messages)
    BY DEF TypeInv
  <2>4. Events \subseteq Messages
    BY DEF Messages
  <2>5. a \in Seq(Messages) /\ b \in Seq(Messages)
    BY <2>2, <2>4, SeqOfMore
  <2>6. inbox'[d] = (inbox[d] \o a) \o b /\ told(d) = a \o b
    BY <2>1
  <2> HIDE DEF a, b, told
  <2>7. (inbox[d] \o a) \o b = inbox[d] \o (a \o b)
    <3> DEFINE i == inbox[d]
               S == Seq(Messages)
    <3>2. i \in S /\ a \in S /\ b \in S
      BY <2>3, <2>5
    <3>3. ASSUME NEW x \in S, NEW y \in S, NEW z \in S PROVE (x \o y) \o z = x \o (y \o z)
      OBVIOUS
    <3> HIDE DEF i, S
    <3>4. (i \o a) \o b = i \o (a \o b)
      BY <3>2, <3>3, Zenon
    <3> QED
      BY <3>4 DEF i
  <2> QED
    BY <2>6, <2>7
<1> HIDE DEF told
<1>4. ASSUME NEW d \in Clients PROVE inbox'[d] \in Seq(Messages)
  <2> DEFINE t == told(d)
  <2>1. inbox[d] \in Seq(Messages)
    BY DEF TypeInv
  <2>2. told(d) \in Seq(Messages)
    <3>1. Events \subseteq Messages
      BY DEF Messages
    <3> QED
      BY <1>2, <3>1, SeqOfMore
  <2>3. t \in Seq(Messages) /\ inbox'[d] = inbox[d] \o t
    BY <1>3, <2>2
  <2> HIDE DEF t
  <2> QED
    BY <2>1, <2>3, ConcatDoes
<1>5. inbox' = [c \in Clients |-> inbox'[c]]
  BY DEF Fire
<1>6. inbox' \in [Clients -> Seq(Messages)]
  BY <1>4, <1>5
<1>7. lists' \in [Clients -> SUBSET Trees]
  BY DEF Fire, TypeInv
<1> QED
  BY <1>2, <1>3, <1>6, <1>7 DEF Fire

(* A change of a node, seen from the clients: they are told of it where    *)
(* they watch it.  Its key is altered if the node appears or goes.         *)
LEMMA WriteDoes ==
  ASSUME TypeInv, NEW n \in Writable \cup Alterable, Write(n)
  PROVE  /\ n \in Leaves
         /\ inbox' \in [Clients -> Seq(Messages)]
         /\ watches' = [c \in Clients |-> watches[c] \ {n}]
         /\ lists' \in [Clients -> SUBSET Trees]
         /\ \A d \in Clients : \E told \in Seq(Events) :
              inbox'[d] = inbox[d] \o told /\ (n \in watches[d] => Event(n) \in Elems(told))
         /\ node' \in [Nodes -> Versions] /\ \A a \in Nodes : a # n => node'[a] = node[a]
         /\ altered \subseteq altered' /\ altered' \subseteq Keys
         /\ n[2] \notin altered' => node'[n] # 0 /\ node[n] # 0
         /\ writes' \in 0..MaxWrites /\ alterations' \in 0..MaxAltered
<1> USE BoundsAssumption
<1>1. n \in Leaves /\ n \in Nodes /\ n[1] \in Trees /\ n[2] \in Keys
  BY LeavesAre
<1>2. \E trees \in SUBSET Trees : Fire(n, trees)
  BY <1>1 DEF Write
<1>3. writes' \in 0..MaxWrites
  BY DEF Write, TypeInv
<1>4. PICK version \in {0, writes + 2} :
        /\ node' = [node EXCEPT ![n] = version]
        /\ \/ /\ node[n] # 0 /\ version # 0
              /\ UNCHANGED <<alterations, altered>>
           \/ /\ alterations < MaxAltered
              /\ alterations' = alterations + 1
              /\ altered' = altered \cup {n[2]}
  BY DEF Write
<1>5. version \in Versions
  BY <1>4 DEF Write, TypeInv, Versions
<1>6. node' \in [Nodes -> Versions] /\ node'[n] = version /\ \A a \in Nodes : a # n => node'[a] = node[a]
  BY <1>1, <1>4, <1>5 DEF TypeInv
<1>7. altered \subseteq altered' /\ altered' \subseteq Keys /\ alterations' \in 0..MaxAltered
  BY <1>1, <1>4 DEF TypeInv
<1>8. n[2] \notin altered' => node'[n] # 0 /\ node[n] # 0
  BY <1>4, <1>6
<1>9. /\ inbox' \in [Clients -> Seq(Messages)]
      /\ watches' = [c \in Clients |-> watches[c] \ {n}]
      /\ lists' \in [Clients -> SUBSET Trees]
      /\ \A d \in Clients : \E told \in Seq(Events) :
           inbox'[d] = inbox[d] \o told /\ (n \in watches[d] => Event(n) \in Elems(told))
  BY <1>1, <1>2, FireDoes
<1> QED
  BY <1>1, <1>3, <1>6, <1>7, <1>8, <1>9

(* A change of a node keeps the state well typed.                          *)
LEMMA WriteTypes ==
  ASSUME TypeInv, NEW n \in Writable \cup Alterable, Write(n)
  PROVE  TypeInv'
<1>1. watches' \in [Clients -> SUBSET Nodes]
  BY WriteDoes DEF TypeInv
<1>2. UNCHANGED <<status, asked, losses, current, connected, load, props, started, mishaps>>
  BY DEF Write, processVars
<1> QED
  BY <1>1, <1>2, WriteDoes DEF TypeInv
-----------------------------------------------------------------------------
(* The queues of a client, and those of all.                               *)
LEMMA QueuesAre ==
  ASSUME TypeInv, NEW c \in Clients
  PROVE  /\ asked[c] \in Seq(Requests) /\ inbox[c] \in Seq(Messages)
         /\ \A i \in DOMAIN asked[c] : asked[c][i] \in Requests
         /\ \A i \in DOMAIN inbox[c] : inbox[c][i] \in Messages
<1>1. asked[c] \in Seq(Requests) /\ inbox[c] \in Seq(Messages)
  BY DEF TypeInv
<1> QED
  BY <1>1

(* Serving a request turns it into its reply and watches what was read.    *)
LEMMA ServeDoes ==
  ASSUME TypeInv, NEW c \in Clients, Serve(c)
  PROVE  \E found :
    LET r == Head(asked[c]) IN
    /\ status[c] = "up" /\ asked[c] # <<>>
    /\ r \in Requests /\ Reply(r, found) \in Messages
    /\ asked' = [asked EXCEPT ![c] = Tail(asked[c])]
    /\ inbox' = [inbox EXCEPT ![c] = Append(inbox[c], Reply(r, found))]
    /\ r.kind = "list" => found = {k \in Keys : node[<<r.node[1], k>>] # 0}
    /\ r.kind = "data" => found = node[r.node] /\ (found # 0 => r.node \in watches'[c])
    /\ watches' \in [Clients -> SUBSET Nodes] /\ \A d \in Clients : watches[d] \subseteq watches'[d]
    /\ lists' \in [Clients -> SUBSET Trees]
    /\ UNCHANGED <<node, status, current, connected, load, props, started, writes, alterations, losses, mishaps, altered>>
<1> DEFINE r == Head(asked[c])
<1>1. status[c] = "up" /\ asked[c] # <<>> /\ asked' = [asked EXCEPT ![c] = Tail(asked[c])]
  BY DEF Serve, TypeInv
<1>2. r \in Requests
  BY <1>1, QueuesAre, TailDoes
<1>3. UNCHANGED <<node, status, current, connected, load, props, started, writes, alterations, losses, mishaps, altered>>
  BY DEF Serve, processVars
<1>4. CASE r.kind = "list"
  <2> DEFINE found == {k \in Keys : node[<<r.node[1], k>>] # 0}
  <2>1. /\ inbox' = [inbox EXCEPT ![c] = Append(inbox[c], Reply(r, found))]
        /\ lists' = [lists EXCEPT ![c] = lists[c] \cup {r.node[1]}]
        /\ UNCHANGED watches
    BY <1>4 DEF Serve, TypeInv
  <2>2. Reply(r, found) \in Messages
    BY <1>2, <1>4, MessagesMade DEF ListRequests
  <2>3. lists' \in [Clients -> SUBSET Trees]
    BY <1>2, <2>1, RequestIs DEF TypeInv
  <2> HIDE DEF found, r
  <2>4. r.kind = "list" => found = {k \in Keys : node[<<r.node[1], k>>] # 0}
    BY DEF found
  <2>5. watches' \in [Clients -> SUBSET Nodes] /\ \A d \in Clients : watches[d] \subseteq watches'[d]
    BY <2>1 DEF TypeInv
  <2> QED
    BY <1>1, <1>2, <1>3, <1>4, <2>1, <2>2, <2>3, <2>4, <2>5 DEF r
<1>5. CASE r.kind = "data"
  <2> DEFINE found == node[r.node]
  <2>1. /\ inbox' = [inbox EXCEPT ![c] = Append(inbox[c], Reply(r, found))]
        /\ watches' = [watches EXCEPT ![c] = IF found # 0 THEN watches[c] \cup {r.node} ELSE watches[c]]
        /\ UNCHANGED lists
    BY <1>5 DEF Serve, TypeInv
  <2>2. found \in Versions /\ r.node \in Nodes
    BY <1>2, RequestIs DEF TypeInv
  <2>3. Reply(r, found) \in Messages
    BY <1>2, <1>5, <2>2, MessagesMade DEF DataRequests
  <2>4. /\ watches' \in [Clients -> SUBSET Nodes] /\ \A d \in Clients : watches[d] \subseteq watches'[d]
        /\ found # 0 => r.node \in watches'[c]
    BY <2>1, <2>2 DEF TypeInv
  <2>5. lists' \in [Clients -> SUBSET Trees]
    BY <2>1 DEF TypeInv
  <2>6. found = node[r.node]
    OBVIOUS
  <2> HIDE DEF found, r
  <2> QED
    BY <1>1, <1>2, <1>3, <1>5, <2>1, <2>3, <2>4, <2>5, <2>6 DEF r
<1>6. r.kind = "list" \/ r.kind = "data"
  BY <1>2, RequestIs
<1> QED
  BY <1>4, <1>5, <1>6

(* Serving a request keeps the state well typed.                           *)
LEMMA ServeTypes ==
  ASSUME TypeInv, NEW c \in Clients, Serve(c)
  PROVE  TypeInv'
<1> DEFINE r == Head(asked[c])
<1>1. PICK found :
    /\ asked[c] # <<>>
    /\ r \in Requests /\ Reply(r, found) \in Messages
    /\ asked' = [asked EXCEPT ![c] = Tail(asked[c])]
    /\ inbox' = [inbox EXCEPT ![c] = Append(inbox[c], Reply(r, found))]
    /\ watches' \in [Clients -> SUBSET Nodes]
    /\ lists' \in [Clients -> SUBSET Trees]
    /\ UNCHANGED <<node, status, current, connected, load, props, started, writes, alterations, losses, mishaps, altered>>
  BY ServeDoes
<1>2. asked[c] \in Seq(Requests) /\ inbox[c] \in Seq(Messages)
  BY QueuesAre
<1>3. Tail(asked[c]) \in Seq(Requests)
  BY <1>1, <1>2, TailDoes
<1>4. Append(inbox[c], Reply(r, found)) \in Seq(Messages)
  BY <1>1, <1>2, AppendDoes
<1> HIDE DEF r
<1>5. asked' \in [Clients -> Seq(Requests)] /\ inbox' \in [Clients -> Seq(Messages)]
  BY <1>1, <1>3, <1>4 DEF TypeInv
<1> QED
  BY <1>1, <1>5 DEF TypeInv
-----------------------------------------------------------------------------
(* What is left for a load that is through with a leaf of tree, or with    *)
(* its list, and has these leaves of it before it.                         *)
Rest(n, tree, leaves) ==
  \/ n[1] = tree /\ n[2] \in leaves
  \/ tree = "base" /\ n[1] = "service"

(* The load that asked r reads n afterwards.                               *)
Later(r, n) ==
  \/ r.kind = "list" /\ n[1] = r.node[1]
  \/ r.node[1] = "base" /\ n[1] = "service"
  \/ r.kind = "data" /\ n[1] = r.node[1] /\ n[2] \in load[r.load].leaves

(* The next request r of a load: what is left is asked for or comes later. *)
Continues(l, tree, leaves, r) ==
  /\ r \in Requests /\ r.load = l
  /\ asked' = [asked EXCEPT ![current] = Append(asked[current], r)]
  /\ r.kind = "data" => load'[l].tree = r.node[1]
  /\ \A n \in Leaves : Rest(n, tree, leaves) => r.node = n \/ Later(r, n)'

(* How a load goes on.                                                     *)
LEMMA ProceedDoes ==
  ASSUME TypeInv, NEW l \in Clients, NEW tree \in Trees, NEW leaves \in SUBSET Keys,
         Proceed(l, tree, leaves)
  PROVE  /\ load' \in [Clients -> Loads] /\ \A d \in Clients : d # l => load'[d] = load[d]
         /\ \/ /\ connected /\ UNCHANGED <<started, mishaps>>
               /\ \E r : Continues(l, tree, leaves, r)
            \/ /\ asked' = asked /\ started' = (IF l = 1 THEN "ready" ELSE started)
               /\ \/ mishaps' = mishaps /\ \A n \in Leaves : ~Rest(n, tree, leaves)
                  \/ ~connected /\ mishaps' = IF l = 1 THEN mishaps \cup {"cut"} ELSE mishaps
<1> USE ClientsAre, LeavesAre
<1>1. ASSUME NEW k \in leaves, connected,
             load' = [load EXCEPT ![l] = Load("reading", tree, leaves \ {k})],
             Ask(DataOf(l, <<tree, k>>)), UNCHANGED <<started, mishaps>>
      PROVE  /\ load' \in [Clients -> Loads] /\ \A d \in Clients : d # l => load'[d] = load[d]
             /\ \E r : Continues(l, tree, leaves, r)
  <2> DEFINE r == DataOf(l, <<tree, k>>)
             n0 == <<tree, k>>
  <2>1. n0 \in Leaves /\ n0 \in Nodes /\ n0[1] = tree /\ n0[2] = k
    OBVIOUS
  <2>2. r \in Requests /\ r.load = l /\ r.kind = "data" /\ r.node = n0
    BY <2>1, RequestsMade
  <2>3. Load("reading", tree, leaves \ {k}) \in Loads
    BY DEF Load, Loads, States
  <2>4. /\ load' \in [Clients -> Loads] /\ \A d \in Clients : d # l => load'[d] = load[d]
        /\ load'[l].tree = tree /\ load'[l].leaves = leaves \ {k}
    BY <1>1, <2>3 DEF TypeInv, Load
  <2>5. asked' = [asked EXCEPT ![current] = Append(asked[current], r)]
    BY <1>1 DEF Ask, TypeInv
  <2> HIDE DEF r, n0
  <2>6. \A n \in Leaves : Rest(n, tree, leaves) => r.node = n \/ Later(r, n)'
    <3> SUFFICES ASSUME NEW n \in Leaves, Rest(n, tree, leaves), r.node # n
                 PROVE  Later(r, n)'
      OBVIOUS
    <3>1. CASE n[1] = tree /\ n[2] \in leaves
      <4>1. n[2] # k
        BY <2>2, <3>1 DEF n0
      <4> QED
        BY <2>1, <2>2, <2>4, <3>1, <4>1 DEF Later
    <3>2. CASE tree = "base" /\ n[1] = "service"
      BY <2>1, <2>2, <3>2 DEF Later
    <3> QED
      BY <3>1, <3>2 DEF Rest
  <2> QED
    BY <2>1, <2>2, <2>4, <2>5, <2>6 DEF Continues
<1>2. ASSUME connected, leaves = {}, tree = "base",
             load' = [load EXCEPT ![l] = Load("reading", "service", {})],
             Ask(ListOf(l, "service")), UNCHANGED <<started, mishaps>>
      PROVE  /\ load' \in [Clients -> Loads] /\ \A d \in Clients : d # l => load'[d] = load[d]
             /\ \E r : Continues(l, tree, leaves, r)
  <2> DEFINE r == ListOf(l, "service")
  <2>1. r \in Requests /\ r.load = l /\ r.kind = "list" /\ r.node = <<"service", Root>> /\ r.node[1] = "service"
    BY RequestsMade DEF Trees
  <2>2. Load("reading", "service", {}) \in Loads
    BY DEF Load, Loads, States, Trees
  <2>3. load' \in [Clients -> Loads] /\ \A d \in Clients : d # l => load'[d] = load[d]
    BY <1>2, <2>2 DEF TypeInv
  <2>4. asked' = [asked EXCEPT ![current] = Append(asked[current], r)]
    BY <1>2 DEF Ask, TypeInv
  <2> HIDE DEF r
  <2>5. \A n \in Leaves : Rest(n, tree, leaves) => Later(r, n)'
    BY <1>2, <2>1 DEF Rest, Later
  <2> QED
    BY <2>1, <2>3, <2>4, <2>5 DEF Continues
<1>3. ASSUME LoadEnds(l)
      PROVE  /\ load' \in [Clients -> Loads] /\ \A d \in Clients : d # l => load'[d] = load[d]
             /\ started' = (IF l = 1 THEN "ready" ELSE started)
  <2>1. load[l] \in Loads /\ load' = [load EXCEPT ![l] = [load[l] EXCEPT !.state = "done"]]
    BY <1>3 DEF LoadEnds, TypeInv
  <2>2. [load[l] EXCEPT !.state = "done"] \in Loads
    BY <2>1 DEF Loads, States
  <2>3. load' \in [Clients -> Loads] /\ \A d \in Clients : d # l => load'[d] = load[d]
    BY <2>1, <2>2 DEF TypeInv
  <2> QED
    BY <1>3, <2>3 DEF LoadEnds
<1>4. ASSUME leaves = {}, tree = "service" PROVE \A n \in Leaves : ~Rest(n, tree, leaves)
  BY <1>4 DEF Rest
<1>5. CASE connected /\ UNCHANGED <<started, mishaps>>
           /\ \E k \in leaves :
             /\ load' = [load EXCEPT ![l] = Load("reading", tree, leaves \ {k})]
             /\ Ask(DataOf(l, <<tree, k>>))
  BY <1>1, <1>5
<1>6. CASE /\ connected /\ UNCHANGED <<started, mishaps>>
           /\ leaves = {} /\ tree = "base"
           /\ load' = [load EXCEPT ![l] = Load("reading", "service", {})]
           /\ Ask(ListOf(l, "service"))
  BY <1>2, <1>6
<1>7. CASE leaves = {} /\ tree = "service" /\ LoadEnds(l) /\ UNCHANGED <<asked, mishaps>>
  BY <1>3, <1>4, <1>7
<1>8. CASE /\ ~connected /\ LoadEnds(l) /\ UNCHANGED asked
           /\ mishaps' = IF l = 1 THEN mishaps \cup {"cut"} ELSE mishaps
  BY <1>3, <1>8
<1> QED
  BY <1>5, <1>6, <1>7, <1>8 DEF Proceed

(* The properties have read n, in its tree or in the one that precedes.    *)
ReadOf(n) == Rank(props[n[2]].level) >= Rank(n[1])

(* The properties have the value of n, or that of a node which precedes.   *)
Fresh(n) ==
  \/ Rank(props[n[2]].level) > Rank(n[1])
  \/ props[n[2]] = [level |-> n[1], version |-> node[n]]

(* The ranks tell the levels apart.                                        *)
LEMMA RanksAre ==
  /\ Rank("local") = 0 /\ Rank("base") = 2 /\ Rank("service") = 3
  /\ \A l \in Levels : Rank(l) \in Nat
  /\ \A t \in Trees : t \in Levels /\ Rank(t) \in Nat
  /\ \A s, t \in Levels : Rank(s) = Rank(t) => s = t
<1>1. Rank("local") = 0 /\ Rank("base") = 2 /\ Rank("service") = 3
  BY DEF Rank
<1>2. \A l \in Levels : l = "local" \/ l = "base" \/ l = "service"
  BY DEF Levels
<1>3. \A t \in Trees : t = "base" \/ t = "service"
  BY DEF Trees
<1>4. \A l \in Levels : Rank(l) \in Nat
  BY <1>1, <1>2
<1>5. \A t \in Trees : t \in Levels /\ Rank(t) \in Nat
  BY <1>1, <1>3 DEF Levels
<1>6. ASSUME NEW s \in Levels, NEW t \in Levels, Rank(s) = Rank(t) PROVE s = t
  BY <1>1, <1>2, <1>6
<1> QED
  BY <1>1, <1>4, <1>5, <1>6

(* What a value of n0 does to the properties: it is read, nothing that was *)
(* read is lost, and what is fresh remains so unless it is replaced by an  *)
(* old value of its own.                                                   *)
LEMMA SetDoes ==
  ASSUME TypeInv, NEW n0 \in Nodes, NEW v \in Versions, v # 0, SetDynamicProps(n0, v), node' = node
  PROVE  /\ props' \in [Keys -> [level: Levels, version: Versions]]
         /\ \A k \in Keys : props'[k].level = "local" <=> props'[k].version = 0
         /\ \A k \in Keys : props'[k].level = props[k].level \/ (k = n0[2] /\ props'[k].level = n0[1])
         /\ \A n \in Leaves : ReadOf(n) \/ n = n0 => ReadOf(n)'
         /\ \A n \in Leaves : Fresh(n) /\ n # n0 => Fresh(n)'
         /\ \A n \in Leaves : n = n0 /\ v = node[n] => Fresh(n)'
<1> USE LeavesAre
<1>1. \A k \in Keys : props'[k] =
        IF k = n0[2] /\ Rank(props[k].level) <= Rank(n0[1])
        THEN [level |-> n0[1], version |-> v] ELSE props[k]
  BY DEF SetDynamicProps
<1>2. n0[1] \in Levels /\ n0[1] # "local" /\ n0[1] \in Trees
  BY DEF Trees, Levels
<1>3. props' \in [Keys -> [level: Levels, version: Versions]]
  BY <1>2 DEF SetDynamicProps, TypeInv
<1>4. ASSUME NEW k \in Keys PROVE props'[k].level = "local" <=> props'[k].version = 0
  <2>1. CASE props'[k] = props[k]
    BY <2>1 DEF TypeInv
  <2>2. CASE props'[k] = [level |-> n0[1], version |-> v]
    BY <1>2, <2>2
  <2> QED
    BY <1>1, <2>1, <2>2
<1>5. \A k \in Keys : props'[k].level = props[k].level \/ (k = n0[2] /\ props'[k].level = n0[1])
  BY <1>1
<1>6. ASSUME NEW n \in Leaves
      PROVE  /\ props[n[2]].level \in Levels /\ props'[n[2]].level \in Levels
             /\ Rank(props[n[2]].level) \in Nat /\ Rank(n[1]) \in Nat /\ Rank(n0[1]) \in Nat
             /\ Rank(props'[n[2]].level) \in Nat
             /\ Rank(props'[n[2]].level) >= Rank(props[n[2]].level)
             /\ n = n0 => Rank(props'[n[2]].level) >= Rank(n[1])
  <2>1. props[n[2]].level \in Levels /\ props'[n[2]].level \in Levels
    BY <1>3 DEF TypeInv
  <2>2. Rank(props[n[2]].level) \in Nat /\ Rank(n[1]) \in Nat /\ Rank(n0[1]) \in Nat /\ Rank(props'[n[2]].level) \in Nat
    BY <1>2, <2>1, RanksAre
  <2>3. CASE n[2] = n0[2] /\ Rank(props[n[2]].level) <= Rank(n0[1])
    <3>1. props'[n[2]].level = n0[1]
      BY <1>1, <2>3
    <3> QED
      BY <2>1, <2>2, <2>3, <3>1
  <2>4. CASE ~(n[2] = n0[2] /\ Rank(props[n[2]].level) <= Rank(n0[1]))
    <3>1. props'[n[2]] = props[n[2]]
      BY <1>1, <2>4
    <3> QED
      BY <2>1, <2>2, <2>4, <3>1
  <2> QED
    BY <2>3, <2>4
<1>7. \A n \in Leaves : ReadOf(n) \/ n = n0 => ReadOf(n)'
  BY <1>6 DEF ReadOf
<1>8. ASSUME NEW n \in Leaves, Fresh(n), n # n0 PROVE Fresh(n)'
  <2>1. CASE Rank(props[n[2]].level) > Rank(n[1])
    BY <1>6, <2>1 DEF Fresh
  <2>2. CASE props[n[2]] = [level |-> n[1], version |-> node[n]] /\ props'[n[2]] = props[n[2]]
    BY <2>2 DEF Fresh
  <2>3. CASE /\ props[n[2]] = [level |-> n[1], version |-> node[n]]
             /\ n[2] = n0[2] /\ Rank(props[n[2]].level) <= Rank(n0[1])
    <3>1. props'[n[2]].level = n0[1] /\ props[n[2]].level = n[1]
      BY <1>1, <2>3
    <3>2. n[1] # n0[1]
      BY <1>8, <2>3
    <3>3. Rank(n[1]) # Rank(n0[1])
      BY <3>2, <1>2, RanksAre
    <3>4. Rank(props'[n[2]].level) > Rank(n[1])
      BY <1>6, <2>3, <3>1, <3>3
    <3> QED
      BY <3>4 DEF Fresh
  <2> QED
    BY <1>1, <1>8, <2>1, <2>2, <2>3 DEF Fresh
<1>9. ASSUME NEW n \in Leaves, n = n0, v = node[n] PROVE Fresh(n)'
  <2>1. CASE Rank(props[n[2]].level) <= Rank(n0[1])
    <3>1. props'[n[2]] = [level |-> n[1], version |-> node'[n]]
      BY <1>1, <1>9, <2>1
    <3> QED
      BY <3>1 DEF Fresh
  <2>2. CASE Rank(props[n[2]].level) > Rank(n0[1])
    BY <1>1, <1>6, <1>9, <2>2 DEF Fresh
  <2> QED
    BY <1>6, <2>1, <2>2
<1> QED
  BY <1>3, <1>4, <1>5, <1>7, <1>8, <1>9
-----------------------------------------------------------------------------
(* Reads that fail abort their loads, which keep what they had left.       *)
LEMMA ReadsFailedDoes ==
  ASSUME TypeInv, NEW requests \in SUBSET Requests, ReadsFailed(requests)
  PROVE  /\ load' \in [Clients -> Loads]
         /\ \A d \in Clients : load'[d].tree = load[d].tree /\ load'[d].leaves = load[d].leaves
         /\ started' \in {started, "failed"}
         /\ mishaps \subseteq mishaps' /\ mishaps' \subseteq mishaps \cup {"aborted"}
         /\ (\E r \in requests : r.load # 0) => "aborted" \in mishaps'
<1> DEFINE stopped == {request.load : request \in requests} \ {0}
<1>1. /\ load' = [l \in Clients |-> IF l \in stopped THEN [load[l] EXCEPT !.state = "aborted"] ELSE load[l]]
      /\ started' \in {started, "failed"}
      /\ mishaps' = IF stopped # {} THEN mishaps \cup {"aborted"} ELSE mishaps
  BY DEF ReadsFailed
<1>2. (\E r \in requests : r.load # 0) => stopped # {}
  OBVIOUS
<1> HIDE DEF stopped
<1>3. ASSUME NEW d \in Clients
      PROVE  load'[d] \in Loads /\ load'[d].tree = load[d].tree /\ load'[d].leaves = load[d].leaves
  <2>1. load[d] \in Loads
    BY DEF TypeInv
  <2>2. CASE d \in stopped
    <3>1. load'[d] = [load[d] EXCEPT !.state = "aborted"]
      BY <1>1, <2>2
    <3> QED
      BY <2>1, <3>1 DEF Loads, States
  <2>3. CASE d \notin stopped
    BY <1>1, <2>1, <2>3
  <2> QED
    BY <2>2, <2>3
<1>4. load' \in [Clients -> Loads]
  BY <1>1, <1>3
<1> QED
  BY <1>1, <1>2, <1>3, <1>4

(* The ways a message m is delivered: an event, a list, a value to a load  *)
(* or to a watch, and a read that failed.                                  *)
Told(m) ==
  /\ ~IsReply(m)
  /\ \/ connected /\ asked' = [asked EXCEPT ![current] = Append(asked[current], DataOf(0, m.node))]
     \/ ~connected /\ asked' = asked
  /\ UNCHANGED <<load, props, started, mishaps>>
Listed(m) ==
  /\ IsReply(m) /\ m.request.kind = "list" /\ m.request.load \in Clients
  /\ Proceed(m.request.load, m.request.node[1], m.found)
  /\ UNCHANGED props
Read(m) ==
  /\ IsReply(m) /\ m.request.kind = "data" /\ m.request.load \in Clients /\ m.found # 0
  /\ SetDynamicProps(m.request.node, m.found)
  /\ Proceed(m.request.load, load[m.request.load].tree, load[m.request.load].leaves)
Reread(m) ==
  /\ IsReply(m) /\ m.request.kind = "data" /\ m.request.load = 0 /\ m.found # 0
  /\ SetDynamicProps(m.request.node, m.found)
  /\ UNCHANGED <<asked, load, started, mishaps>>
Missed(m) ==
  /\ IsReply(m) /\ m.request.kind = "data" /\ m.found = 0
  /\ ReadsFailed({m.request})
  /\ UNCHANGED <<asked, props>>

(* Delivering the first message of c.                                      *)
LEMMA DeliverDoes ==
  ASSUME TypeInv, NEW c \in Clients, Deliver(c)
  PROVE  LET m == Head(inbox[c]) IN
         /\ status[c] = "up" /\ inbox[c] # <<>> /\ m \in Messages
         /\ inbox' = [inbox EXCEPT ![c] = Tail(inbox[c])]
         /\ UNCHANGED <<node, watches, lists, writes, alterations, altered, status, losses, current, connected>>
         /\ Told(m) \/ Listed(m) \/ Read(m) \/ Reread(m) \/ Missed(m)
<1> DEFINE m == Head(inbox[c])
<1>1. /\ status[c] = "up" /\ inbox[c] # <<>>
      /\ inbox' = [inbox EXCEPT ![c] = Tail(inbox[c])]
      /\ UNCHANGED <<node, watches, lists, writes, alterations, altered, status, losses, current, connected>>
  BY DEF Deliver, zkVars, TypeInv
<1>2. m \in Messages
  BY <1>1, QueuesAre, TailDoes
<1>3. \/ IsReply(m) /\ DeliverReply(m.request, m.found)
      \/ ~IsReply(m) /\ DeliverEvent(m.node)
  BY DEF Deliver
<1> HIDE DEF m
<1>4. CASE ~IsReply(m)
  <2>1. DeliverEvent(m.node)
    BY <1>3, <1>4
  <2>2. connected => asked' = [asked EXCEPT ![current] = Append(asked[current], DataOf(0, m.node))]
    BY <2>1 DEF DeliverEvent, Ask, TypeInv
  <2>3. Told(m)
    BY <1>4, <2>1, <2>2 DEF DeliverEvent, Told
  <2> QED
    BY <1>1, <1>2, <2>3 DEF m
<1>5. CASE IsReply(m)
  <2> DEFINE r == m.request
  <2>1. DeliverReply(r, m.found) /\ r \in Requests
    BY <1>2, <1>3, <1>5, MessageIs
  <2>2. r.load \in {0} \cup Clients /\ (r.kind = "list" => r.load \in Clients)
    BY <2>1, RequestIs
  <2>3. CASE r.kind = "list"
    <3>1. Listed(m)
      BY <1>5, <2>1, <2>2, <2>3 DEF DeliverReply, Listed
    <3> QED
      BY <1>1, <1>2, <3>1 DEF m
  <2>4. CASE r.kind = "data" /\ m.found # 0
    <3>1. Read(m) \/ Reread(m)
      BY <1>5, <2>1, <2>2, <2>4 DEF DeliverReply, Read, Reread
    <3> QED
      BY <1>1, <1>2, <3>1 DEF m
  <2>5. CASE r.kind = "data" /\ m.found = 0
    <3>1. Missed(m)
      BY <1>5, <2>1, <2>2, <2>5 DEF DeliverReply, Missed
    <3> QED
      BY <1>1, <1>2, <3>1 DEF m
  <2>6. r.kind = "list" \/ r.kind = "data"
    BY <2>1, RequestIs
  <2> QED
    BY <2>3, <2>4, <2>5, <2>6
<1> QED
  BY <1>4, <1>5

(* Requests made of the current client stay requests.                      *)
LEMMA AskedTypes ==
  ASSUME TypeInv, NEW r \in Requests, asked' = [asked EXCEPT ![current] = Append(asked[current], r)]
  PROVE  asked' \in [Clients -> Seq(Requests)]
<1>1. current \in Clients
  BY DEF TypeInv
<1>2. asked[current] \in Seq(Requests)
  BY <1>1, QueuesAre
<1>3. Append(asked[current], r) \in Seq(Requests)
  BY <1>2, AppendDoes
<1> QED
  BY <1>1, <1>3 DEF TypeInv

(* Delivering a message keeps the state well typed.                        *)
LEMMA DeliverTypes ==
  ASSUME TypeInv, NEW c \in Clients, Deliver(c)
  PROVE  TypeInv'
<1> DEFINE m == Head(inbox[c])
<1>1. /\ inbox[c] # <<>> /\ m \in Messages
      /\ inbox' = [inbox EXCEPT ![c] = Tail(inbox[c])]
      /\ UNCHANGED <<node, watches, lists, writes, alterations, altered, status, losses, current, connected>>
      /\ Told(m) \/ Listed(m) \/ Read(m) \/ Reread(m) \/ Missed(m)
  BY DeliverDoes
<1>2. Tail(inbox[c]) \in Seq(Messages)
  BY <1>1, QueuesAre, TailDoes
<1>3. inbox' \in [Clients -> Seq(Messages)]
  BY <1>1, <1>2 DEF TypeInv
<1> HIDE DEF m
<1> DEFINE Rest1 == /\ asked' \in [Clients -> Seq(Requests)] /\ load' \in [Clients -> Loads]
                    /\ started' \in {"no", "ready", "failed"} /\ mishaps' \subseteq Mishaps
           Rest2 == /\ props' \in [Keys -> [level: Levels, version: Versions]]
                    /\ \A k \in Keys : props'[k].level = "local" <=> props'[k].version = 0
<1>4. IsReply(m) => m.request \in Requests /\ m.request.node \in Nodes /\ m.request.node[1] \in Trees
  BY <1>1, MessageIs, RequestIs
<1>5. UNCHANGED props => Rest2
  BY DEF TypeInv
<1>6. UNCHANGED <<asked, load, started, mishaps>> => Rest1
  BY DEF TypeInv
<1>7. ASSUME IsReply(m), m.request.kind = "data", m.found # 0, SetDynamicProps(m.request.node, m.found) PROVE Rest2
  <2>1. m.found \in Versions
    BY <1>1, <1>7, MessageIs
  <2> QED
    BY <1>1, <1>4, <1>7, <2>1, SetDoes
<1>8. ASSUME NEW l \in Clients, NEW tree \in Trees, NEW leaves \in SUBSET Keys, Proceed(l, tree, leaves) PROVE Rest1
  <2>1. /\ load' \in [Clients -> Loads]
        /\ \/ /\ UNCHANGED <<started, mishaps>>
              /\ \E r : Continues(l, tree, leaves, r)
           \/ /\ asked' = asked /\ started' = (IF l = 1 THEN "ready" ELSE started)
              /\ mishaps' = mishaps \/ mishaps' = IF l = 1 THEN mishaps \cup {"cut"} ELSE mishaps
    BY <1>8, ProceedDoes
  <2>2. CASE UNCHANGED <<started, mishaps>> /\ \E r : Continues(l, tree, leaves, r)
    <3>1. asked' \in [Clients -> Seq(Requests)]
      BY <2>2, AskedTypes DEF Continues
    <3> QED
      BY <2>1, <2>2, <3>1 DEF TypeInv
  <2>3. CASE /\ asked' = asked /\ started' = (IF l = 1 THEN "ready" ELSE started)
             /\ mishaps' = mishaps \/ mishaps' = IF l = 1 THEN mishaps \cup {"cut"} ELSE mishaps
    BY <2>1, <2>3 DEF TypeInv, Mishaps
  <2> QED
    BY <2>1, <2>2, <2>3
<1>9. CASE Told(m)
  <2>1. m.node \in Nodes
    BY <1>1, <1>9, MessageIs DEF Told
  <2>2. DataOf(0, m.node) \in Requests
    BY <2>1, RequestsMade
  <2>3. asked' \in [Clients -> Seq(Requests)]
    BY <1>9, <2>2, AskedTypes DEF Told, TypeInv
  <2>4. Rest1 /\ Rest2
    BY <1>9, <2>3 DEF Told, TypeInv
  <2> QED
    BY <1>1, <1>3, <2>4 DEF TypeInv
<1>10. CASE Listed(m)
  <2>1. m.found \in SUBSET Keys
    BY <1>1, <1>10, MessageIs DEF Listed
  <2>2. Rest1 /\ Rest2
    BY <1>4, <1>5, <1>8, <1>10, <2>1 DEF Listed
  <2> QED
    BY <1>1, <1>3, <2>2 DEF TypeInv
<1>11. CASE Read(m)
  <2>1. m.request.load \in Clients
    BY <1>11 DEF Read
  <2>2. load[m.request.load].tree \in Trees /\ load[m.request.load].leaves \in SUBSET Keys
    BY <2>1 DEF TypeInv, Loads
  <2>3. Rest1
    BY <1>8, <1>11, <2>1, <2>2 DEF Read
  <2>4. Rest2
    BY <1>7, <1>11 DEF Read
  <2> QED
    BY <1>1, <1>3, <2>3, <2>4 DEF TypeInv
<1>12. CASE Reread(m)
  <2>1. Rest1 /\ Rest2
    BY <1>6, <1>7, <1>12 DEF Reread
  <2> QED
    BY <1>1, <1>3, <2>1 DEF TypeInv
<1>13. CASE Missed(m)
  <2>1. {m.request} \in SUBSET Requests
    BY <1>4, <1>13 DEF Missed
  <2>2. /\ load' \in [Clients -> Loads]
        /\ started' \in {started, "failed"}
        /\ mishaps' \subseteq mishaps \cup {"aborted"}
    BY <1>13, <2>1, ReadsFailedDoes DEF Missed
  <2>3. Rest1 /\ Rest2
    BY <1>13, <2>2 DEF Missed, TypeInv, Mishaps
  <2> QED
    BY <1>1, <1>3, <2>3 DEF TypeInv
<1> QED
  BY <1>1, <1>9, <1>10, <1>11, <1>12, <1>13
-----------------------------------------------------------------------------
(* A client connects for the first time.                                   *)
LEMMA ConnectDoes ==
  ASSUME TypeInv, NEW c \in Clients, Connect(c)
  PROVE  /\ status[c] = "connecting" /\ status' = [status EXCEPT ![c] = "up"] /\ connected' = TRUE
         /\ load' \in [Clients -> Loads] /\ \A d \in Clients : d # c => load'[d] = load[d]
         /\ ListOf(c, "base") \in Requests
         /\ asked' = [asked EXCEPT ![current] = Append(asked[current], ListOf(c, "base"))]
         /\ UNCHANGED <<node, watches, lists, writes, alterations, altered, inbox, losses, current, props, started, mishaps>>
<1>1. Load("reading", "base", {}) \in Loads
  BY DEF Load, Loads, States, Trees
<1>2. load' \in [Clients -> Loads] /\ \A d \in Clients : d # c => load'[d] = load[d]
  BY <1>1 DEF Connect, TypeInv
<1>3. ListOf(c, "base") \in Requests
  BY RequestsMade DEF Trees
<1> QED
  BY <1>2, <1>3 DEF Connect, Ask, zkVars, TypeInv

(* A first connection keeps the state well typed.                          *)
LEMMA ConnectTypes ==
  ASSUME TypeInv, NEW c \in Clients, Connect(c)
  PROVE  TypeInv'
<1>1. asked' \in [Clients -> Seq(Requests)]
  BY ConnectDoes, AskedTypes
<1>2. status' \in [Clients -> {"none", "connecting", "up", "down", "expired"}] /\ connected' \in BOOLEAN
  BY ConnectDoes DEF TypeInv
<1> QED
  BY <1>1, <1>2, ConnectDoes DEF TypeInv

(* A connection is lost: the requests of replies on their way come before  *)
(* those not served yet, and what is left is events.                       *)
Again(replies) == [i \in DOMAIN replies |-> replies[i].request]
Lost(c, again, kept, place) ==
  /\ status[c] = "up" /\ losses < MaxLosses /\ losses' = losses + 1
  /\ Replace(c, "down")
  /\ Again(again) \in Seq(Requests)
  /\ asked' = [asked EXCEPT ![c] = Again(again) \o asked[c]]
  /\ inbox' = [inbox EXCEPT ![c] = kept]
  /\ DOMAIN again = 1..Len(again) /\ Len(again) \in Nat
  /\ place \in [DOMAIN again -> DOMAIN inbox[c]]
  /\ \A i, j \in DOMAIN again : place[i] = place[j] => i = j
  /\ \A i \in DOMAIN again : again[i] = inbox[c][place[i]] /\ IsReply(again[i])
  /\ \A m \in Elems(kept) : m \in Elems(inbox[c]) /\ ~IsReply(m)
  /\ UNCHANGED <<node, watches, lists, writes, alterations, altered, load, props, started, mishaps>>

(* What Disconnected does, with Picked for every length of the inbox.      *)
LEMMA DisconnectedDoes ==
  ASSUME TypeInv, NEW c \in Clients, Disconnected(c)
  PROVE  \E again \in Seq(Messages), kept \in Seq(Messages) : \E place : Lost(c, again, kept, place)
<1> DEFINE s == inbox[c]
           lost == {i \in DOMAIN s : IsReply(s[i])}
           others == DOMAIN s \ lost
           again == Picked(s, lost)
           kept == Picked(s, others)
<1>1. s \in Seq(Messages) /\ asked[c] \in Seq(Requests) /\ DOMAIN s = 1..Len(s) /\ Len(s) \in Nat
      /\ \A i \in DOMAIN s : s[i] \in Messages
  BY QueuesAre
<1>2. again \in Seq(Messages) /\ kept \in Seq(Messages)
  BY <1>1, PickedIs
<1>3. PICK place : MadeOf(again, s, lost, Len(s), place)
  BY <1>1, PickedIs
<1>4. PICK other : MadeOf(kept, s, others, Len(s), other)
  BY <1>1, PickedIs
<1>5. /\ status[c] = "up" /\ losses < MaxLosses /\ losses' = losses + 1
      /\ Replace(c, "down")
      /\ asked' = [asked EXCEPT ![c] = Again(again) \o asked[c]]
      /\ inbox' = [inbox EXCEPT ![c] = kept]
      /\ UNCHANGED <<node, watches, lists, writes, alterations, altered, load, props, started, mishaps>>
  BY DEF Disconnected, Again, zkVars, TypeInv
<1>6. \A i \in lost : i \in DOMAIN s /\ IsReply(s[i])
  OBVIOUS
<1>7. \A i \in others : i \in DOMAIN s /\ ~IsReply(s[i])
  OBVIOUS
<1> HIDE DEF lost, others, again, kept
<1>8. DOMAIN again = 1..Len(again) /\ Len(again) \in Nat /\ DOMAIN kept = 1..Len(kept)
  BY <1>2
<1>9. /\ place \in [DOMAIN again -> DOMAIN s]
      /\ \A i, j \in DOMAIN again : place[i] = place[j] => i = j
      /\ \A i \in DOMAIN again : again[i] = s[place[i]] /\ IsReply(again[i])
  BY <1>3, <1>6, <1>8 DEF MadeOf
<1>10. ASSUME NEW i \in DOMAIN kept PROVE kept[i] \in Elems(s) /\ ~IsReply(kept[i])
  <2>1. other[i] \in others /\ kept[i] = s[other[i]]
    BY <1>4, <1>8 DEF MadeOf
  <2> QED
    BY <1>7, <2>1 DEF Elems
<1>11. \A m \in Elems(kept) : m \in Elems(s) /\ ~IsReply(m)
  BY <1>10 DEF Elems
<1>12. ASSUME NEW i \in DOMAIN again PROVE again[i].request \in Requests
  BY <1>1, <1>9, MessageIs
<1>13. Again(again) \in Seq(Requests)
  BY <1>8, <1>12 DEF Again
<1>14. Lost(c, again, kept, place)
  BY <1>5, <1>8, <1>9, <1>11, <1>13 DEF Lost
<1> QED
  BY <1>2, <1>14

(* There is a client to replace one that is lost.                          *)
LEMMA ReplaceTypes ==
  ASSUME TypeInv, NEW c \in Clients, NEW lost \in {"down", "expired"}, Replace(c, lost),
         losses' \in 0..MaxLosses, current < 1 + losses' + MaxExpiries
  PROVE  /\ current' = current + 1 /\ current' \in Clients /\ current' <= 1 + losses' + MaxExpiries
         /\ connected' = FALSE
         /\ status' \in [Clients -> {"none", "connecting", "up", "down", "expired"}]
         /\ \A d \in Clients : status'[d] = IF d = current + 1 THEN "connecting" ELSE IF d = c THEN lost ELSE status[d]
<1> USE BoundsAssumption
<1>1. current' = current + 1 /\ connected' = FALSE
      /\ status' = [status EXCEPT ![c] = lost, ![current + 1] = "connecting"]
  BY DEF Replace
<1>2. current \in Nat /\ current >= 1
  BY ClientsAre DEF TypeInv, Clients
<1>6. losses' \in Nat /\ losses' <= MaxLosses /\ current < 1 + losses' + MaxExpiries
  OBVIOUS
<1>3. current + 1 \in Clients /\ current + 1 <= 1 + losses' + MaxExpiries
  <2> DEFINE p == losses'
  <2>1. p \in Nat /\ p <= MaxLosses /\ current < 1 + p + MaxExpiries
    BY <1>6
  <2> HIDE DEF p
  <2>2. current + 1 <= 1 + p + MaxExpiries /\ current + 1 <= 1 + MaxLosses + MaxExpiries /\ current + 1 \in Nat
    BY <1>2, <2>1
  <2>3. current + 1 \in Clients
    BY <1>2, <2>2, ClientsAre
  <2> QED
    BY <2>2, <2>3 DEF p
<1>4. status' \in [Clients -> {"none", "connecting", "up", "down", "expired"}]
  BY <1>1, <1>3 DEF TypeInv
<1>5. \A d \in Clients : status'[d] = IF d = current + 1 THEN "connecting" ELSE IF d = c THEN lost ELSE status[d]
  BY <1>1, <1>3 DEF TypeInv
<1> QED
  BY <1>1, <1>3, <1>4, <1>5

(* A lost connection keeps the state well typed.                           *)
LEMMA DisconnectedTypes ==
  ASSUME TypeInv, NEW c \in Clients, Disconnected(c)
  PROVE  TypeInv' /\ losses' \in 0..MaxLosses /\ current < 1 + losses' + MaxExpiries
<1> USE BoundsAssumption
<1>0. PICK again \in Seq(Messages), kept \in Seq(Messages) : \E place : Lost(c, again, kept, place)
  BY DisconnectedDoes
<1>1. PICK place : Lost(c, again, kept, place)
  BY <1>0
<1>10. /\ losses < MaxLosses /\ losses' = losses + 1
      /\ Replace(c, "down")
      /\ Again(again) \in Seq(Requests)
      /\ asked' = [asked EXCEPT ![c] = Again(again) \o asked[c]]
      /\ inbox' = [inbox EXCEPT ![c] = kept]
      /\ UNCHANGED <<node, watches, lists, writes, alterations, altered, load, props, started, mishaps>>
  BY <1>1 DEF Lost
<1>2. losses' \in 0..MaxLosses /\ current < 1 + losses' + MaxExpiries
  BY <1>10, ClientsAre DEF TypeInv
<1>3. /\ current' \in Clients /\ current' <= 1 + losses' + MaxExpiries /\ connected' = FALSE
      /\ status' \in [Clients -> {"none", "connecting", "up", "down", "expired"}]
  BY <1>10, <1>2, ReplaceTypes
<1>5. Again(again) \o asked[c] \in Seq(Requests)
  BY <1>10, QueuesAre, ConcatDoes
<1>6. asked' \in [Clients -> Seq(Requests)]
  BY <1>10, <1>5 DEF TypeInv
<1>7. inbox' \in [Clients -> Seq(Messages)]
  BY <1>10 DEF TypeInv
<1>8. /\ node' \in [Nodes -> Versions] /\ watches' \in [Clients -> SUBSET Nodes]
      /\ lists' \in [Clients -> SUBSET Trees] /\ load' \in [Clients -> Loads]
      /\ props' \in [Keys -> [level: Levels, version: Versions]]
      /\ \A k \in Keys : props'[k].level = "local" <=> props'[k].version = 0
      /\ started' \in {"no", "ready", "failed"}
      /\ writes' \in 0..MaxWrites /\ alterations' \in 0..MaxAltered
      /\ mishaps' \subseteq Mishaps /\ altered' \subseteq Keys
  BY <1>10 DEF TypeInv
<1>9. TypeInv'
  BY <1>2, <1>3, <1>6, <1>7, <1>8 DEF TypeInv
<1> QED
  BY <1>2, <1>9

(* A request is given up by a client that is not connected.                *)
LEMMA GiveUpDoes ==
  ASSUME TypeInv, NEW c \in Clients, GiveUp(c)
  PROVE  /\ status[c] = "down" /\ asked[c] # <<>>
         /\ asked' = [asked EXCEPT ![c] = Tail(asked[c])]
         /\ load' \in [Clients -> Loads]
         /\ \A d \in Clients : load'[d].tree = load[d].tree /\ load'[d].leaves = load[d].leaves
         /\ started' \in {started, "failed"}
         /\ mishaps \subseteq mishaps' /\ mishaps' \subseteq mishaps \cup {"aborted"}
         /\ UNCHANGED <<node, watches, lists, writes, alterations, altered, status, inbox, losses, current, connected, props>>
<1>1. /\ status[c] = "down" /\ asked[c] # <<>>
      /\ asked' = [asked EXCEPT ![c] = Tail(asked[c])]
      /\ ReadsFailed({Head(asked[c])})
      /\ UNCHANGED <<node, watches, lists, writes, alterations, altered, status, inbox, losses, current, connected, props>>
  BY DEF GiveUp, zkVars, TypeInv
<1>2. Head(asked[c]) \in Requests
  BY <1>1, QueuesAre, TailDoes
<1>3. {Head(asked[c])} \in SUBSET Requests
  BY <1>2
<1> QED
  BY <1>1, <1>3, ReadsFailedDoes

(* Giving up a request keeps the state well typed.                         *)
LEMMA GiveUpTypes ==
  ASSUME TypeInv, NEW c \in Clients, GiveUp(c)
  PROVE  TypeInv'
<1>1. asked[c] # <<>> /\ asked' = [asked EXCEPT ![c] = Tail(asked[c])]
  BY GiveUpDoes
<1>2. Tail(asked[c]) \in Seq(Requests)
  BY <1>1, QueuesAre, TailDoes
<1>3. asked' \in [Clients -> Seq(Requests)]
  BY <1>1, <1>2 DEF TypeInv
<1>4. started' \in {"no", "ready", "failed"} /\ mishaps' \subseteq Mishaps
  BY GiveUpDoes DEF TypeInv, Mishaps
<1> QED
  BY <1>3, <1>4, GiveUpDoes DEF TypeInv

(* A session expires.                                                      *)
LEMMA ExpiredDoes ==
  ASSUME TypeInv, NEW c \in Clients, Expired(c)
  PROVE  /\ status[c] = "down" /\ current < 1 + losses' + MaxExpiries /\ losses' = losses
         /\ Replace(c, "expired")
         /\ asked' = [asked EXCEPT ![c] = <<>>] /\ inbox' = [inbox EXCEPT ![c] = <<>>]
         /\ watches' \in [Clients -> SUBSET Nodes] /\ lists' \in [Clients -> SUBSET Trees]
         /\ \A d \in Clients : d # c => watches'[d] = watches[d]
         /\ load' \in [Clients -> Loads]
         /\ \A d \in Clients : load'[d].tree = load[d].tree /\ load'[d].leaves = load[d].leaves
         /\ started' \in {started, "failed"}
         /\ mishaps \subseteq mishaps' /\ mishaps' \subseteq mishaps \cup {"aborted"}
         /\ UNCHANGED <<node, writes, alterations, altered, props>>
<1>1. /\ status[c] = "down" /\ current < 1 + losses' + MaxExpiries /\ losses' = losses
      /\ Replace(c, "expired")
      /\ asked' = [asked EXCEPT ![c] = <<>>] /\ inbox' = [inbox EXCEPT ![c] = <<>>]
      /\ watches' \in [Clients -> SUBSET Nodes] /\ lists' \in [Clients -> SUBSET Trees]
      /\ \A d \in Clients : d # c => watches'[d] = watches[d]
      /\ UNCHANGED <<node, writes, alterations, altered, props>>
  BY DEF Expired, TypeInv
<1> DEFINE requests == {asked[c][i] : i \in DOMAIN asked[c]}
<1>2. requests \in SUBSET Requests
  BY QueuesAre
<1>3. ReadsFailed(requests)
  BY DEF Expired
<1> HIDE DEF requests
<1> QED
  BY <1>1, <1>2, <1>3, ReadsFailedDoes

(* An expired session keeps the state well typed.                          *)
LEMMA ExpiredTypes ==
  ASSUME TypeInv, NEW c \in Clients, Expired(c)
  PROVE  TypeInv' /\ losses' \in 0..MaxLosses
<1>1. losses' = losses /\ losses' \in 0..MaxLosses
  BY ExpiredDoes DEF TypeInv
<1>2. /\ current' \in Clients /\ current' <= 1 + losses' + MaxExpiries /\ connected' = FALSE
      /\ status' \in [Clients -> {"none", "connecting", "up", "down", "expired"}]
  BY <1>1, ExpiredDoes, ReplaceTypes
<1>3. <<>> \in Seq(Requests) /\ <<>> \in Seq(Messages)
  OBVIOUS
<1>7. asked' = [asked EXCEPT ![c] = <<>>] /\ inbox' = [inbox EXCEPT ![c] = <<>>]
  BY ExpiredDoes
<1>8. asked \in [Clients -> Seq(Requests)] /\ inbox \in [Clients -> Seq(Messages)]
  BY DEF TypeInv
<1>4. asked' \in [Clients -> Seq(Requests)] /\ inbox' \in [Clients -> Seq(Messages)]
  BY <1>3, <1>7, <1>8
<1>5. started' \in {"no", "ready", "failed"} /\ mishaps' \subseteq Mishaps
  BY ExpiredDoes DEF TypeInv, Mishaps
<1>9. /\ watches' \in [Clients -> SUBSET Nodes] /\ lists' \in [Clients -> SUBSET Trees]
      /\ load' \in [Clients -> Loads]
      /\ UNCHANGED <<node, writes, alterations, altered, props>>
  BY ExpiredDoes
<1>10. /\ node' \in [Nodes -> Versions]
      /\ props' \in [Keys -> [level: Levels, version: Versions]]
      /\ \A k \in Keys : props'[k].level = "local" <=> props'[k].version = 0
      /\ writes' \in 0..MaxWrites /\ alterations' \in 0..MaxAltered /\ altered' \subseteq Keys
  BY <1>9 DEF TypeInv
<1>6. TypeInv'
  BY <1>1, <1>2, <1>4, <1>5, <1>9, <1>10 DEF TypeInv
<1> QED
  BY <1>1, <1>6

(* Later connections of a session.                                         *)
LEMMA ReconnectTypes ==
  ASSUME TypeInv, NEW c \in Clients, Reconnect(c)
  PROVE  /\ TypeInv'
         /\ status[c] = "down" /\ status' = [status EXCEPT ![c] = "up"]
         /\ UNCHANGED <<node, watches, lists, writes, alterations, altered, asked, inbox, losses,
                        current, connected, load, props, started, mishaps>>
<1>1. /\ status[c] = "down" /\ status' = [status EXCEPT ![c] = "up"]
      /\ UNCHANGED <<node, watches, lists, writes, alterations, altered, asked, inbox, losses,
                     current, connected, load, props, started, mishaps>>
  BY DEF Reconnect, zkVars, processVars
<1> QED
  BY <1>1 DEF TypeInv

(* Every step keeps the types.                                             *)
LEMMA ConfigTypeStep == TypeInv /\ [OdinNext]_odinVars => TypeInv'
<1> SUFFICES ASSUME TypeInv, [OdinNext]_odinVars PROVE TypeInv'
  OBVIOUS
<1>1. CASE UNCHANGED odinVars
  BY <1>1 DEF odinVars, zkVars, netVars, processVars, TypeInv
<1> QED
  BY <1>1, WriteTypes, ServeTypes, DeliverTypes, ConnectTypes, ReconnectTypes, DisconnectedTypes,
     GiveUpTypes, ExpiredTypes
  DEF OdinNext, ClientStep

(* Types of Odin's configuration, for any keys and nodes.                  *)
THEOREM ConfigTypes == OdinSpec => []OdinTypeOK
  BY TypeInit, ConfigTypeStep, TypesFollow, PTL DEF OdinSpec
-----------------------------------------------------------------------------
(* Client d owes an answer to r: it is asked, or answered and not yet      *)
(* delivered.                                                              *)
Owes(d, r) ==
  \/ r \in Elems(asked[d])
  \/ \E m \in Elems(inbox[d]) : IsReply(m) /\ m.request = r

(* Nothing is owed that was not owed before.                               *)
Fewer == \A d \in Clients, r \in Requests : Owes(d, r)' => Owes(d, r)

(* What is owed are requests.                                              *)
LEMMA OwedAre ==
  ASSUME TypeInv, NEW d \in Clients, NEW r, Owes(d, r)
  PROVE  r \in Requests
<1>1. \A m \in Elems(inbox[d]) : m \in Messages
  BY QueuesAre DEF Elems
<1>2. \A q \in Elems(asked[d]) : q \in Requests
  BY QueuesAre DEF Elems
<1>3. CASE r \in Elems(asked[d])
  BY <1>2, <1>3
<1>4. ASSUME NEW m \in Elems(inbox[d]), IsReply(m), m.request = r PROVE r \in Requests
  BY <1>1, <1>4, MessageIs
<1> QED
  BY <1>3, <1>4 DEF Owes

(* A change of a node adds events to the inboxes.                          *)
LEMMA WriteAdds ==
  ASSUME TypeInv, NEW n \in Writable \cup Alterable, Write(n), NEW d \in Clients
  PROVE  /\ \A m \in Elems(inbox[d]) : m \in Elems(inbox'[d])
         /\ \A m \in Elems(inbox'[d]) : m \in Elems(inbox[d]) \/ ~IsReply(m)
         /\ n \in watches[d] => Event(n) \in Elems(inbox'[d])
         /\ asked' = asked
<1>1. PICK told \in Seq(Events) : inbox'[d] = inbox[d] \o told /\ (n \in watches[d] => Event(n) \in Elems(told))
  BY WriteDoes
<1>2. told \in Seq(Messages)
  <2>1. Events \subseteq Messages
    BY DEF Messages
  <2> QED
    BY <2>1, SeqOfMore
<1>3. Elems(inbox'[d]) = Elems(inbox[d]) \cup Elems(told)
  BY <1>1, <1>2, QueuesAre, ConcatDoes
<1>4. \A m \in Elems(told) : ~IsReply(m)
  <2>1. \A i \in DOMAIN told : told[i] \in Events
    OBVIOUS
  <2>2. \A e \in Events : ~IsReply(e)
    BY DEF Events, Event, IsReply
  <2> QED
    BY <2>1, <2>2 DEF Elems
<1>5. asked' = asked
  BY DEF Write
<1> QED
  BY <1>1, <1>3, <1>4, <1>5

(* A change of a node leaves what is owed.                                 *)
LEMMA WriteOwes ==
  ASSUME TypeInv, NEW n \in Writable \cup Alterable, Write(n)
  PROVE  /\ Fewer
         /\ \A d \in Clients, r \in Requests : Owes(d, r) => Owes(d, r)'
<1>1. ASSUME NEW d \in Clients, NEW r \in Requests PROVE Owes(d, r)' <=> Owes(d, r)
  BY WriteAdds DEF Owes
<1> QED
  BY <1>1 DEF Fewer

(* Serving a request moves it.                                             *)
LEMMA ServeMoves ==
  ASSUME TypeInv, NEW c \in Clients, Serve(c), NEW d \in Clients
  PROVE  LET r == Head(asked[c]) IN
         \E found :
           /\ r \in Requests /\ IsReply(Reply(r, found)) /\ Reply(r, found).request = r /\ Reply(r, found).found = found
           /\ Elems(inbox'[d]) = IF d = c THEN Elems(inbox[d]) \cup {Reply(r, found)} ELSE Elems(inbox[d])
           /\ d # c => Elems(asked'[d]) = Elems(asked[d])
           /\ d = c => Elems(asked[d]) = Elems(asked'[d]) \cup {r}
           /\ r.kind = "list" => found = {k \in Keys : node[<<r.node[1], k>>] # 0}
           /\ r.kind = "data" => found = node[r.node] /\ (found # 0 => r.node \in watches'[c])
<1> DEFINE r == Head(asked[c])
<1>1. PICK found :
    /\ asked[c] # <<>>
    /\ r \in Requests /\ Reply(r, found) \in Messages
    /\ asked' = [asked EXCEPT ![c] = Tail(asked[c])]
    /\ inbox' = [inbox EXCEPT ![c] = Append(inbox[c], Reply(r, found))]
    /\ r.kind = "list" => found = {k \in Keys : node[<<r.node[1], k>>] # 0}
    /\ r.kind = "data" => found = node[r.node] /\ (found # 0 => r.node \in watches'[c])
  BY ServeDoes
<1>2. asked \in [Clients -> Seq(Requests)] /\ inbox \in [Clients -> Seq(Messages)]
  BY DEF TypeInv
<1>3. Elems(asked[c]) = Elems(Tail(asked[c])) \cup {r}
  BY <1>1, <1>2, TailDoes
<1>4. Elems(Append(inbox[c], Reply(r, found))) = Elems(inbox[c]) \cup {Reply(r, found)}
  BY <1>1, <1>2, AppendDoes
<1>5. IsReply(Reply(r, found)) /\ Reply(r, found).request = r /\ Reply(r, found).found = found
  BY DEF Reply, IsReply
<1> DEFINE a == Tail(asked[c])
           b == Append(inbox[c], Reply(r, found))
<1>6. asked' = [asked EXCEPT ![c] = a] /\ inbox' = [inbox EXCEPT ![c] = b]
  BY <1>1
<1>7. Elems(asked[c]) = Elems(a) \cup {r} /\ Elems(b) = Elems(inbox[c]) \cup {Reply(r, found)}
  BY <1>3, <1>4
<1>8. d = c => asked'[d] = a /\ inbox'[d] = b
  <2> HIDE DEF a, b
  <2> QED
    BY <1>2, <1>6
<1>9. d # c => asked'[d] = asked[d] /\ inbox'[d] = inbox[d]
  BY <1>2, <1>6
<1> HIDE DEF a, b, r
<1>10. /\ Elems(inbox'[d]) = IF d = c THEN Elems(inbox[d]) \cup {Reply(r, found)} ELSE Elems(inbox[d])
       /\ d # c => Elems(asked'[d]) = Elems(asked[d])
       /\ d = c => Elems(asked[d]) = Elems(asked'[d]) \cup {r}
  BY <1>7, <1>8, <1>9
<1> QED
  BY <1>1, <1>5, <1>10 DEF r

(* Serving a request leaves what is owed: the reply is on its way.         *)
LEMMA ServeOwes ==
  ASSUME TypeInv, NEW c \in Clients, Serve(c)
  PROVE  /\ Fewer
         /\ \A d \in Clients, r \in Requests : Owes(d, r) => Owes(d, r)'
<1>1. ASSUME NEW d \in Clients, NEW q \in Requests PROVE Owes(d, q)' <=> Owes(d, q)
  <2> DEFINE r == Head(asked[c])
  <2>1. PICK found :
           /\ IsReply(Reply(r, found)) /\ Reply(r, found).request = r
           /\ Elems(inbox'[d]) = IF d = c THEN Elems(inbox[d]) \cup {Reply(r, found)} ELSE Elems(inbox[d])
           /\ d # c => Elems(asked'[d]) = Elems(asked[d])
           /\ d = c => Elems(asked[d]) = Elems(asked'[d]) \cup {r}
    BY ServeMoves
  <2> HIDE DEF r
  <2>2. CASE d = c
    <3> DEFINE e == Reply(r, found)
    <3>1. IsReply(e) /\ e.request = r /\ Elems(inbox'[d]) = Elems(inbox[d]) \cup {e}
          /\ Elems(asked[d]) = Elems(asked'[d]) \cup {r}
      BY <2>1, <2>2
    <3> HIDE DEF e
    <3> QED
      BY <3>1 DEF Owes
  <2>3. CASE d # c
    BY <2>1, <2>3 DEF Owes
  <2> QED
    BY <2>2, <2>3
<1> QED
  BY <1>1 DEF Fewer

(* A delivery asks for nothing, or makes one request: for a watch, or for  *)
(* the load whose reply is delivered.                                      *)
Asking(m) ==
  \/ asked' = asked
  \/ \E r \in Requests :
       /\ asked' = [asked EXCEPT ![current] = Append(asked[current], r)]
       /\ r.load = 0 \/ (IsReply(m) /\ r.load = m.request.load /\ r.load \in Clients)

(* A delivery makes at most one request, for whom the message was.         *)
LEMMA DeliverAsks ==
  ASSUME TypeInv, NEW c \in Clients, Deliver(c)
  PROVE  Asking(Head(inbox[c]))
<1> DEFINE m == Head(inbox[c])
<1>1. m \in Messages /\ (Told(m) \/ Listed(m) \/ Read(m) \/ Reread(m) \/ Missed(m))
  BY DeliverDoes
<1> HIDE DEF m
<1>2. ASSUME NEW l \in Clients, NEW tree \in Trees, NEW leaves \in SUBSET Keys, Proceed(l, tree, leaves),
             IsReply(m), m.request.load = l
      PROVE  Asking(m)
  <2>1. asked' = asked \/ \E r : Continues(l, tree, leaves, r)
    BY <1>2, ProceedDoes
  <2>2. ASSUME NEW r, Continues(l, tree, leaves, r) PROVE Asking(m)
    BY <1>2, <2>2 DEF Continues, Asking
  <2> QED
    BY <2>1, <2>2 DEF Asking
<1>3. ASSUME Told(m) PROVE Asking(m)
  <2>1. DataOf(0, m.node) \in Requests /\ DataOf(0, m.node).load = 0
    BY <1>1, <1>3, MessageIs, RequestsMade DEF Told
  <2> QED
    BY <1>3, <2>1 DEF Told, Asking
<1>4. ASSUME Listed(m) PROVE Asking(m)
  <2>1. m.request.node[1] \in Trees /\ m.found \in SUBSET Keys
    BY <1>1, <1>4, MessageIs, RequestIs DEF Listed
  <2> QED
    BY <1>2, <1>4, <2>1 DEF Listed, Asking
<1>5. ASSUME Read(m) PROVE Asking(m)
  <2>1. load[m.request.load].tree \in Trees /\ load[m.request.load].leaves \in SUBSET Keys
    BY <1>5 DEF Read, TypeInv, Loads
  <2> QED
    BY <1>2, <1>5, <2>1 DEF Read, Asking
<1>6. ASSUME Reread(m) \/ Missed(m) PROVE Asking(m)
  BY <1>6 DEF Reread, Missed, Asking, Told
<1>7. Asking(m)
  BY <1>1, <1>3, <1>4, <1>5, <1>6
<1> QED
  BY <1>7 DEF m

(* Delivering a message takes it away.                                     *)
LEMMA DeliverTakes ==
  ASSUME TypeInv, NEW c \in Clients, Deliver(c), NEW d \in Clients
  PROVE  /\ d # c => Elems(inbox'[d]) = Elems(inbox[d])
         /\ d = c => Elems(inbox[d]) = Elems(inbox'[d]) \cup {Head(inbox[c])}
<1> DEFINE m == Head(inbox[c])
           a == Tail(inbox[c])
<1>1. inbox[c] # <<>> /\ inbox' = [inbox EXCEPT ![c] = a]
  BY DeliverDoes
<1>2. inbox \in [Clients -> Seq(Messages)]
  BY DEF TypeInv
<1>3. Elems(inbox[c]) = Elems(a) \cup {m}
  BY <1>1, <1>2, TailDoes
<1> HIDE DEF m, a
<1>4. (d = c => inbox'[d] = a) /\ (d # c => inbox'[d] = inbox[d])
  BY <1>1, <1>2
<1> QED
  BY <1>3, <1>4 DEF m

(* A request r that is made is owed by the current client.                 *)
LEMMA AskAdds ==
  ASSUME TypeInv, NEW r \in Requests,
         asked' = [asked EXCEPT ![current] = Append(asked[current], r)], NEW d \in Clients
  PROVE  /\ d # current => Elems(asked'[d]) = Elems(asked[d])
         /\ d = current => Elems(asked'[d]) = Elems(asked[d]) \cup {r}
<1> DEFINE a == Append(asked[current], r)
<1>1. current \in Clients /\ asked \in [Clients -> Seq(Requests)]
  BY DEF TypeInv
<1>2. Elems(a) = Elems(asked[current]) \cup {r}
  BY <1>1, AppendDoes
<1>3. asked' = [asked EXCEPT ![current] = a]
  OBVIOUS
<1> HIDE DEF a
<1>4. (d = current => asked'[d] = a) /\ (d # current => asked'[d] = asked[d])
  BY <1>1, <1>3
<1> QED
  BY <1>2, <1>4

(* After a delivery with nothing asked, or with r asked.                   *)
LEMMA DeliverOwes ==
  ASSUME TypeInv, NEW c \in Clients, Deliver(c)
  PROVE  /\ asked' = asked => Fewer
         /\ \A r \in Requests : asked' = [asked EXCEPT ![current] = Append(asked[current], r)] =>
              /\ \A d \in Clients, q \in Requests : Owes(d, q)' => Owes(d, q) \/ (d = current /\ q = r)
              /\ Owes(current, r)' /\ r \in Elems(asked'[current])
         /\ \A d \in Clients, q \in Requests : Owes(d, q) =>
              \/ Owes(d, q)'
              \/ d = c /\ IsReply(Head(inbox[c])) /\ q = Head(inbox[c]).request
<1> DEFINE m == Head(inbox[c])
<1>1. ASSUME NEW d \in Clients
      PROVE  /\ \A e \in Elems(inbox'[d]) : e \in Elems(inbox[d])
             /\ \A e \in Elems(inbox[d]) : e \in Elems(inbox'[d]) \/ (d = c /\ e = m)
  BY DeliverTakes
<1>2. asked' = asked => Fewer
  BY <1>1 DEF Fewer, Owes
<1>3. current \in Clients
  BY DEF TypeInv
<1>4. ASSUME NEW r \in Requests, asked' = [asked EXCEPT ![current] = Append(asked[current], r)]
      PROVE  /\ \A d \in Clients, q \in Requests : Owes(d, q)' => Owes(d, q) \/ (d = current /\ q = r)
             /\ Owes(current, r)' /\ r \in Elems(asked'[current])
             /\ \A d \in Clients, q \in Requests : Owes(d, q) => Owes(d, q)' \/ (d = c /\ IsReply(m) /\ q = m.request)
  <2>1. ASSUME NEW d \in Clients
        PROVE  /\ \A q \in Elems(asked'[d]) : q \in Elems(asked[d]) \/ (d = current /\ q = r)
               /\ \A q \in Elems(asked[d]) : q \in Elems(asked'[d])
               /\ d = current => r \in Elems(asked'[d])
    BY <1>4, AskAdds
  <2> HIDE DEF m
  <2>2. ASSUME NEW d \in Clients, NEW q \in Requests, Owes(d, q)' PROVE Owes(d, q) \/ (d = current /\ q = r)
    <3>1. q \in Elems(asked'[d]) \/ \E e \in Elems(inbox'[d]) : IsReply(e) /\ e.request = q
      BY <2>2 DEF Owes
    <3> QED
      BY <1>1, <2>1, <3>1 DEF Owes
  <2>5. current' = current
    BY DeliverDoes
  <2>3. Owes(current, r)' /\ r \in Elems(asked'[current])
    BY <1>3, <2>1, <2>5 DEF Owes
  <2>4. ASSUME NEW d \in Clients, NEW q \in Requests, Owes(d, q)
        PROVE  Owes(d, q)' \/ (d = c /\ IsReply(m) /\ q = m.request)
    <3>1. q \in Elems(asked[d]) \/ \E e \in Elems(inbox[d]) : IsReply(e) /\ e.request = q
      BY <2>4 DEF Owes
    <3> QED
      BY <1>1, <2>1, <3>1 DEF Owes
  <2> QED
    BY <2>2, <2>3, <2>4
<1>5. asked' = asked \/ \E r \in Requests : asked' = [asked EXCEPT ![current] = Append(asked[current], r)]
  BY DeliverAsks DEF Asking
<1>6. asked' = asked =>
        \A d \in Clients, q \in Requests : Owes(d, q) => Owes(d, q)' \/ (d = c /\ IsReply(m) /\ q = m.request)
  <2> HIDE DEF m
  <2> QED
    BY <1>1 DEF Owes
<1>7. \A d \in Clients, q \in Requests : Owes(d, q) => Owes(d, q)' \/ (d = c /\ IsReply(m) /\ q = m.request)
  <2> HIDE DEF m
  <2> QED
    BY <1>4, <1>5, <1>6
<1>8. \A r \in Requests : asked' = [asked EXCEPT ![current] = Append(asked[current], r)] =>
              /\ \A d \in Clients, q \in Requests : Owes(d, q)' => Owes(d, q) \/ (d = current /\ q = r)
              /\ Owes(current, r)' /\ r \in Elems(asked'[current])
  BY <1>4
<1> QED
  BY <1>2, <1>7, <1>8

(* A client that connects asks for the root of the shared tree.            *)
LEMMA ConnectOwes ==
  ASSUME TypeInv, NEW c \in Clients, Connect(c)
  PROVE  /\ \A d \in Clients, q \in Requests : Owes(d, q)' => Owes(d, q) \/ (d = current /\ q = ListOf(c, "base"))
         /\ Owes(current, ListOf(c, "base"))'
         /\ \A d \in Clients, q \in Requests : Owes(d, q) => Owes(d, q)'
         /\ \A d \in Clients : \A q \in Elems(asked[d]) : q \in Elems(asked'[d])
<1> DEFINE r == ListOf(c, "base")
<1>1. r \in Requests /\ inbox' = inbox /\ asked' = [asked EXCEPT ![current] = Append(asked[current], r)]
  BY ConnectDoes
<1>2. current \in Clients
  BY DEF TypeInv
<1> HIDE DEF r
<1>3. ASSUME NEW d \in Clients
      PROVE  /\ \A q \in Elems(asked'[d]) : q \in Elems(asked[d]) \/ (d = current /\ q = r)
             /\ \A q \in Elems(asked[d]) : q \in Elems(asked'[d])
             /\ d = current => r \in Elems(asked'[d])
  BY <1>1, AskAdds
<1>4. ASSUME NEW d \in Clients, NEW q \in Requests
      PROVE  /\ Owes(d, q)' => Owes(d, q) \/ (d = current /\ q = r)
             /\ Owes(d, q) => Owes(d, q)'
  BY <1>1, <1>3 DEF Owes
<1>6. current = current' /\ r \in Elems(asked'[current])
  BY <1>2, <1>3, ConnectDoes
<1>7. Owes(current, r)'
  BY <1>6 DEF Owes
<1>5. \A d \in Clients : \A q \in Elems(asked[d]) : q \in Elems(asked'[d])
  BY <1>3
<1> QED
  BY <1>4, <1>5, <1>7 DEF r

(* A client that is lost owes nothing new.                                 *)
LEMMA DisconnectedOwes ==
  ASSUME TypeInv, NEW c \in Clients, Disconnected(c)
  PROVE  Fewer
<1>0. PICK again \in Seq(Messages), kept \in Seq(Messages) : \E place : Lost(c, again, kept, place)
  BY DisconnectedDoes
<1>1. PICK place : Lost(c, again, kept, place)
  BY <1>0
<1> DEFINE requests == Again(again)
           a == requests \o asked[c]
<1>2. /\ requests \in Seq(Requests) /\ asked' = [asked EXCEPT ![c] = a] /\ inbox' = [inbox EXCEPT ![c] = kept]
      /\ \A e \in Elems(kept) : e \in Elems(inbox[c]) /\ ~IsReply(e)
  BY <1>1 DEF Lost
<1>3. \A q \in Elems(requests) : \E e \in Elems(inbox[c]) : IsReply(e) /\ e.request = q
  <2>1. ASSUME NEW i \in DOMAIN again
        PROVE again[i] \in Elems(inbox[c]) /\ IsReply(again[i]) /\ again[i].request = requests[i]
    BY <1>1 DEF Lost, Again, Elems
  <2>2. DOMAIN requests = DOMAIN again
    BY DEF Again
  <2> QED
    BY <2>1, <2>2 DEF Elems
<1> HIDE DEF requests
<1>4. asked \in [Clients -> Seq(Requests)] /\ inbox \in [Clients -> Seq(Messages)]
  BY DEF TypeInv
<1>5. Elems(a) = Elems(requests) \cup Elems(asked[c])
  BY <1>2, <1>4, ConcatDoes
<1> HIDE DEF a
<1>6. ASSUME NEW d \in Clients, NEW q \in Requests, Owes(d, q)' PROVE Owes(d, q)
  <2>1. CASE d = c
    <3>1. asked'[d] = a /\ inbox'[d] = kept
      BY <1>2, <1>4, <2>1
    <3> QED
      BY <1>2, <1>3, <1>5, <1>6, <2>1, <3>1 DEF Owes
  <2>2. CASE d # c
    <3>1. asked'[d] = asked[d] /\ inbox'[d] = inbox[d]
      BY <1>2, <1>4, <2>2
    <3> QED
      BY <1>6, <3>1 DEF Owes
  <2> QED
    BY <2>1, <2>2
<1> QED
  BY <1>6 DEF Fewer

(* Giving up a request adds none.                                          *)
LEMMA GiveUpOwes ==
  ASSUME TypeInv, NEW c \in Clients, GiveUp(c)
  PROVE  Fewer
<1> DEFINE a == Tail(asked[c])
<1>1. asked[c] # <<>> /\ asked' = [asked EXCEPT ![c] = a] /\ inbox' = inbox
  BY GiveUpDoes
<1>2. asked \in [Clients -> Seq(Requests)]
  BY DEF TypeInv
<1>3. Elems(asked[c]) = Elems(a) \cup {Head(asked[c])}
  BY <1>1, <1>2, TailDoes
<1> HIDE DEF a
<1>4. ASSUME NEW d \in Clients, NEW q \in Requests, Owes(d, q)' PROVE Owes(d, q)
  <2>1. CASE d = c
    <3>1. asked'[d] = a /\ inbox'[d] = inbox[d]
      BY <1>1, <1>2, <2>1
    <3> QED
      BY <1>3, <1>4, <2>1, <3>1 DEF Owes
  <2>2. CASE d # c
    <3>1. asked'[d] = asked[d] /\ inbox'[d] = inbox[d]
      BY <1>1, <1>2, <2>2
    <3> QED
      BY <1>4, <3>1 DEF Owes
  <2> QED
    BY <2>1, <2>2
<1> QED
  BY <1>4 DEF Fewer

(* An expired session adds no request.                                     *)
LEMMA ExpiredOwes ==
  ASSUME TypeInv, NEW c \in Clients, Expired(c)
  PROVE  Fewer
<1>1. asked' = [asked EXCEPT ![c] = <<>>] /\ inbox' = [inbox EXCEPT ![c] = <<>>]
  BY ExpiredDoes
<1>2. asked \in [Clients -> Seq(Requests)] /\ inbox \in [Clients -> Seq(Messages)]
  BY DEF TypeInv
<1>3. ASSUME NEW d \in Clients, NEW q \in Requests, Owes(d, q)' PROVE Owes(d, q)
  <2>1. CASE d = c
    <3>1. asked'[d] = <<>> /\ inbox'[d] = <<>>
      BY <1>1, <1>2, <2>1
    <3> QED
      BY <1>3, <3>1 DEF Owes, Elems
  <2>2. CASE d # c
    <3>1. asked'[d] = asked[d] /\ inbox'[d] = inbox[d]
      BY <1>1, <1>2, <2>2
    <3> QED
      BY <1>3, <3>1 DEF Owes
  <2> QED
    BY <2>1, <2>2
<1> QED
  BY <1>3 DEF Fewer
-----------------------------------------------------------------------------
(* The newest client is being connected, or is up and then zkConnected     *)
(* says so; there are no later ones.                                       *)
StatusInv ==
  /\ status[current] \in {"connecting", "up"}
  /\ status[current] = "up" => connected
  /\ \A c \in Clients : c > current => status[c] = "none"

(* At first one client is being connected.                                 *)
LEMMA StatusInit == OdinInit => StatusInv
  BY ClientsAre DEF OdinInit, StatusInv, Clients

(* A client that is not connected, or not yet, is not the newest one that  *)
(* is up; and every client that was ever used is not later than it.        *)
LEMMA UsedAre ==
  ASSUME TypeInv, StatusInv, NEW c \in Clients, status[c] # "none"
  PROVE  c <= current /\ (status[c] \in {"down", "expired"} => c # current)
<1>1. c \in Nat /\ current \in Nat
  BY ClientsAre DEF TypeInv
<1> QED
  BY <1>1 DEF StatusInv

(* What happens to the status of clients when one is replaced.             *)
LEMMA ReplaceStatus ==
  ASSUME TypeInv, StatusInv, NEW c \in Clients, NEW lost \in {"down", "expired"}, Replace(c, lost),
         losses' \in 0..MaxLosses, current < 1 + losses' + MaxExpiries, status[c] # "none"
  PROVE  /\ StatusInv' /\ status'[current'] = "connecting"
         /\ \A l \in Clients : status[l] \notin {"none", "connecting"} => status'[l] \notin {"none", "connecting"}
<1>1. /\ current' = current + 1 /\ current' \in Clients
      /\ \A d \in Clients : status'[d] = IF d = current + 1 THEN "connecting" ELSE IF d = c THEN lost ELSE status[d]
  BY ReplaceTypes
<1>2. current \in Nat /\ c \in Nat /\ c <= current /\ \A l \in Clients : l \in Nat
  BY ClientsAre, UsedAre DEF TypeInv
<1>3. status'[current'] = "connecting"
  BY <1>1
<1>4. ASSUME NEW d \in Clients, d > current' PROVE status'[d] = "none"
  BY <1>1, <1>2, <1>4 DEF StatusInv
<1>5. ASSUME NEW l \in Clients, status[l] \notin {"none", "connecting"} PROVE status'[l] \notin {"none", "connecting"}
  <2>1. l # current + 1
    BY <1>1, <1>2, <1>5 DEF StatusInv
  <2> QED
    BY <1>1, <1>5, <2>1
<1> QED
  BY <1>3, <1>4, <1>5 DEF StatusInv

(* Who is connected or lost stays so.                                      *)
LEMMA StatusStep ==
  ASSUME TypeInv, StatusInv, [OdinNext]_odinVars
  PROVE  /\ StatusInv'
         /\ \A l \in Clients : status[l] \notin {"none", "connecting"} => status'[l] \notin {"none", "connecting"}
<1>1. CASE UNCHANGED <<status, current, connected>>
  BY <1>1 DEF StatusInv
<1>2. UNCHANGED odinVars => UNCHANGED <<status, current, connected>>
  BY DEF odinVars, netVars, processVars
<1>3. ASSUME NEW n \in Writable \cup Alterable, Write(n) PROVE UNCHANGED <<status, current, connected>>
  BY <1>3 DEF Write, processVars
<1>4. ASSUME NEW c \in Clients, Serve(c) \/ Deliver(c) \/ GiveUp(c) PROVE UNCHANGED <<status, current, connected>>
  BY <1>4, DeliverDoes, GiveUpDoes DEF Serve, processVars
<1>5. ASSUME NEW c \in Clients, Connect(c) \/ Reconnect(c)
      PROVE  /\ StatusInv'
             /\ \A l \in Clients : status[l] \notin {"none", "connecting"} => status'[l] \notin {"none", "connecting"}
  <2>1. status[c] \in {"connecting", "down"} /\ status' = [status EXCEPT ![c] = "up"] /\ current' = current
        /\ \/ connected' = TRUE
           \/ status[c] = "down" /\ connected' = connected
    BY <1>5, ConnectDoes, ReconnectTypes
  <2>2. c <= current /\ (status[c] = "down" => c # current) /\ current \in Clients
    BY <2>1, UsedAre DEF TypeInv
  <2>3. \A l \in Clients : status'[l] = IF l = c THEN "up" ELSE status[l]
    BY <2>1 DEF TypeInv
  <2>4. \A l \in Clients : l \in Nat
    BY ClientsAre
  <2> QED
    BY <2>1, <2>2, <2>3, <2>4 DEF StatusInv
<1>6. ASSUME NEW c \in Clients, Disconnected(c) \/ Expired(c)
      PROVE  /\ StatusInv'
             /\ \A l \in Clients : status[l] \notin {"none", "connecting"} => status'[l] \notin {"none", "connecting"}
  <2>1. CASE Disconnected(c)
    <3>1. status[c] = "up" /\ Replace(c, "down") /\ losses' \in 0..MaxLosses /\ current < 1 + losses' + MaxExpiries
      BY <2>1, DisconnectedTypes DEF Disconnected
    <3> QED
      BY <3>1, ReplaceStatus
  <2>2. CASE Expired(c)
    <3>1. status[c] = "down" /\ Replace(c, "expired") /\ losses' \in 0..MaxLosses /\ current < 1 + losses' + MaxExpiries
      BY <2>2, ExpiredDoes, ExpiredTypes
    <3> QED
      BY <3>1, ReplaceStatus
  <2> QED
    BY <1>6, <2>1, <2>2
<1>7. CASE UNCHANGED odinVars
  BY <1>1, <1>2, <1>7
<1> QED
  BY <1>1, <1>3, <1>4, <1>5, <1>6, <1>7 DEF OdinNext, ClientStep
-----------------------------------------------------------------------------
(* A request is made for a watch, or for the load of a client that has     *)
(* connected and is not later than the one that owes an answer.            *)
Origin(d, r) ==
  /\ r.load <= d
  /\ r.load # 0 => status[r.load] \notin {"none", "connecting"}
OriginInv == \A d \in Clients, r \in Requests : Owes(d, r) => Origin(d, r)

(* At first nothing is owed.                                               *)
LEMMA NothingOwed == OdinInit => \A d \in Clients : \A r : ~Owes(d, r)
<1> SUFFICES ASSUME OdinInit, NEW d \in Clients, NEW r PROVE ~Owes(d, r)
  OBVIOUS
<1>1. asked[d] = <<>> /\ inbox[d] = <<>>
  BY DEF OdinInit
<1> QED
  BY <1>1 DEF Owes, Elems

(* Every step keeps OriginInv.                                             *)
LEMMA OriginStep ==
  ASSUME TypeInv, StatusInv, OriginInv, [OdinNext]_odinVars
  PROVE  OriginInv'
<1>1. \A d \in Clients, r \in Requests : Origin(d, r) => Origin(d, r)'
  <2>1. \A r \in Requests : r.load # 0 => r.load \in Clients
    BY RequestIs
  <2> QED
    BY <2>1, StatusStep DEF Origin
<1>2. CASE Fewer
  BY <1>1, <1>2 DEF Fewer, OriginInv
<1>3. ASSUME NEW c \in Clients, Deliver(c) PROVE OriginInv'
  <2> DEFINE m == Head(inbox[c])
  <2>1. /\ status[c] = "up" /\ inbox[c] # <<>> /\ m \in Messages
        /\ UNCHANGED <<status, current>>
    BY <1>3, DeliverDoes
  <2>2. IsReply(m) => m.request \in Requests /\ Owes(c, m.request)
    <3>1. m \in Elems(inbox[c])
      BY <1>3, DeliverTakes
    <3> QED
      BY <2>1, <3>1, MessageIs DEF Owes
  <2>3. Asking(m)
    BY <1>3, DeliverAsks
  <2>4. c <= current /\ c \in Nat /\ current \in Nat /\ current \in Clients
    BY <2>1, UsedAre, ClientsAre DEF TypeInv
  <2> HIDE DEF m
  <2>5. IsReply(m) => Origin(c, m.request)
    BY <2>2 DEF OriginInv
  <2>6. ASSUME NEW r \in Requests, asked' = [asked EXCEPT ![current] = Append(asked[current], r)],
               r.load = 0 \/ (IsReply(m) /\ r.load = m.request.load /\ r.load \in Clients)
        PROVE  OriginInv'
    <3>1. \A d \in Clients, q \in Requests : Owes(d, q)' => Owes(d, q) \/ (d = current /\ q = r)
      BY <1>3, <2>6, DeliverOwes
    <3>2. r.load \in Nat
      BY <2>6, ClientsAre
    <3>3. Origin(current, r)
      BY <2>4, <2>5, <2>6, <3>2 DEF Origin
    <3> QED
      BY <1>1, <2>4, <3>1, <3>3 DEF OriginInv
  <2>7. asked' = asked => Fewer
    BY <1>3, DeliverOwes
  <2> QED
    BY <1>2, <2>3, <2>6, <2>7 DEF Asking
<1>4. ASSUME NEW c \in Clients, Connect(c) PROVE OriginInv'
  <2> DEFINE r == ListOf(c, "base")
  <2>1. /\ \A d \in Clients, q \in Requests : Owes(d, q)' => Owes(d, q) \/ (d = current /\ q = r)
        /\ r \in Requests /\ r.load = c
    BY <1>4, ConnectOwes, RequestsMade DEF Trees
  <2>2. status[c] = "connecting" /\ status' = [status EXCEPT ![c] = "up"]
    BY <1>4, ConnectDoes
  <2>3. c <= current /\ status'[c] = "up" /\ current \in Clients
    BY <2>2, UsedAre DEF TypeInv
  <2> HIDE DEF r
  <2>4. Origin(current, r)'
    BY <1>4, <2>1, <2>3, ConnectDoes DEF Origin
  <2>5. current' = current
    BY <1>4, ConnectDoes
  <2>6. ASSUME NEW d \in Clients, NEW q \in Requests, Owes(d, q)' PROVE Origin(d, q)'
    <3>1. CASE Owes(d, q)
      BY <1>1, <3>1 DEF OriginInv
    <3>2. CASE d = current /\ q = r
      BY <2>4, <2>5, <3>2
    <3> QED
      BY <2>1, <2>6, <3>1, <3>2
  <2> QED
    BY <2>6 DEF OriginInv
<1>5. UNCHANGED <<asked, inbox>> => Fewer
  BY DEF Fewer, Owes
<1>6. UNCHANGED odinVars => Fewer
  BY <1>5 DEF odinVars, netVars
<1>7. ASSUME NEW c \in Clients, Serve(c) \/ Reconnect(c) \/ Disconnected(c) \/ GiveUp(c) \/ Expired(c) PROVE Fewer
  BY <1>5, <1>7, ServeOwes, ReconnectTypes, DisconnectedOwes, GiveUpOwes, ExpiredOwes
<1>8. ASSUME NEW n \in Writable \cup Alterable, Write(n) PROVE Fewer
  BY <1>8, WriteOwes
<1> QED
  BY <1>2, <1>3, <1>4, <1>6, <1>7, <1>8 DEF OdinNext, ClientStep
-----------------------------------------------------------------------------
(* The places in queues at which a request of load l is.                   *)
AskedAt(c, i, l) == i \in DOMAIN asked[c] /\ asked[c][i].load = l
AnsweredAt(c, i, l) == i \in DOMAIN inbox[c] /\ IsReply(inbox[c][i]) /\ inbox[c][i].request.load = l

(* A load makes one request at a time.                                     *)
Once(l) ==
  \A c, d \in Clients : \A i, j :
    /\ AskedAt(c, i, l) /\ AskedAt(d, j, l) => c = d /\ i = j
    /\ AnsweredAt(c, i, l) /\ AnsweredAt(d, j, l) => c = d /\ i = j
    /\ ~(AskedAt(c, i, l) /\ AnsweredAt(d, j, l))
SingleInv == \A l \in Clients : Once(l)

(* A request of a load that is owed is at a place.                         *)
LEMMA OwedAt ==
  ASSUME NEW d \in Clients, NEW l
  PROVE  /\ \A r : Owes(d, r) /\ r.load = l => \E i : AskedAt(d, i, l) \/ AnsweredAt(d, i, l)
         /\ \A i : AskedAt(d, i, l) => Owes(d, asked[d][i])
         /\ \A i : AnsweredAt(d, i, l) => Owes(d, inbox[d][i].request)
<1>1. ASSUME NEW r, Owes(d, r), r.load = l PROVE \E i : AskedAt(d, i, l) \/ AnsweredAt(d, i, l)
  BY <1>1 DEF Owes, Elems, AskedAt, AnsweredAt
<1>2. ASSUME NEW i, AskedAt(d, i, l) PROVE Owes(d, asked[d][i])
  BY <1>2 DEF Owes, Elems, AskedAt
<1>3. ASSUME NEW i, AnsweredAt(d, i, l) PROVE Owes(d, inbox[d][i].request)
  BY <1>3 DEF Owes, Elems, AnsweredAt
<1> QED
  BY <1>1, <1>2, <1>3

(* A change of a node keeps SingleInv: events are not replies.             *)
LEMMA WriteSingle ==
  ASSUME TypeInv, SingleInv, NEW n \in Writable \cup Alterable, Write(n)
  PROVE  SingleInv'
<1>1. asked' = asked
  BY DEF Write
<1>2. ASSUME NEW d \in Clients, NEW i, NEW l, AnsweredAt(d, i, l)' PROVE AnsweredAt(d, i, l)
  <2>1. PICK told \in Seq(Events) : inbox'[d] = inbox[d] \o told
    BY WriteDoes
  <2>2. told \in Seq(Messages)
    <3>1. Events \subseteq Messages
      BY DEF Messages
    <3> QED
      BY <3>1, SeqOfMore
  <2>3. \A j \in DOMAIN told : ~IsReply(told[j])
    <3>1. \A j \in DOMAIN told : told[j] \in Events
      OBVIOUS
    <3> QED
      BY <3>1 DEF Events, Event, IsReply
  <2>4. inbox[d] \in Seq(Messages)
    BY QueuesAre
  <2> DEFINE s == inbox[d]
  <2>5. /\ \A j \in DOMAIN s : (s \o told)[j] = s[j]
        /\ \A j \in DOMAIN (s \o told) : j \notin DOMAIN s => j - Len(s) \in DOMAIN told /\ (s \o told)[j] = told[j - Len(s)]
    BY <2>2, <2>4, ConcatDoes
  <2>6. i \in DOMAIN (s \o told) /\ IsReply((s \o told)[i]) /\ (s \o told)[i].request.load = l
    BY <1>2, <2>1 DEF AnsweredAt
  <2>7. i \in DOMAIN s
    BY <2>3, <2>5, <2>6
  <2> QED
    BY <2>5, <2>6, <2>7 DEF AnsweredAt
<1>3. ASSUME NEW d \in Clients, NEW i, NEW l, AskedAt(d, i, l)' PROVE AskedAt(d, i, l)
  BY <1>1, <1>3 DEF AskedAt
<1>4. ASSUME NEW l \in Clients PROVE Once(l)'
  BY <1>2, <1>3 DEF SingleInv, Once
<1> QED
  BY <1>4 DEF SingleInv

(* The first place of a queue goes, and the others move up.                *)
LEMMA AskedUp ==
  ASSUME TypeInv, NEW c \in Clients, asked[c] # <<>>, asked' = [asked EXCEPT ![c] = Tail(asked[c])],
         NEW d \in Clients, NEW i, NEW l, AskedAt(d, i, l)'
  PROVE  /\ d # c => AskedAt(d, i, l)
         /\ d = c => i \in Nat /\ i # 0 /\ AskedAt(d, i + 1, l)
<1> DEFINE a == Tail(asked[c])
<1>1. asked' = [asked EXCEPT ![c] = a] /\ asked \in [Clients -> Seq(Requests)] /\ asked[c] \in Seq(Requests)
  BY DEF TypeInv
<1>2. \A j \in DOMAIN a : j \in Nat /\ j # 0 /\ j + 1 \in DOMAIN asked[c] /\ a[j] = asked[c][j + 1]
  <2>1. DOMAIN a = 1..Len(a)
    BY <1>1, TailDoes
  <2> QED
    BY <1>1, <2>1, TailDoes
<1> HIDE DEF a
<1>3. (d = c => asked'[d] = a) /\ (d # c => asked'[d] = asked[d])
  BY <1>1
<1> QED
  BY <1>2, <1>3 DEF AskedAt

(* The replies of an inbox whose first message is gone move up.            *)
LEMMA AnsweredUp ==
  ASSUME TypeInv, NEW c \in Clients, inbox[c] # <<>>, inbox' = [inbox EXCEPT ![c] = Tail(inbox[c])],
         NEW d \in Clients, NEW i, NEW l, AnsweredAt(d, i, l)'
  PROVE  /\ d # c => AnsweredAt(d, i, l)
         /\ d = c => i \in Nat /\ i # 0 /\ AnsweredAt(d, i + 1, l)
<1> DEFINE a == Tail(inbox[c])
<1>1. inbox' = [inbox EXCEPT ![c] = a] /\ inbox \in [Clients -> Seq(Messages)] /\ inbox[c] \in Seq(Messages)
  BY DEF TypeInv
<1>2. \A j \in DOMAIN a : j \in Nat /\ j # 0 /\ j + 1 \in DOMAIN inbox[c] /\ a[j] = inbox[c][j + 1]
  <2>1. DOMAIN a = 1..Len(a)
    BY <1>1, TailDoes
  <2> QED
    BY <1>1, <2>1, TailDoes
<1> HIDE DEF a
<1>3. (d = c => inbox'[d] = a) /\ (d # c => inbox'[d] = inbox[d])
  BY <1>1
<1> QED
  BY <1>2, <1>3 DEF AnsweredAt

(* A request r is added at the end of the current client's queue.          *)
LEMMA AskedMore ==
  ASSUME TypeInv, NEW r \in Requests, asked' = [asked EXCEPT ![current] = Append(asked[current], r)],
         NEW d \in Clients, NEW i, NEW l, AskedAt(d, i, l)'
  PROVE  AskedAt(d, i, l) \/ (d = current /\ i = Len(asked[current]) + 1 /\ r.load = l)
<1> DEFINE a == Append(asked[current], r)
<1>1. current \in Clients /\ asked' = [asked EXCEPT ![current] = a]
      /\ asked \in [Clients -> Seq(Requests)] /\ asked[current] \in Seq(Requests)
  BY DEF TypeInv
<1>2. /\ \A j \in DOMAIN asked[current] : a[j] = asked[current][j]
      /\ \A j \in DOMAIN a : j \in DOMAIN asked[current] \/ j = Len(asked[current]) + 1
      /\ a[Len(asked[current]) + 1] = r
  <2>1. DOMAIN a = 1..(Len(asked[current]) + 1) /\ DOMAIN asked[current] = 1..Len(asked[current])
        /\ Len(asked[current]) \in Nat
    BY <1>1, AppendDoes
  <2> QED
    BY <1>1, <2>1, AppendDoes
<1> HIDE DEF a
<1>3. (d = current => asked'[d] = a) /\ (d # current => asked'[d] = asked[d])
  BY <1>1
<1> QED
  BY <1>2, <1>3 DEF AskedAt

(* Serving keeps SingleInv: a request and its reply never wait at once.    *)
LEMMA ServeSingle ==
  ASSUME TypeInv, SingleInv, NEW c \in Clients, Serve(c)
  PROVE  SingleInv'
<1> DEFINE r == Head(asked[c])
           n == Len(inbox[c]) + 1
<1>1. PICK found :
    /\ asked[c] # <<>> /\ r \in Requests /\ Reply(r, found) \in Messages
    /\ asked' = [asked EXCEPT ![c] = Tail(asked[c])]
    /\ inbox' = [inbox EXCEPT ![c] = Append(inbox[c], Reply(r, found))]
  BY ServeDoes
<1>2. asked \in [Clients -> Seq(Requests)] /\ inbox \in [Clients -> Seq(Messages)]
  BY DEF TypeInv
<1>3. ASSUME NEW l, r.load = l PROVE AskedAt(c, 1, l)
  <2>1. r = asked[c][1] /\ 1 \in DOMAIN asked[c]
    BY <1>1, <1>2, TailDoes
  <2> QED
    BY <1>3, <2>1 DEF AskedAt
<1>4. ASSUME NEW d \in Clients, NEW i, NEW l, AnsweredAt(d, i, l)'
      PROVE  AnsweredAt(d, i, l) \/ (d = c /\ i = n /\ AskedAt(c, 1, l))
  <2> DEFINE b == Append(inbox[c], Reply(r, found))
  <2>1. inbox[c] \in Seq(Messages) /\ inbox' = [inbox EXCEPT ![c] = b]
    BY <1>1, <1>2
  <2>2. /\ \A j \in DOMAIN inbox[c] : b[j] = inbox[c][j]
        /\ \A j \in DOMAIN b : j \in DOMAIN inbox[c] \/ j = n
        /\ b[n] = Reply(r, found)
    <3>1. DOMAIN b = 1..n /\ DOMAIN inbox[c] = 1..Len(inbox[c]) /\ Len(inbox[c]) \in Nat
      BY <1>1, <2>1, AppendDoes
    <3> QED
      BY <1>1, <2>1, <3>1, AppendDoes
  <2>3. Reply(r, found).request = r
    BY DEF Reply
  <2> HIDE DEF b, n
  <2>4. (d = c => inbox'[d] = b) /\ (d # c => inbox'[d] = inbox[d])
    BY <1>2, <2>1
  <2>5. AnsweredAt(d, i, l) \/ (d = c /\ i = n /\ r.load = l)
    BY <1>4, <2>2, <2>3, <2>4 DEF AnsweredAt
  <2> QED
    BY <1>3, <2>5
<1>5. ASSUME NEW d \in Clients, NEW i, NEW l, AskedAt(d, i, l)'
      PROVE  /\ d # c => AskedAt(d, i, l)
             /\ d = c => i \in Nat /\ i # 0 /\ AskedAt(d, i + 1, l)
  BY <1>1, <1>5, AskedUp
<1> HIDE DEF n, r
<1>6. ASSUME NEW l \in Clients PROVE Once(l)'
  <2>1. Once(l)
    BY DEF SingleInv
  <2>2. ASSUME NEW a \in Clients, NEW d \in Clients, NEW i, NEW j, AskedAt(a, i, l)', AskedAt(d, j, l)'
        PROVE  a = d /\ i = j
    <3> DEFINE x == IF a = c THEN i + 1 ELSE i
               y == IF d = c THEN j + 1 ELSE j
    <3>1. AskedAt(a, x, l) /\ AskedAt(d, y, l) /\ (a = c => i \in Nat) /\ (d = c => j \in Nat)
      BY <1>5, <2>2
    <3>2. a = d /\ x = y
      <4> HIDE DEF x, y
      <4> QED
        BY <2>1, <3>1 DEF Once
    <3> QED
      BY <3>1, <3>2
  <2>3. ASSUME NEW a \in Clients, NEW d \in Clients, NEW i, NEW j, AnsweredAt(a, i, l)', AnsweredAt(d, j, l)'
        PROVE  a = d /\ i = j
    BY <1>4, <2>1, <2>3 DEF Once
  <2>4. ASSUME NEW a \in Clients, NEW d \in Clients, NEW i, NEW j, AskedAt(a, i, l)', AnsweredAt(d, j, l)'
        PROVE  FALSE
    <3> DEFINE x == IF a = c THEN i + 1 ELSE i
    <3>1. AskedAt(a, x, l) /\ (a = c => i \in Nat /\ i # 0)
      BY <1>5, <2>4
    <3>2. a = c => x # 1
      BY <3>1
    <3> HIDE DEF x
    <3> QED
      BY <1>4, <2>1, <2>4, <3>1, <3>2 DEF Once
  <2> QED
    BY <2>2, <2>3, <2>4 DEF Once
<1> QED
  BY <1>6 DEF SingleInv

(* A queue that shrinks at its start, or is emptied.                       *)
LEMMA GiveUpSingle ==
  ASSUME TypeInv, SingleInv, NEW c \in Clients, GiveUp(c)
  PROVE  SingleInv'
<1>1. asked[c] # <<>> /\ asked' = [asked EXCEPT ![c] = Tail(asked[c])] /\ inbox' = inbox
  BY GiveUpDoes
<1>2. ASSUME NEW d \in Clients, NEW i, NEW l, AskedAt(d, i, l)'
      PROVE  /\ d # c => AskedAt(d, i, l)
             /\ d = c => i \in Nat /\ i # 0 /\ AskedAt(d, i + 1, l)
  BY <1>1, <1>2, AskedUp
<1>3. ASSUME NEW d \in Clients, NEW i, NEW l, AnsweredAt(d, i, l)' PROVE AnsweredAt(d, i, l)
  BY <1>1, <1>3 DEF AnsweredAt
<1>4. ASSUME NEW l \in Clients PROVE Once(l)'
  <2>1. Once(l)
    BY DEF SingleInv
  <2>2. ASSUME NEW a \in Clients, NEW d \in Clients, NEW i, NEW j, AskedAt(a, i, l)', AskedAt(d, j, l)'
        PROVE  a = d /\ i = j
    <3> DEFINE x == IF a = c THEN i + 1 ELSE i
               y == IF d = c THEN j + 1 ELSE j
    <3>1. AskedAt(a, x, l) /\ AskedAt(d, y, l) /\ (a = c => i \in Nat) /\ (d = c => j \in Nat)
      BY <1>2, <2>2
    <3>2. a = d /\ x = y
      <4> HIDE DEF x, y
      <4> QED
        BY <2>1, <3>1 DEF Once
    <3> QED
      BY <3>1, <3>2
  <2>3. ASSUME NEW a \in Clients, NEW d \in Clients, NEW i, NEW j, AnsweredAt(a, i, l)', AnsweredAt(d, j, l)'
        PROVE  a = d /\ i = j
    BY <1>3, <2>1, <2>3 DEF Once
  <2>4. ASSUME NEW a \in Clients, NEW d \in Clients, NEW i, NEW j, AskedAt(a, i, l)', AnsweredAt(d, j, l)'
        PROVE  FALSE
    <3> DEFINE x == IF a = c THEN i + 1 ELSE i
    <3>1. AskedAt(a, x, l) /\ AnsweredAt(d, j, l)
      BY <1>2, <1>3, <2>4
    <3> HIDE DEF x
    <3> QED
      BY <2>1, <3>1 DEF Once
  <2> QED
    BY <2>2, <2>3, <2>4 DEF Once
<1> QED
  BY <1>4 DEF SingleInv

(* An expired session keeps SingleInv.                                     *)
LEMMA ExpiredSingle ==
  ASSUME TypeInv, SingleInv, NEW c \in Clients, Expired(c)
  PROVE  SingleInv'
<1>1. asked' = [asked EXCEPT ![c] = <<>>] /\ inbox' = [inbox EXCEPT ![c] = <<>>]
  BY ExpiredDoes
<1>2. asked \in [Clients -> Seq(Requests)] /\ inbox \in [Clients -> Seq(Messages)]
  BY DEF TypeInv
<1>3. ASSUME NEW d \in Clients
      PROVE  (d = c => asked'[d] = <<>> /\ inbox'[d] = <<>>) /\ (d # c => asked'[d] = asked[d] /\ inbox'[d] = inbox[d])
  BY <1>1, <1>2
<1>4. ASSUME NEW d \in Clients, NEW i, NEW l
      PROVE  (AskedAt(d, i, l)' => AskedAt(d, i, l)) /\ (AnsweredAt(d, i, l)' => AnsweredAt(d, i, l))
  <2>1. CASE d = c
    BY <1>3, <2>1 DEF AskedAt, AnsweredAt
  <2>2. CASE d # c
    BY <1>3, <2>2 DEF AskedAt, AnsweredAt
  <2> QED
    BY <2>1, <2>2
<1>5. ASSUME NEW l \in Clients PROVE Once(l)'
  BY <1>4 DEF SingleInv, Once
<1> QED
  BY <1>5 DEF SingleInv

(* Replies that are asked for again come from different places.            *)
LEMMA DisconnectedSingle ==
  ASSUME TypeInv, SingleInv, NEW c \in Clients, Disconnected(c)
  PROVE  SingleInv'
<1>0. PICK again \in Seq(Messages), kept \in Seq(Messages) : \E place : Lost(c, again, kept, place)
  BY DisconnectedDoes
<1>1. PICK place : Lost(c, again, kept, place)
  BY <1>0
<1> DEFINE requests == Again(again)
           a == requests \o asked[c]
           n == Len(again)
<1>2. /\ requests \in Seq(Requests) /\ asked' = [asked EXCEPT ![c] = a] /\ inbox' = [inbox EXCEPT ![c] = kept]
      /\ \A e \in Elems(kept) : ~IsReply(e)
      /\ \A i, j \in DOMAIN again : place[i] = place[j] => i = j
      /\ n \in Nat /\ DOMAIN again = 1..n
  BY <1>1 DEF Lost
<1>3. asked \in [Clients -> Seq(Requests)] /\ inbox \in [Clients -> Seq(Messages)]
  BY DEF TypeInv
<1>4. /\ DOMAIN requests = DOMAIN again /\ Len(requests) = n
      /\ \A i \in DOMAIN again : requests[i] = again[i].request
  BY <1>2 DEF Again
<1>5. ASSUME NEW l, NEW i \in DOMAIN again, requests[i].load = l PROVE AnsweredAt(c, place[i], l)
  BY <1>1, <1>4, <1>5 DEF Lost, AnsweredAt
<1> HIDE DEF requests
<1>6. /\ \A i \in DOMAIN again : a[i] = requests[i]
      /\ \A i \in DOMAIN a : i \in Nat /\ (i \notin DOMAIN again => i - n \in DOMAIN asked[c] /\ a[i] = asked[c][i - n])
  <2>1. DOMAIN a = 1..(Len(requests) + Len(asked[c])) /\ Len(asked[c]) \in Nat
    BY <1>2, <1>3, ConcatDoes
  <2> QED
    BY <1>2, <1>3, <1>4, <2>1, ConcatDoes
<1> HIDE DEF a, n
<1>7. ASSUME NEW d \in Clients
      PROVE  (d = c => asked'[d] = a /\ inbox'[d] = kept) /\ (d # c => asked'[d] = asked[d] /\ inbox'[d] = inbox[d])
  BY <1>2, <1>3
<1>8. ASSUME NEW d \in Clients, NEW i, NEW l, AskedAt(d, i, l)'
      PROVE  /\ d # c => AskedAt(d, i, l)
             /\ d = c => i \in Nat /\ IF i \in DOMAIN again THEN AnsweredAt(c, place[i], l) ELSE AskedAt(c, i - n, l)
  <2>1. CASE d = c
    <3>1. i \in DOMAIN a /\ a[i].load = l
      BY <1>7, <1>8, <2>1 DEF AskedAt
    <3>2. CASE i \in DOMAIN again
      BY <1>5, <1>6, <2>1, <3>1, <3>2
    <3>3. CASE i \notin DOMAIN again
      BY <1>6, <2>1, <3>1, <3>3 DEF AskedAt
    <3> QED
      BY <3>2, <3>3
  <2>2. CASE d # c
    BY <1>7, <1>8, <2>2 DEF AskedAt
  <2> QED
    BY <2>1, <2>2
<1>9. ASSUME NEW d \in Clients, NEW i, NEW l, AnsweredAt(d, i, l)' PROVE d # c /\ AnsweredAt(d, i, l)
  <2>1. CASE d = c
    BY <1>2, <1>7, <1>9, <2>1 DEF AnsweredAt, Elems
  <2>2. CASE d # c
    BY <1>7, <1>9, <2>2 DEF AnsweredAt
  <2> QED
    BY <2>1, <2>2
<1>10. ASSUME NEW l \in Clients PROVE Once(l)'
  <2>1. Once(l)
    BY DEF SingleInv
  <2>2. ASSUME NEW x \in Clients, NEW y \in Clients, NEW i, NEW j, AskedAt(x, i, l)', AskedAt(y, j, l)'
        PROVE  x = y /\ i = j
    <3>1. CASE x = c /\ y = c /\ i \in DOMAIN again /\ j \in DOMAIN again
      BY <1>2, <1>8, <2>1, <2>2, <3>1 DEF Once
    <3>2. CASE x = c /\ y = c /\ i \notin DOMAIN again /\ j \notin DOMAIN again
      <4>1. AskedAt(c, i - n, l) /\ AskedAt(c, j - n, l) /\ i \in Nat /\ j \in Nat
        BY <1>8, <2>2, <3>2
      <4>2. i - n = j - n
        BY <2>1, <4>1 DEF Once
      <4>3. n \in Nat
        BY <1>2 DEF n
      <4> QED
        BY <3>2, <4>1, <4>2, <4>3
    <3>3. CASE x = c /\ y = c /\ ~(i \in DOMAIN again <=> j \in DOMAIN again)
      <4>1. \E u, v : AskedAt(c, u, l) /\ AnsweredAt(c, v, l)
        BY <1>8, <2>2, <3>3
      <4> QED
        BY <2>1, <4>1 DEF Once
    <3>4. CASE x # c \/ y # c
      <4>1. \E u, v : /\ AskedAt(x, u, l) \/ AnsweredAt(x, u, l)
                      /\ AskedAt(y, v, l) \/ AnsweredAt(y, v, l)
                      /\ (x # c => u = i /\ AskedAt(x, u, l)) /\ (y # c => v = j /\ AskedAt(y, v, l))
        BY <1>8, <2>2
      <4> QED
        BY <2>1, <3>4, <4>1 DEF Once
    <3> QED
      BY <3>1, <3>2, <3>3, <3>4
  <2>3. ASSUME NEW x \in Clients, NEW y \in Clients, NEW i, NEW j, AnsweredAt(x, i, l)', AnsweredAt(y, j, l)'
        PROVE  x = y /\ i = j
    BY <1>9, <2>1, <2>3 DEF Once
  <2>4. ASSUME NEW x \in Clients, NEW y \in Clients, NEW i, NEW j, AskedAt(x, i, l)', AnsweredAt(y, j, l)'
        PROVE  FALSE
    <3>1. y # c /\ AnsweredAt(y, j, l)
      BY <1>9, <2>4
    <3>2. \E u : AskedAt(x, u, l) \/ (x = c /\ AnsweredAt(x, u, l))
      BY <1>8, <2>4
    <3> QED
      BY <2>1, <3>1, <3>2 DEF Once
  <2> QED
    BY <2>2, <2>3, <2>4 DEF Once
<1> QED
  BY <1>10 DEF SingleInv

(* After the reply to a load no other request of the load is owed.         *)
LEMMA Alone ==
  ASSUME TypeInv, SingleInv, NEW c \in Clients, NEW l \in Clients, AnsweredAt(c, 1, l),
         inbox[c] # <<>>, inbox' = [inbox EXCEPT ![c] = Tail(inbox[c])]
  PROVE  /\ \A d \in Clients : \A i : ~AskedAt(d, i, l)
         /\ \A d \in Clients : \A i : ~AnsweredAt(d, i, l)'
<1>1. Once(l)
  BY DEF SingleInv
<1>2. ASSUME NEW d \in Clients, NEW i PROVE ~AskedAt(d, i, l)
  BY <1>1 DEF Once
<1>3. ASSUME NEW d \in Clients, NEW i, AnsweredAt(d, i, l)' PROVE FALSE
  <2>1. CASE d = c
    <3>1. i \in Nat /\ i # 0 /\ AnsweredAt(c, i + 1, l)
      BY <1>3, <2>1, AnsweredUp
    <3>2. i + 1 = 1
      BY <1>1, <3>1 DEF Once
    <3> QED
      BY <3>1, <3>2
  <2>2. CASE d # c
    <3>1. AnsweredAt(d, i, l)
      BY <1>3, <2>2, AnsweredUp
    <3> QED
      BY <1>1, <2>2, <3>1 DEF Once
  <2> QED
    BY <2>1, <2>2
<1> QED
  BY <1>2, <1>3

(* The first message, if it answers a load.                                *)
LEMMA AtFirst ==
  ASSUME TypeInv, NEW c \in Clients, inbox[c] # <<>>, IsReply(Head(inbox[c]))
  PROVE  AnsweredAt(c, 1, Head(inbox[c]).request.load)
<1>1. Head(inbox[c]) = inbox[c][1] /\ 1 \in DOMAIN inbox[c]
  BY QueuesAre, TailDoes
<1> QED
  BY <1>1 DEF AnsweredAt

(* Delivering keeps SingleInv: a request follows the reply it is made on.  *)
LEMMA DeliverSingle ==
  ASSUME TypeInv, SingleInv, NEW c \in Clients, Deliver(c)
  PROVE  SingleInv'
<1> DEFINE m == Head(inbox[c])
<1>1. inbox[c] # <<>> /\ inbox' = [inbox EXCEPT ![c] = Tail(inbox[c])]
  BY DeliverDoes
<1>2. Asking(m)
  BY DeliverAsks
<1>3. ASSUME NEW d \in Clients, NEW i, NEW l, AnsweredAt(d, i, l)'
      PROVE  /\ d # c => AnsweredAt(d, i, l)
             /\ d = c => i \in Nat /\ i # 0 /\ AnsweredAt(d, i + 1, l)
  BY <1>1, <1>3, AnsweredUp
<1>4. IsReply(m) => AnsweredAt(c, 1, m.request.load)
  BY <1>1, AtFirst
<1> HIDE DEF m
<1>5. ASSUME NEW l \in Clients, IsReply(m), m.request.load = l
      PROVE  /\ \A d \in Clients : \A i : ~AskedAt(d, i, l)
             /\ \A d \in Clients : \A i : ~AnsweredAt(d, i, l)'
  BY <1>1, <1>4, <1>5, Alone
<1>6. ASSUME NEW l \in Clients, \A d \in Clients : \A i : AskedAt(d, i, l)' => AskedAt(d, i, l)
      PROVE  Once(l)'
  <2>1. Once(l)
    BY DEF SingleInv
  <2>2. ASSUME NEW x \in Clients, NEW y \in Clients, NEW i, NEW j, AskedAt(x, i, l)', AskedAt(y, j, l)'
        PROVE  x = y /\ i = j
    BY <1>6, <2>1, <2>2 DEF Once
  <2>3. ASSUME NEW x \in Clients, NEW y \in Clients, NEW i, NEW j, AnsweredAt(x, i, l)', AnsweredAt(y, j, l)'
        PROVE  x = y /\ i = j
    <3> DEFINE u == IF x = c THEN i + 1 ELSE i
               v == IF y = c THEN j + 1 ELSE j
    <3>1. AnsweredAt(x, u, l) /\ AnsweredAt(y, v, l) /\ (x = c => i \in Nat) /\ (y = c => j \in Nat)
      BY <1>3, <2>3
    <3>2. x = y /\ u = v
      <4> HIDE DEF u, v
      <4> QED
        BY <2>1, <3>1 DEF Once
    <3> QED
      BY <3>1, <3>2
  <2>4. ASSUME NEW x \in Clients, NEW y \in Clients, NEW i, NEW j, AskedAt(x, i, l)', AnsweredAt(y, j, l)'
        PROVE  FALSE
    <3>1. AskedAt(x, i, l) /\ \E v : AnsweredAt(y, v, l)
      BY <1>3, <1>6, <2>4
    <3> QED
      BY <2>1, <3>1 DEF Once
  <2> QED
    BY <2>2, <2>3, <2>4 DEF Once
<1>7. CASE asked' = asked
  <2>1. \A l \in Clients : \A d \in Clients : \A i : AskedAt(d, i, l)' => AskedAt(d, i, l)
    BY <1>7 DEF AskedAt
  <2> QED
    BY <1>6, <2>1 DEF SingleInv
<1>8. ASSUME NEW r \in Requests, asked' = [asked EXCEPT ![current] = Append(asked[current], r)],
             r.load = 0 \/ (IsReply(m) /\ r.load = m.request.load /\ r.load \in Clients)
      PROVE  SingleInv'
  <2> DEFINE n == Len(asked[current]) + 1
  <2>1. \A l, d \in Clients : \A i : AskedAt(d, i, l)' => AskedAt(d, i, l) \/ (d = current /\ i = n /\ r.load = l)
    BY <1>8, AskedMore
  <2> HIDE DEF n
  <2>2. ASSUME NEW l \in Clients PROVE Once(l)'
    <3>1. CASE r.load # l
      BY <1>6, <2>1, <3>1
    <3>2. CASE r.load = l
      <4>1. IsReply(m) /\ m.request.load = l
        BY <1>8, <3>2, ClientsAre
      <4>2. /\ \A d \in Clients : \A i : AskedAt(d, i, l)' => d = current /\ i = n
            /\ \A d \in Clients : \A i : ~AnsweredAt(d, i, l)'
        BY <1>5, <2>1, <4>1
      <4> QED
        BY <4>2 DEF Once
    <3> QED
      BY <3>1, <3>2
  <2> QED
    BY <2>2 DEF SingleInv
<1> QED
  BY <1>2, <1>7, <1>8 DEF Asking

(* A first connection keeps SingleInv: its load has made no request yet.   *)
LEMMA ConnectSingle ==
  ASSUME TypeInv, OriginInv, SingleInv, NEW c \in Clients, Connect(c)
  PROVE  SingleInv'
<1> DEFINE r == ListOf(c, "base")
           n == Len(asked[current]) + 1
<1>1. /\ status[c] = "connecting" /\ r \in Requests /\ r.load = c /\ inbox' = inbox
      /\ asked' = [asked EXCEPT ![current] = Append(asked[current], r)]
  BY ConnectDoes, RequestsMade DEF Trees
<1>2. \A l, d \in Clients : \A i : AskedAt(d, i, l)' => AskedAt(d, i, l) \/ (d = current /\ i = n /\ r.load = l)
  BY <1>1, AskedMore
<1>3. \A l, d \in Clients : \A i : AnsweredAt(d, i, l)' => AnsweredAt(d, i, l)
  BY <1>1 DEF AnsweredAt
<1> HIDE DEF r, n
<1>4. ASSUME NEW d \in Clients, NEW i, AskedAt(d, i, c) \/ AnsweredAt(d, i, c) PROVE FALSE
  <2>1. PICK q : Owes(d, q) /\ q.load = c
    BY <1>4, OwedAt DEF AskedAt, AnsweredAt
  <2>2. q \in Requests /\ c # 0
    BY <2>1, OwedAre, ClientsAre
  <2> QED
    BY <1>1, <2>1, <2>2 DEF OriginInv, Origin
<1>5. ASSUME NEW l \in Clients PROVE Once(l)'
  <2>1. CASE l # c
    BY <1>1, <1>2, <1>3, <2>1 DEF SingleInv, Once
  <2>2. CASE l = c
    <3>1. /\ \A d \in Clients : \A i : AskedAt(d, i, l)' => d = current /\ i = n
          /\ \A d \in Clients : \A i : ~AnsweredAt(d, i, l)'
      BY <1>2, <1>3, <1>4, <2>2
    <3> QED
      BY <3>1 DEF Once
  <2> QED
    BY <2>1, <2>2
<1> QED
  BY <1>5 DEF SingleInv

(* Every step keeps SingleInv.                                             *)
LEMMA SingleStep ==
  ASSUME TypeInv, OriginInv, SingleInv, [OdinNext]_odinVars
  PROVE  SingleInv'
<1>1. UNCHANGED <<asked, inbox>> => SingleInv'
  BY DEF SingleInv, Once, AskedAt, AnsweredAt
<1>2. UNCHANGED odinVars => SingleInv'
  BY <1>1 DEF odinVars, netVars
<1>3. ASSUME NEW c \in Clients, Reconnect(c) PROVE SingleInv'
  BY <1>1, <1>3, ReconnectTypes
<1> QED
  BY <1>2, <1>3, WriteSingle, ServeSingle, DeliverSingle, ConnectSingle, DisconnectedSingle, GiveUpSingle,
     ExpiredSingle
  DEF OdinNext, ClientStep

(* At first no load has made a request.                                    *)
LEMMA SingleInit == OdinInit => SingleInv
<1> SUFFICES ASSUME OdinInit PROVE SingleInv
  OBVIOUS
<1>1. \A d \in Clients : \A i, l : ~AskedAt(d, i, l) /\ ~AnsweredAt(d, i, l)
  <2>1. \A d \in Clients : asked[d] = <<>> /\ inbox[d] = <<>>
    BY DEF OdinInit
  <2> QED
    BY <2>1 DEF AskedAt, AnsweredAt
<1> QED
  BY <1>1 DEF SingleInv, Once
-----------------------------------------------------------------------------
(* A load l goes on after the reply m: of it, only what it asks for next   *)
(* is owed.                                                                *)
GoesOn(l, tree, leaves) ==
  /\ \A d \in Clients : d # l => load'[d] = load[d]
  /\ \A d \in Clients, q \in Requests : Owes(d, q)' /\ q.load # l => Owes(d, q)
  /\ \/ /\ connected /\ UNCHANGED <<started, mishaps>>
        /\ \E r : /\ Continues(l, tree, leaves, r)
                  /\ r \in Elems(asked'[current])
                  /\ \A d \in Clients, q \in Requests : Owes(d, q)' /\ q.load = l => q = r
     \/ /\ \A d \in Clients, q \in Requests : ~(Owes(d, q)' /\ q.load = l)
        /\ started' = (IF l = 1 THEN "ready" ELSE started)
        /\ \/ mishaps' = mishaps /\ \A n \in Leaves : ~Rest(n, tree, leaves)
           \/ ~connected /\ mishaps' = IF l = 1 THEN mishaps \cup {"cut"} ELSE mishaps

(* A load that is given its reply goes on.                                 *)
LEMMA LoadGoesOn ==
  ASSUME TypeInv, SingleInv, NEW c \in Clients, Deliver(c), NEW l \in Clients,
         IsReply(Head(inbox[c])), Head(inbox[c]).request.load = l,
         NEW tree \in Trees, NEW leaves \in SUBSET Keys, Proceed(l, tree, leaves)
  PROVE  GoesOn(l, tree, leaves)
<1>1. inbox[c] # <<>> /\ inbox' = [inbox EXCEPT ![c] = Tail(inbox[c])]
  BY DeliverDoes
<1>2. AnsweredAt(c, 1, l)
  BY <1>1, AtFirst
<1>3. /\ \A d \in Clients : \A i : ~AskedAt(d, i, l)
      /\ \A d \in Clients : \A i : ~AnsweredAt(d, i, l)'
  BY <1>1, <1>2, Alone
<1>4. ASSUME NEW d \in Clients, NEW q \in Requests, Owes(d, q)', q.load = l
      PROVE  q \in Elems(asked'[d]) /\ q \notin Elems(asked[d])
  <2>1. q \notin Elems(asked[d])
    BY <1>3, <1>4 DEF Elems, AskedAt
  <2>2. ASSUME NEW e \in Elems(inbox'[d]), IsReply(e), e.request = q PROVE FALSE
    BY <1>3, <1>4, <2>2 DEF Elems, AnsweredAt
  <2>3. q \in Elems(asked'[d])
    BY <1>4, <2>2 DEF Owes
  <2> QED
    BY <2>1, <2>3
<1>5. \A d \in Clients : d # l => load'[d] = load[d]
  BY ProceedDoes
<1>6. ASSUME asked' = asked
      PROVE  /\ \A d \in Clients, q \in Requests : ~(Owes(d, q)' /\ q.load = l)
             /\ \A d \in Clients, q \in Requests : Owes(d, q)' => Owes(d, q)
  BY <1>4, <1>6, DeliverOwes DEF Fewer
<1>7. ASSUME NEW r, Continues(l, tree, leaves, r)
      PROVE  /\ r \in Elems(asked'[current])
             /\ \A d \in Clients, q \in Requests : Owes(d, q)' /\ q.load = l => q = r
             /\ \A d \in Clients, q \in Requests : Owes(d, q)' /\ q.load # l => Owes(d, q)
  <2>1. r \in Requests /\ r.load = l /\ asked' = [asked EXCEPT ![current] = Append(asked[current], r)]
    BY <1>7 DEF Continues
  <2>2. /\ \A d \in Clients, q \in Requests : Owes(d, q)' => Owes(d, q) \/ (d = current /\ q = r)
        /\ r \in Elems(asked'[current])
    BY <2>1, DeliverOwes
  <2>3. \A d \in Clients : \A q \in Elems(asked'[d]) : q \in Elems(asked[d]) \/ q = r
    BY <2>1, AskAdds
  <2> QED
    BY <1>4, <2>1, <2>2, <2>3
<1>8. CASE connected /\ UNCHANGED <<started, mishaps>> /\ \E r : Continues(l, tree, leaves, r)
  BY <1>5, <1>7, <1>8 DEF GoesOn
<1>9. CASE /\ asked' = asked /\ started' = (IF l = 1 THEN "ready" ELSE started)
           /\ \/ mishaps' = mishaps /\ \A n \in Leaves : ~Rest(n, tree, leaves)
              \/ ~connected /\ mishaps' = IF l = 1 THEN mishaps \cup {"cut"} ELSE mishaps
  BY <1>5, <1>6, <1>9 DEF GoesOn
<1> QED
  BY <1>8, <1>9, ProceedDoes

(* What is left of the load of a reply m that is delivered: of its list,   *)
(* or of the tree it was reading.                                          *)
LEMMA ReplyGoesOn ==
  ASSUME TypeInv, SingleInv, NEW c \in Clients, Deliver(c), NEW m, m = Head(inbox[c])
  PROVE  /\ Listed(m) => GoesOn(m.request.load, m.request.node[1], m.found)
         /\ Read(m) => GoesOn(m.request.load, load[m.request.load].tree, load[m.request.load].leaves)
<1>1. m \in Messages
  BY DeliverDoes
<1>2. ASSUME Listed(m) PROVE GoesOn(m.request.load, m.request.node[1], m.found)
  <2> DEFINE l == m.request.load
             t == m.request.node[1]
             s == m.found
  <2>1. l \in Clients /\ IsReply(m) /\ Proceed(l, t, s)
    BY <1>2 DEF Listed
  <2>2. t \in Trees /\ s \in SUBSET Keys
    BY <1>1, <1>2, MessageIs, RequestIs DEF Listed
  <2>3. IsReply(Head(inbox[c])) /\ Head(inbox[c]).request.load = l
    BY <2>1
  <2> HIDE DEF l, t, s
  <2>4. GoesOn(l, t, s)
    BY <2>1, <2>2, <2>3, LoadGoesOn
  <2> QED
    BY <2>4 DEF l, t, s
<1>3. ASSUME Read(m) PROVE GoesOn(m.request.load, load[m.request.load].tree, load[m.request.load].leaves)
  <2> DEFINE l == m.request.load
             t == load[l].tree
             s == load[l].leaves
  <2>1. l \in Clients /\ IsReply(m) /\ Proceed(l, t, s)
    BY <1>3 DEF Read
  <2>2. t \in Trees /\ s \in SUBSET Keys
    BY <2>1 DEF TypeInv, Loads
  <2>3. IsReply(Head(inbox[c])) /\ Head(inbox[c]).request.load = l
    BY <2>1
  <2> HIDE DEF l, t, s
  <2>4. GoesOn(l, t, s)
    BY <2>1, <2>2, <2>3, LoadGoesOn
  <2> QED
    BY <2>4 DEF l, t, s
<1> QED
  BY <1>2, <1>3
-----------------------------------------------------------------------------
(* What is left of a load is left of the tree it reads a leaf of.          *)
TreeInv ==
  \A d \in Clients, r \in Requests :
    Owes(d, r) /\ r.load # 0 /\ r.kind = "data" => load[r.load].tree = r.node[1]

(* The steps that make no request of a load and go on with no load.        *)
Still ==
  /\ \A d \in Clients, r \in Requests : Owes(d, r)' /\ r.load # 0 => Owes(d, r)
  /\ \A d \in Clients : load'[d].tree = load[d].tree /\ load'[d].leaves = load[d].leaves

(* Every step but a first connection and a reply to a load is Still.       *)
LEMMA StillSteps ==
  ASSUME TypeInv
  PROVE  /\ UNCHANGED odinVars => Still
         /\ \A n \in Writable \cup Alterable : Write(n) => Still
         /\ \A c \in Clients :
              Serve(c) \/ Reconnect(c) \/ Disconnected(c) \/ GiveUp(c) \/ Expired(c) => Still
         /\ \A c \in Clients : Deliver(c) /\ (Told(Head(inbox[c])) \/ Reread(Head(inbox[c])) \/ Missed(Head(inbox[c]))) => Still
<1>1. Fewer /\ load' = load => Still
  BY DEF Fewer, Still
<1>2. UNCHANGED <<asked, inbox, load>> => Still
  BY DEF Still, Owes
<1>3. UNCHANGED odinVars => Still
  BY <1>2 DEF odinVars, netVars, processVars
<1>4. ASSUME NEW n \in Writable \cup Alterable, Write(n) PROVE Still
  BY <1>1, <1>4, WriteOwes DEF Write, processVars
<1>5. ASSUME NEW c \in Clients, Serve(c) PROVE Still
  BY <1>1, <1>5, ServeOwes DEF Serve, processVars
<1>6. ASSUME NEW c \in Clients, Reconnect(c) PROVE Still
  BY <1>2, <1>6, ReconnectTypes
<1>7. ASSUME NEW c \in Clients, Disconnected(c) PROVE Still
  <2>1. load' = load
    BY <1>7 DEF Disconnected
  <2> QED
    BY <1>1, <1>7, <2>1, DisconnectedOwes
<1>8. ASSUME NEW c \in Clients, GiveUp(c) \/ Expired(c) PROVE Still
  BY <1>8, GiveUpOwes, ExpiredOwes, GiveUpDoes, ExpiredDoes DEF Fewer, Still
<1>9. ASSUME NEW c \in Clients, Deliver(c), Told(Head(inbox[c])) \/ Reread(Head(inbox[c])) \/ Missed(Head(inbox[c]))
      PROVE Still
  <2> DEFINE m == Head(inbox[c])
  <2>1. m \in Messages
    BY <1>9, DeliverDoes
  <2>2. asked' = asked => Fewer
    BY <1>9, DeliverOwes
  <2>3. CASE Told(m)
    <3> DEFINE r == DataOf(0, m.node)
    <3>1. load' = load /\ (asked' = asked \/ asked' = [asked EXCEPT ![current] = Append(asked[current], r)])
      BY <2>3 DEF Told
    <3>2. r \in Requests /\ r.load = 0
      BY <2>1, <2>3, MessageIs, RequestsMade DEF Told
    <3> HIDE DEF r
    <3>3. asked' # asked => \A d \in Clients, q \in Requests : Owes(d, q)' => Owes(d, q) \/ q = r
      BY <1>9, <3>1, <3>2, DeliverOwes
    <3> QED
      BY <1>1, <2>2, <3>1, <3>2, <3>3 DEF Still
  <2>4. CASE Reread(m)
    BY <1>1, <2>2, <2>4 DEF Reread
  <2>5. CASE Missed(m)
    <3>1. {m.request} \in SUBSET Requests
      BY <2>1, <2>5, MessageIs DEF Missed
    <3>2. ReadsFailed({m.request}) /\ asked' = asked
      BY <2>5 DEF Missed
    <3>3. \A d \in Clients : load'[d].tree = load[d].tree /\ load'[d].leaves = load[d].leaves
      BY <3>1, <3>2, ReadsFailedDoes
    <3> QED
      BY <2>2, <3>2, <3>3 DEF Still, Fewer
  <2> QED
    BY <1>9, <2>3, <2>4, <2>5
<1> QED
  BY <1>3, <1>4, <1>5, <1>6, <1>7, <1>8, <1>9

(* Every step keeps TreeInv.                                               *)
LEMMA TreeStep ==
  ASSUME TypeInv, OriginInv, SingleInv, TreeInv, [OdinNext]_odinVars
  PROVE  TreeInv'
<1>1. ASSUME Still PROVE TreeInv'
  <2>1. \A r \in Requests : r.load # 0 => r.load \in Clients
    BY RequestIs
  <2> QED
    BY <1>1, <2>1 DEF Still, TreeInv
<1>2. ASSUME NEW l \in Clients, NEW tree, NEW leaves, GoesOn(l, tree, leaves) PROVE TreeInv'
  <2>1. \A r \in Requests : r.load # 0 => r.load \in Clients
    BY RequestIs
  <2>2. ASSUME NEW d \in Clients, NEW q \in Requests, Owes(d, q)', q.load # 0, q.kind = "data"
        PROVE  load'[q.load].tree = q.node[1]
    <3>1. CASE q.load # l
      BY <1>2, <2>1, <2>2, <3>1 DEF GoesOn, TreeInv
    <3>2. CASE q.load = l
      BY <1>2, <2>2, <3>2 DEF GoesOn, Continues
    <3> QED
      BY <3>1, <3>2
  <2> QED
    BY <2>2 DEF TreeInv
<1>3. ASSUME NEW c \in Clients, Deliver(c) PROVE TreeInv'
  <2> DEFINE m == Head(inbox[c])
  <2>1. Told(m) \/ Listed(m) \/ Read(m) \/ Reread(m) \/ Missed(m)
    BY <1>3, DeliverDoes
  <2>2. CASE Told(m) \/ Reread(m) \/ Missed(m)
    BY <1>1, <1>3, <2>2, StillSteps
  <2>3. CASE Listed(m) \/ Read(m)
    <3>1. m.request.load \in Clients
      BY <2>3 DEF Listed, Read
    <3>2. \E tree, leaves : GoesOn(m.request.load, tree, leaves)
      BY <1>3, <2>3, ReplyGoesOn
    <3> HIDE DEF m
    <3> QED
      BY <1>2, <3>1, <3>2
  <2> QED
    BY <2>1, <2>2, <2>3
<1>4. ASSUME NEW c \in Clients, Connect(c) PROVE TreeInv'
  <2> DEFINE r == ListOf(c, "base")
  <2>1. /\ \A d \in Clients, q \in Requests : Owes(d, q)' => Owes(d, q) \/ q = r
        /\ r \in Requests /\ r.kind = "list"
    BY <1>4, ConnectOwes, RequestsMade DEF Trees
  <2>2. status[c] = "connecting" /\ \A d \in Clients : d # c => load'[d] = load[d]
    BY <1>4, ConnectDoes
  <2>3. ASSUME NEW d \in Clients, NEW q \in Requests, Owes(d, q), q.load # 0 PROVE q.load \in Clients /\ q.load # c
    BY <2>2, <2>3, RequestIs DEF OriginInv, Origin
  <2> HIDE DEF r
  <2>4. ASSUME NEW d \in Clients, NEW q \in Requests, Owes(d, q)', q.load # 0, q.kind = "data"
        PROVE  load'[q.load].tree = q.node[1]
    BY <2>1, <2>2, <2>3, <2>4 DEF TreeInv
  <2> QED
    BY <2>4 DEF TreeInv
<1> QED
  BY <1>1, <1>3, <1>4, StillSteps DEF OdinNext, ClientStep
-----------------------------------------------------------------------------
(* Nodes that exist whenever they are asked for.                           *)
Lasting == {n \in Initial : n[2] \notin altered}

(* A reply says of the nodes whose keys are not altered what was so at     *)
(* first: whether they exist.                                              *)
Truthful(m) ==
  IsReply(m) =>
    /\ m.request.kind = "list" =>
         \A k \in Keys \ altered : k \in m.found <=> <<m.request.node[1], k>> \in Initial
    /\ m.request.kind = "data" /\ m.request.node[2] \in Keys \ altered =>
         (m.found # 0 <=> m.request.node \in Initial)

(* Nodes whose keys are not altered exist or not as they did at first, and *)
(* so say replies and properties.                                          *)
NodeInv ==
  /\ \A n \in Leaves : n[2] \notin altered => (node[n] # 0 <=> n \in Initial)
  /\ \A k \in Keys \ altered : props[k].level = "local" \/ <<props[k].level, k>> \in Initial
  /\ \A d \in Clients : \A m \in Elems(inbox[d]) : Truthful(m)

(* At first every node exists or not as it does at first.                  *)
LEMMA NodeInit == OdinInit => NodeInv
<1> SUFFICES ASSUME OdinInit PROVE NodeInv
  OBVIOUS
<1>1. \A n \in Leaves : node[n] # 0 <=> n \in Initial
  BY LeavesAre DEF OdinInit
<1>2. \A d \in Clients : Elems(inbox[d]) = {}
  BY DEF OdinInit, Elems
<1>3. \A k \in Keys : props[k].level = "local"
  BY DEF OdinInit
<1> QED
  BY <1>1, <1>2, <1>3 DEF NodeInv

(* The messages of a step: those there were, events, and true replies.     *)
LEMMA NodeStep ==
  ASSUME TypeInv, NodeInv, [OdinNext]_odinVars
  PROVE  NodeInv'
<1> DEFINE Nothing == \A d \in Clients : \A m \in Elems(inbox'[d]) : m \in Elems(inbox[d]) \/ ~IsReply(m)
<1>1. Nothing /\ UNCHANGED <<node, altered, props>> => NodeInv'
  BY DEF NodeInv, Truthful
<1>2. UNCHANGED odinVars => Nothing /\ UNCHANGED <<node, altered, props>>
  BY DEF odinVars, zkVars, netVars, processVars
<1>3. ASSUME NEW n \in Writable \cup Alterable, Write(n) PROVE NodeInv'
  <2>1. Nothing
    BY <1>3, WriteAdds
  <2>2. /\ \A a \in Nodes : a # n => node'[a] = node[a]
        /\ altered \subseteq altered' /\ (n[2] \notin altered' => node'[n] # 0 /\ node[n] # 0)
    BY <1>3, WriteDoes
  <2>3. props' = props
    BY <1>3 DEF Write, processVars
  <2>4. \A a \in Leaves : a[2] \notin altered' => (node'[a] # 0 <=> a \in Initial)
    BY <2>2, LeavesAre DEF NodeInv
  <2>5. \A m : Truthful(m) => Truthful(m)'
    BY <2>2 DEF Truthful
  <2>6. \A d \in Clients : \A m \in Elems(inbox'[d]) : Truthful(m)'
    BY <2>1, <2>5 DEF NodeInv, Truthful
  <2>7. \A k \in Keys \ altered' : props'[k].level = "local" \/ <<props'[k].level, k>> \in Initial
    BY <2>2, <2>3 DEF NodeInv
  <2> QED
    BY <2>4, <2>6, <2>7 DEF NodeInv
<1>4. ASSUME NEW c \in Clients, Serve(c) PROVE NodeInv'
  <2> DEFINE r == Head(asked[c])
  <2>1. UNCHANGED <<node, altered, props>>
    BY <1>4 DEF Serve, processVars
  <2>2. ASSUME NEW d \in Clients, NEW m \in Elems(inbox'[d]) PROVE Truthful(m)
    <3>1. PICK found :
           /\ r \in Requests /\ IsReply(Reply(r, found)) /\ Reply(r, found).request = r /\ Reply(r, found).found = found
           /\ Elems(inbox'[d]) = IF d = c THEN Elems(inbox[d]) \cup {Reply(r, found)} ELSE Elems(inbox[d])
           /\ r.kind = "list" => found = {k \in Keys : node[<<r.node[1], k>>] # 0}
           /\ r.kind = "data" => found = node[r.node]
      BY <1>4, ServeMoves
    <3> HIDE DEF r
    <3>2. r.node \in Nodes /\ r.node[1] \in Trees /\ (r.kind = "list" \/ r.kind = "data")
      BY <3>1, RequestIs
    <3>3. r.kind = "list" => \A k \in Keys \ altered : k \in found <=> <<r.node[1], k>> \in Initial
      <4> SUFFICES ASSUME r.kind = "list", NEW k \in Keys \ altered PROVE k \in found <=> <<r.node[1], k>> \in Initial
        OBVIOUS
      <4> DEFINE n == <<r.node[1], k>>
      <4>1. n \in Leaves /\ n[2] = k
        BY <3>2, LeavesAre
      <4>2. node[n] # 0 <=> n \in Initial
        BY <4>1 DEF NodeInv
      <4>3. k \in found <=> node[n] # 0
        BY <3>1
      <4> QED
        BY <4>2, <4>3
    <3>4. r.kind = "data" /\ r.node[2] \in Keys \ altered => (found # 0 <=> r.node \in Initial)
      <4>1. r.node[2] \in Keys => r.node \in Leaves
        BY <3>2, LeavesAre
      <4> QED
        BY <3>1, <4>1 DEF NodeInv
    <3>5. Truthful(Reply(r, found))
      BY <3>1, <3>3, <3>4 DEF Truthful
    <3>6. m \in Elems(inbox[d]) \/ m = Reply(r, found)
      BY <3>1
    <3> QED
      BY <3>5, <3>6 DEF NodeInv
  <2>3. \A m : Truthful(m) => Truthful(m)'
    BY <2>1 DEF Truthful
  <2> QED
    BY <2>1, <2>2, <2>3 DEF NodeInv
<1>5. ASSUME NEW c \in Clients, Deliver(c) PROVE NodeInv'
  <2> DEFINE m == Head(inbox[c])
  <2>1. Nothing /\ m \in Elems(inbox[c])
    BY <1>5, DeliverTakes
  <2>2. /\ m \in Messages
        /\ Told(m) \/ Listed(m) \/ Read(m) \/ Reread(m) \/ Missed(m)
        /\ UNCHANGED <<node, altered>>
    BY <1>5, DeliverDoes
  <2> HIDE DEF m
  <2>3. CASE props' = props
    BY <1>1, <2>1, <2>2, <2>3
  <2>4. CASE /\ IsReply(m) /\ m.request.kind = "data" /\ m.found # 0
             /\ SetDynamicProps(m.request.node, m.found)
    <3> DEFINE n == m.request.node
    <3>1. n \in Nodes /\ n = <<n[1], n[2]>> /\ m.found \in Versions
      BY <2>2, <2>4, MessageIs, RequestIs, LeavesAre
    <3>2. \A k \in Keys : props'[k].level = props[k].level \/ (k = n[2] /\ props'[k].level = n[1])
      <4> HIDE DEF n
      <4> QED
        BY <2>2, <2>4, <3>1, SetDoes DEF n
    <3>3. n[2] \in Keys \ altered => n \in Initial
      BY <2>1, <2>4 DEF NodeInv, Truthful
    <3> HIDE DEF n
    <3>4. \A k \in Keys \ altered' : props'[k].level = "local" \/ <<props'[k].level, k>> \in Initial
      BY <2>2, <3>1, <3>2, <3>3 DEF NodeInv
    <3>5. \A d \in Clients : \A e \in Elems(inbox'[d]) : Truthful(e)'
      BY <2>1, <2>2 DEF NodeInv, Truthful
    <3>6. \A a \in Leaves : a[2] \notin altered' => (node'[a] # 0 <=> a \in Initial)
      BY <2>2 DEF NodeInv
    <3> QED
      BY <3>4, <3>5, <3>6 DEF NodeInv
  <2> QED
    BY <2>2, <2>3, <2>4 DEF Told, Listed, Read, Reread, Missed
<1>6. ASSUME NEW c \in Clients, Connect(c) \/ Reconnect(c) \/ GiveUp(c) PROVE Nothing /\ UNCHANGED <<node, altered, props>>
  <2>1. inbox' = inbox /\ UNCHANGED <<node, altered, props>>
    BY <1>6, ConnectDoes, ReconnectTypes, GiveUpDoes
  <2> QED
    BY <2>1
<1>7. ASSUME NEW c \in Clients, Disconnected(c) \/ Expired(c) PROVE Nothing /\ UNCHANGED <<node, altered, props>>
  <2>1. \E s \in Seq(Messages) : inbox' = [inbox EXCEPT ![c] = s] /\ \A m \in Elems(s) : m \in Elems(inbox[c])
    <3>1. CASE Disconnected(c)
      BY <3>1, DisconnectedDoes DEF Lost
    <3>2. CASE Expired(c)
      <4>1. inbox' = [inbox EXCEPT ![c] = <<>>]
        BY <3>2, ExpiredDoes
      <4>2. <<>> \in Seq(Messages) /\ Elems(<<>>) = {}
        BY DEF Elems
      <4> QED
        BY <4>1, <4>2
    <3> QED
      BY <1>7, <3>1, <3>2
  <2>2. PICK s \in Seq(Messages) : inbox' = [inbox EXCEPT ![c] = s] /\ \A m \in Elems(s) : m \in Elems(inbox[c])
    BY <2>1
  <2>3. \A d \in Clients : inbox'[d] = IF d = c THEN s ELSE inbox[d]
    BY <2>2 DEF TypeInv
  <2>4. UNCHANGED <<node, altered, props>>
    BY <1>7 DEF Disconnected, Expired, zkVars
  <2> QED
    BY <2>2, <2>3, <2>4
<1> HIDE DEF Nothing
<1> QED
  BY <1>1, <1>2, <1>3, <1>4, <1>5, <1>6, <1>7 DEF OdinNext, ClientStep

(* What lasts exists, and lasted before.                                   *)
LEMMA LastingAre ==
  ASSUME TypeInv, NodeInv, [OdinNext]_odinVars
  PROVE  /\ \A n \in Lasting : n \in Leaves /\ n \in Nodes /\ n[2] \in Keys \ altered /\ node[n] # 0
         /\ Lasting' \subseteq Lasting
<1>1. \A n \in Lasting : n \in Leaves /\ n \in Nodes /\ n[2] \in Keys \ altered /\ node[n] # 0
  BY LeavesAre DEF Lasting, NodeInv
<1>2. altered \subseteq altered'
  <2>1. CASE UNCHANGED odinVars
    BY <2>1 DEF odinVars, zkVars
  <2>2. ASSUME NEW n \in Writable \cup Alterable, Write(n) PROVE altered \subseteq altered'
    BY <2>2, WriteDoes
  <2>3. ASSUME NEW c \in Clients, ClientStep(c) \/ Disconnected(c) \/ GiveUp(c) \/ Expired(c) PROVE altered' = altered
    BY <2>3, ServeDoes, DeliverDoes, ConnectDoes, ReconnectTypes, GiveUpDoes, ExpiredDoes
    DEF ClientStep, Disconnected, zkVars
  <2> QED
    BY <2>1, <2>2, <2>3 DEF OdinNext
<1> QED
  BY <1>1, <1>2 DEF Lasting
-----------------------------------------------------------------------------
(* An event of n comes after place i of the inbox of d.                    *)
EventAfter(d, i, n) == \E j \in DOMAIN inbox[d] : j > i /\ inbox[d][j] = Event(n)

(* A reply to a read of n.                                                 *)
DataReply(m, n) == IsReply(m) /\ m.request.kind = "data" /\ m.request.node = n

(* A reply that is not what Zookeeper has any more is followed by the      *)
(* event that says so.                                                     *)
Follows(d, i, n) ==
  \/ inbox[d][i].found = node[n] /\ n \in watches[d]
  \/ EventAfter(d, i, n)
StaleInv ==
  \A n \in Lasting, d \in Clients : \A i \in DOMAIN inbox[d] : DataReply(inbox[d][i], n) => Follows(d, i, n)

(* At first there are no replies.                                          *)
LEMMA StaleInit == OdinInit => StaleInv
<1> SUFFICES ASSUME OdinInit PROVE StaleInv
  OBVIOUS
<1>1. \A d \in Clients : inbox[d] = <<>>
  BY DEF OdinInit
<1> QED
  BY <1>1 DEF StaleInv

(* A change keeps StaleInv: what is watched is followed by an event.       *)
LEMMA WriteStale ==
  ASSUME TypeInv, NodeInv, StaleInv, NEW n \in Writable \cup Alterable, Write(n)
  PROVE  StaleInv'
<1> SUFFICES ASSUME NEW a \in Lasting', NEW d \in Clients, NEW i \in DOMAIN inbox'[d], DataReply(inbox'[d][i], a)
             PROVE  Follows(d, i, a)'
  BY DEF StaleInv
<1>1. PICK told \in Seq(Events) : inbox'[d] = inbox[d] \o told /\ (n \in watches[d] => Event(n) \in Elems(told))
  BY WriteDoes
<1>2. /\ watches' = [c \in Clients |-> watches[c] \ {n}]
      /\ \A b \in Nodes : b # n => node'[b] = node[b]
      /\ altered \subseteq altered'
  BY WriteDoes
<1>3. a \in Lasting /\ a \in Nodes
  BY <1>2, LeavesAre DEF Lasting
<1> DEFINE s == inbox[d]
           t == s \o told
<1>4. told \in Seq(Messages)
  <2>1. Events \subseteq Messages
    BY DEF Messages
  <2> QED
    BY <2>1, SeqOfMore
<1>5. \A j \in DOMAIN told : ~IsReply(told[j])
  <2>1. \A j \in DOMAIN told : told[j] \in Events
    OBVIOUS
  <2> QED
    BY <2>1 DEF Events, Event, IsReply
<1>6. s \in Seq(Messages)
  BY QueuesAre
<1>7. /\ \A j \in DOMAIN s : j \in DOMAIN t /\ t[j] = s[j] /\ j \in Nat /\ j <= Len(s)
      /\ \A j \in DOMAIN told : j + Len(s) \in DOMAIN t /\ t[j + Len(s)] = told[j] /\ j \in Nat /\ j > 0
      /\ \A j \in DOMAIN t : j \notin DOMAIN s => j - Len(s) \in DOMAIN told /\ t[j] = told[j - Len(s)]
      /\ Len(s) \in Nat
  <2>1. DOMAIN s = 1..Len(s) /\ DOMAIN told = 1..Len(told) /\ Len(s) \in Nat
    BY <1>4, <1>6, ConcatDoes
  <2>2. /\ \A j \in DOMAIN s : j \in DOMAIN t /\ t[j] = s[j]
        /\ \A j \in DOMAIN told : j + Len(s) \in DOMAIN t /\ t[j + Len(s)] = told[j]
        /\ \A j \in DOMAIN t : j \notin DOMAIN s => j - Len(s) \in DOMAIN told /\ t[j] = told[j - Len(s)]
    BY <1>4, <1>6, ConcatDoes
  <2> HIDE DEF s, t
  <2> QED
    BY <2>1, <2>2
<1>8. inbox'[d] = t
  BY <1>1
<1> HIDE DEF t
<1>9. i \in DOMAIN s
  BY <1>5, <1>7, <1>8 DEF DataReply
<1>10. DataReply(s[i], a)
  BY <1>7, <1>8, <1>9
<1>11. Follows(d, i, a)
  BY <1>3, <1>9, <1>10 DEF StaleInv
<1>12. CASE EventAfter(d, i, a)
  <2>1. EventAfter(d, i, a)'
    BY <1>7, <1>8, <1>12 DEF EventAfter
  <2> QED
    BY <2>1 DEF Follows
<1>13. CASE inbox[d][i].found = node[a] /\ a \in watches[d] /\ a # n
  <2>1. node'[a] = node[a] /\ a \in watches'[d] /\ inbox'[d][i] = inbox[d][i]
    BY <1>2, <1>3, <1>7, <1>8, <1>9, <1>13
  <2> QED
    BY <1>13, <2>1 DEF Follows
<1>14. CASE a \in watches[d] /\ a = n
  <2>1. PICK j \in DOMAIN told : told[j] = Event(a)
    BY <1>1, <1>14 DEF Elems
  <2>2. j + Len(s) \in DOMAIN t /\ t[j + Len(s)] = Event(a) /\ j + Len(s) > i
    BY <1>7, <1>9, <2>1
  <2>3. EventAfter(d, i, a)'
    BY <1>8, <2>2 DEF EventAfter
  <2> QED
    BY <2>3 DEF Follows
<1> QED
  BY <1>11, <1>12, <1>13, <1>14 DEF Follows

(* Serving keeps StaleInv: what is read is current, and watched.           *)
LEMMA ServeStale ==
  ASSUME TypeInv, NodeInv, StaleInv, NEW c \in Clients, Serve(c)
  PROVE  StaleInv'
<1> SUFFICES ASSUME NEW a \in Lasting', NEW d \in Clients, NEW i \in DOMAIN inbox'[d], DataReply(inbox'[d][i], a)
             PROVE  Follows(d, i, a)'
  BY DEF StaleInv
<1> DEFINE r == Head(asked[c])
<1>1. PICK found :
    /\ r \in Requests /\ Reply(r, found) \in Messages
    /\ inbox' = [inbox EXCEPT ![c] = Append(inbox[c], Reply(r, found))]
    /\ r.kind = "data" => found = node[r.node] /\ (found # 0 => r.node \in watches'[c])
    /\ \A x \in Clients : watches[x] \subseteq watches'[x]
    /\ UNCHANGED <<node, altered>>
  BY ServeDoes
<1>2. inbox \in [Clients -> Seq(Messages)]
  BY DEF TypeInv
<1>3. a \in Lasting /\ a \in Nodes /\ node[a] # 0
  BY <1>1, LeavesAre DEF Lasting, NodeInv
<1> DEFINE e == Reply(r, found)
           s == inbox[c]
           t == Append(s, e)
           n == Len(s) + 1
<1>4. e.request = r /\ e.found = found
  BY DEF Reply
<1>5. /\ \A j \in DOMAIN s : j \in DOMAIN t /\ t[j] = s[j]
      /\ \A j \in DOMAIN t : j \in DOMAIN s \/ j = n
      /\ t[n] = e
  <2>1. s \in Seq(Messages) /\ e \in Messages
    BY <1>1, <1>2
  <2>2. DOMAIN t = 1..n /\ DOMAIN s = 1..Len(s) /\ Len(s) \in Nat
    BY <2>1, AppendDoes
  <2>3. \A j \in DOMAIN s : t[j] = s[j]
    BY <2>1, AppendDoes
  <2>4. t[n] = e
    BY <2>1, AppendDoes
  <2> HIDE DEF s, t, e
  <2> QED
    BY <2>2, <2>3, <2>4
<1>6. inbox' = [inbox EXCEPT ![c] = t]
  BY <1>1
<1> HIDE DEF e, t, n, r
<1>7. (d = c => inbox'[d] = t) /\ (d # c => inbox'[d] = inbox[d])
  BY <1>2, <1>6
<1>8. \A j \in DOMAIN inbox[d] : j \in DOMAIN inbox'[d] /\ inbox'[d][j] = inbox[d][j]
  BY <1>5, <1>7
<1>9. CASE i \in DOMAIN inbox[d]
  <2>1. DataReply(inbox[d][i], a)
    BY <1>8, <1>9
  <2>2. Follows(d, i, a)
    BY <1>3, <1>9, <2>1 DEF StaleInv
  <2>3. CASE EventAfter(d, i, a)
    <3>1. EventAfter(d, i, a)'
      BY <1>8, <2>3 DEF EventAfter
    <3> QED
      BY <3>1 DEF Follows
  <2>4. CASE inbox[d][i].found = node[a] /\ a \in watches[d]
    BY <1>1, <1>8, <1>9, <2>4 DEF Follows
  <2> QED
    BY <2>2, <2>3, <2>4 DEF Follows
<1>10. CASE i \notin DOMAIN inbox[d]
  <2>1. d = c /\ inbox'[d][i] = e
    BY <1>5, <1>7, <1>10
  <2>2. r.kind = "data" /\ r.node = a
    BY <1>4, <2>1 DEF DataReply
  <2>3. found = node[a] /\ a \in watches'[d] /\ node' = node
    BY <1>1, <1>3, <2>1, <2>2
  <2> QED
    BY <1>4, <2>1, <2>3 DEF Follows
<1> QED
  BY <1>9, <1>10

(* Delivering keeps StaleInv: what follows a message stays behind it.      *)
LEMMA DeliverStale ==
  ASSUME TypeInv, StaleInv, NEW c \in Clients, Deliver(c)
  PROVE  StaleInv'
<1> SUFFICES ASSUME NEW a \in Lasting', NEW d \in Clients, NEW i \in DOMAIN inbox'[d], DataReply(inbox'[d][i], a)
             PROVE  Follows(d, i, a)'
  BY DEF StaleInv
<1> DEFINE s == inbox[c]
           t == Tail(s)
<1>1. inbox[c] # <<>> /\ inbox' = [inbox EXCEPT ![c] = t] /\ UNCHANGED <<node, altered, watches>>
  BY DeliverDoes
<1>2. inbox \in [Clients -> Seq(Messages)] /\ s \in Seq(Messages)
  BY DEF TypeInv
<1>3. a \in Lasting
  BY <1>1 DEF Lasting
<1>4. /\ \A j \in DOMAIN t : j \in Nat /\ j + 1 \in DOMAIN s /\ t[j] = s[j + 1]
      /\ \A j \in DOMAIN s : j \in Nat /\ (j = 1 \/ (j - 1 \in DOMAIN t /\ t[j - 1] = s[j]))
      /\ \A j \in DOMAIN t : j # 0
  <2>1. DOMAIN s = 1..Len(s) /\ DOMAIN t = 1..Len(t) /\ Len(s) \in Nat
    BY <1>1, <1>2, TailDoes
  <2> QED
    BY <1>1, <1>2, <2>1, TailDoes
<1> HIDE DEF t
<1>5. (d = c => inbox'[d] = t) /\ (d # c => inbox'[d] = inbox[d])
  BY <1>1, <1>2
<1>6. CASE d = c
  <2>1. i + 1 \in DOMAIN s /\ DataReply(s[i + 1], a) /\ i \in Nat /\ inbox'[d][i] = s[i + 1]
    BY <1>4, <1>5, <1>6
  <2>2. Follows(c, i + 1, a)
    BY <1>3, <2>1 DEF StaleInv
  <2>3. CASE EventAfter(c, i + 1, a)
    <3>1. PICK j \in DOMAIN s : j > i + 1 /\ s[j] = Event(a)
      BY <2>3 DEF EventAfter
    <3>2. j - 1 \in DOMAIN t /\ t[j - 1] = Event(a) /\ j - 1 > i
      BY <1>4, <2>1, <3>1
    <3>3. EventAfter(d, i, a)'
      BY <1>5, <1>6, <3>2 DEF EventAfter
    <3> QED
      BY <3>3 DEF Follows
  <2>4. CASE s[i + 1].found = node[a] /\ a \in watches[c]
    BY <1>1, <1>6, <2>1, <2>4 DEF Follows
  <2> QED
    BY <2>2, <2>3, <2>4 DEF Follows
<1>7. CASE d # c
  <2>1. inbox'[d] = inbox[d] /\ i \in DOMAIN inbox[d] /\ DataReply(inbox[d][i], a)
    BY <1>5, <1>7
  <2>2. Follows(d, i, a)
    BY <1>3, <2>1 DEF StaleInv
  <2> QED
    BY <1>1, <2>1, <2>2 DEF Follows, EventAfter
<1> QED
  BY <1>6, <1>7

(* A client that is lost has no replies left.                              *)
LEMMA LostStale ==
  ASSUME TypeInv, StaleInv, NEW c \in Clients, Disconnected(c) \/ Expired(c)
  PROVE  StaleInv'
<1> SUFFICES ASSUME NEW a \in Lasting', NEW d \in Clients, NEW i \in DOMAIN inbox'[d], DataReply(inbox'[d][i], a)
             PROVE  Follows(d, i, a)'
  BY DEF StaleInv
<1>1. UNCHANGED <<node, altered>>
  BY DEF Disconnected, Expired, zkVars
<1>2. \E s \in Seq(Messages) : inbox' = [inbox EXCEPT ![c] = s] /\ \A m \in Elems(s) : ~IsReply(m)
  <2>1. CASE Disconnected(c)
    BY <2>1, DisconnectedDoes DEF Lost
  <2>2. CASE Expired(c)
    <3>1. inbox' = [inbox EXCEPT ![c] = <<>>]
      BY <2>2, ExpiredDoes
    <3>2. <<>> \in Seq(Messages) /\ Elems(<<>>) = {}
      BY DEF Elems
    <3> QED
      BY <3>1, <3>2
  <2> QED
    BY <2>1, <2>2
<1>3. \A x \in Clients : x # c => watches'[x] = watches[x]
  <2>1. Disconnected(c) => watches' = watches
    BY DEF Disconnected, zkVars
  <2> QED
    BY <2>1, ExpiredDoes
<1>4. PICK s \in Seq(Messages) : inbox' = [inbox EXCEPT ![c] = s] /\ \A m \in Elems(s) : ~IsReply(m)
  BY <1>2
<1>5. (d = c => inbox'[d] = s) /\ (d # c => inbox'[d] = inbox[d])
  BY <1>4 DEF TypeInv
<1>6. d # c
  BY <1>4, <1>5 DEF DataReply, Elems
<1>7. a \in Lasting
  BY <1>1 DEF Lasting
<1>8. Follows(d, i, a)
  BY <1>5, <1>6, <1>7 DEF StaleInv
<1> QED
  BY <1>1, <1>3, <1>5, <1>6, <1>8 DEF Follows, EventAfter

(* Every step keeps StaleInv.                                              *)
LEMMA StaleStep ==
  ASSUME TypeInv, NodeInv, StaleInv, [OdinNext]_odinVars
  PROVE  StaleInv'
<1>1. UNCHANGED <<node, watches, inbox, altered>> => StaleInv'
  BY DEF StaleInv, Lasting, Follows, EventAfter
<1>2. UNCHANGED odinVars => UNCHANGED <<node, watches, inbox, altered>>
  BY DEF odinVars, zkVars, netVars
<1>3. ASSUME NEW c \in Clients, Connect(c) \/ Reconnect(c) \/ GiveUp(c) PROVE UNCHANGED <<node, watches, inbox, altered>>
  BY <1>3, ConnectDoes, ReconnectTypes, GiveUpDoes
<1> QED
  BY <1>1, <1>2, <1>3, WriteStale, ServeStale, DeliverStale, LostStale DEF OdinNext, ClientStep
-----------------------------------------------------------------------------
(* Nothing that the properties have read is lost.                          *)
LEMMA ReadKept ==
  ASSUME TypeInv, [OdinNext]_odinVars, NEW n \in Leaves, ReadOf(n)
  PROVE  ReadOf(n)'
<1>1. CASE props' = props
  BY <1>1 DEF ReadOf
<1>2. UNCHANGED odinVars => props' = props
  BY DEF odinVars, processVars
<1>3. ASSUME NEW a \in Writable \cup Alterable, Write(a) PROVE props' = props
  BY <1>3 DEF Write, processVars
<1>4. ASSUME NEW c \in Clients, Serve(c) \/ Connect(c) \/ Reconnect(c) \/ Disconnected(c) \/ GiveUp(c) \/ Expired(c)
      PROVE  props' = props
  BY <1>4, ServeDoes, ConnectDoes, ReconnectTypes, GiveUpDoes, ExpiredDoes DEF Disconnected
<1>5. ASSUME NEW c \in Clients, Deliver(c) PROVE ReadOf(n)'
  <2> DEFINE m == Head(inbox[c])
  <2>1. /\ m \in Messages /\ node' = node
        /\ Told(m) \/ Listed(m) \/ Read(m) \/ Reread(m) \/ Missed(m)
    BY <1>5, DeliverDoes
  <2> HIDE DEF m
  <2>2. CASE Read(m) \/ Reread(m)
    <3>1. /\ m.request.node \in Nodes /\ m.found \in Versions /\ m.found # 0
          /\ SetDynamicProps(m.request.node, m.found)
      BY <2>1, <2>2, MessageIs, RequestIs DEF Read, Reread
    <3> QED
      BY <2>1, <3>1, SetDoes
  <2>3. CASE Told(m) \/ Listed(m) \/ Missed(m)
    BY <1>1, <2>3 DEF Told, Listed, Missed
  <2> QED
    BY <2>1, <2>2, <2>3
<1> QED
  BY <1>1, <1>2, <1>3, <1>4, <1>5 DEF OdinNext, ClientStep

(* The steps that go on with no load neither end one nor undo a mishap.    *)
LEMMA StillSettles ==
  ASSUME TypeInv
  PROVE  /\ UNCHANGED odinVars => started' \in {started, "failed"} /\ mishaps \subseteq mishaps'
         /\ \A n \in Writable \cup Alterable : Write(n) => started' \in {started, "failed"} /\ mishaps \subseteq mishaps'
         /\ \A c \in Clients :
              Serve(c) \/ Reconnect(c) \/ Disconnected(c) \/ GiveUp(c) \/ Expired(c) =>
                started' \in {started, "failed"} /\ mishaps \subseteq mishaps'
         /\ \A c \in Clients : Deliver(c) /\ (Told(Head(inbox[c])) \/ Reread(Head(inbox[c])) \/ Missed(Head(inbox[c]))) =>
              started' \in {started, "failed"} /\ mishaps \subseteq mishaps'
<1>1. UNCHANGED odinVars => started' \in {started, "failed"} /\ mishaps \subseteq mishaps'
  BY DEF odinVars, processVars
<1>2. ASSUME NEW n \in Writable \cup Alterable, Write(n) PROVE started' \in {started, "failed"} /\ mishaps \subseteq mishaps'
  BY <1>2 DEF Write, processVars
<1>3. ASSUME NEW c \in Clients, Serve(c) \/ Reconnect(c) \/ Disconnected(c) \/ GiveUp(c) \/ Expired(c)
      PROVE  started' \in {started, "failed"} /\ mishaps \subseteq mishaps'
  BY <1>3, ServeDoes, ReconnectTypes, GiveUpDoes, ExpiredDoes DEF Disconnected
<1>4. ASSUME NEW c \in Clients, Deliver(c), Told(Head(inbox[c])) \/ Reread(Head(inbox[c])) \/ Missed(Head(inbox[c]))
      PROVE  started' \in {started, "failed"} /\ mishaps \subseteq mishaps'
  <2> DEFINE m == Head(inbox[c])
  <2>1. m \in Messages
    BY <1>4, DeliverDoes
  <2> HIDE DEF m
  <2>2. ASSUME Missed(m) PROVE started' \in {started, "failed"} /\ mishaps \subseteq mishaps'
    <3>1. {m.request} \in SUBSET Requests /\ ReadsFailed({m.request})
      BY <2>1, <2>2, MessageIs DEF Missed
    <3> QED
      BY <3>1, ReadsFailedDoes
  <2>3. ASSUME Told(m) \/ Reread(m) PROVE started' \in {started, "failed"} /\ mishaps \subseteq mishaps'
    BY <2>3 DEF Told, Reread
  <2> QED
    BY <1>4, <2>2, <2>3 DEF m
<1> QED
  BY <1>1, <1>2, <1>3, <1>4

(* What a load has before it after the reply m is left of it.              *)
LEMMA ReplyRest ==
  ASSUME TypeInv, TreeInv, NodeInv, NEW c \in Clients, Deliver(c), NEW m, m = Head(inbox[c]),
         NEW n \in Lasting, Later(m.request, n)
  PROVE  /\ Listed(m) => Rest(n, m.request.node[1], m.found)
         /\ Read(m) => Rest(n, load[m.request.load].tree, load[m.request.load].leaves)
<1>1. m \in Elems(inbox[c]) /\ m \in Messages
  BY DeliverTakes, DeliverDoes
<1>2. n \in Leaves /\ n[2] \in Keys \ altered /\ n \in Initial /\ n = <<n[1], n[2]>>
  BY LeavesAre DEF Lasting
<1>3. ASSUME Listed(m) PROVE Rest(n, m.request.node[1], m.found)
  <2>1. CASE n[1] = m.request.node[1]
    <3>1. Truthful(m)
      BY <1>1 DEF NodeInv
    <3>2. n[2] \in m.found
      BY <1>2, <1>3, <2>1, <3>1 DEF Truthful, Listed
    <3> QED
      BY <2>1, <3>2 DEF Rest
  <2>2. CASE m.request.node[1] = "base" /\ n[1] = "service"
    BY <2>2 DEF Rest
  <2> QED
    BY <1>3, <2>1, <2>2 DEF Later, Listed
<1>4. ASSUME Read(m) PROVE Rest(n, load[m.request.load].tree, load[m.request.load].leaves)
  <2>1. IsReply(m) /\ m.request.kind = "data" /\ m.request.load \in Clients
    BY <1>4 DEF Read
  <2>2. m.request \in Requests /\ Owes(c, m.request)
    BY <1>1, <2>1, MessageIs DEF Owes
  <2>3. load[m.request.load].tree = m.request.node[1]
    BY <2>1, <2>2, ClientsAre DEF TreeInv
  <2> QED
    BY <2>1, <2>3 DEF Later, Rest
<1> QED
  BY <1>3, <1>4

(* What the first load has behind it has been read; what it reads, or has  *)
(* before it, is Ahead.                                                    *)
Ahead(r, n) == r.node = n \/ Later(r, n)
ReadInv ==
  "cut" \notin mishaps =>
    \A n \in Lasting :
      /\ started = "ready" => ReadOf(n)
      /\ \A d \in Clients, r \in Requests : Owes(d, r) /\ r.load = 1 => ReadOf(n) \/ Ahead(r, n)

(* At first nothing is started.                                            *)
LEMMA ReadInit == OdinInit => ReadInv
  BY NothingOwed DEF OdinInit, ReadInv

(* Every step keeps ReadInv.                                               *)
LEMMA ReadStep ==
  ASSUME TypeInv, OriginInv, SingleInv, TreeInv, NodeInv, ReadInv, [OdinNext]_odinVars
  PROVE  ReadInv'
<1>1. /\ \A n \in Leaves : ReadOf(n) => ReadOf(n)'
      /\ Lasting' \subseteq Lasting /\ \A n \in Lasting : n \in Leaves
  BY ReadKept, LastingAre
<1>2. 1 \in Clients
  BY ClientsAre
<1>3. ASSUME Still, started' \in {started, "failed"}, mishaps \subseteq mishaps' PROVE ReadInv'
  <2>1. \A r, n : r.load = 1 /\ Ahead(r, n) => Ahead(r, n)'
    BY <1>2, <1>3 DEF Still, Ahead, Later
  <2>2. \A d \in Clients, r \in Requests : Owes(d, r)' /\ r.load = 1 => Owes(d, r)
    BY <1>3 DEF Still
  <2> QED
    BY <1>1, <1>3, <2>1, <2>2 DEF ReadInv
<1>4. ASSUME NEW l \in Clients, NEW tree, NEW leaves, GoesOn(l, tree, leaves),
             \A n \in Lasting : l = 1 /\ "cut" \notin mishaps => ReadOf(n)' \/ Rest(n, tree, leaves)
      PROVE  ReadInv'
  <2>1. CASE l # 1
    <3>1. load'[1] = load[1] /\ started' = started /\ mishaps' = mishaps
          /\ \A d \in Clients, r \in Requests : Owes(d, r)' /\ r.load = 1 => Owes(d, r)
      BY <1>2, <1>4, <2>1 DEF GoesOn
    <3>2. \A r, n : r.load = 1 /\ Ahead(r, n) => Ahead(r, n)'
      BY <3>1 DEF Ahead, Later
    <3> QED
      BY <1>1, <3>1, <3>2 DEF ReadInv
  <2>2. CASE l = 1
    <3> SUFFICES ASSUME "cut" \notin mishaps', NEW n \in Lasting'
                 PROVE  /\ started' = "ready" => ReadOf(n)'
                        /\ \A d \in Clients, r \in Requests : Owes(d, r)' /\ r.load = 1 => ReadOf(n)' \/ Ahead(r, n)'
      BY DEF ReadInv
    <3>1. "cut" \notin mishaps /\ n \in Lasting /\ n \in Leaves
      BY <1>1, <1>4, <2>2 DEF GoesOn
    <3>2. ReadOf(n)' \/ Rest(n, tree, leaves)
      BY <1>4, <2>2, <3>1
    <3>3. CASE started' = started /\ \E r : Continues(l, tree, leaves, r)
               /\ \A d \in Clients, q \in Requests : Owes(d, q)' /\ q.load = l => q = r
      <4>1. Rest(n, tree, leaves) => \A d \in Clients, q \in Requests : Owes(d, q)' /\ q.load = 1 => Ahead(q, n)'
        BY <2>2, <3>1, <3>3 DEF Continues, Ahead
      <4>2. started' = "ready" => ReadOf(n)'
        BY <1>1, <3>1, <3>3 DEF ReadInv
      <4> QED
        BY <3>2, <4>1, <4>2
    <3>4. CASE /\ \A d \in Clients, q \in Requests : ~(Owes(d, q)' /\ q.load = l)
               /\ \A a \in Leaves : ~Rest(a, tree, leaves)
      BY <2>2, <3>1, <3>2, <3>4
    <3>5. CASE mishaps' = mishaps \cup {"cut"}
      BY <3>5
    <3> QED
      BY <1>4, <2>2, <3>3, <3>4, <3>5 DEF GoesOn
  <2> QED
    BY <2>1, <2>2
<1>5. ASSUME NEW c \in Clients, Deliver(c) PROVE ReadInv'
  <2> DEFINE m == Head(inbox[c])
  <2>1. /\ m \in Messages /\ node' = node
        /\ Told(m) \/ Listed(m) \/ Read(m) \/ Reread(m) \/ Missed(m)
    BY <1>5, DeliverDoes
  <2>2. CASE Told(m) \/ Reread(m) \/ Missed(m)
    BY <1>3, <1>5, <2>2, StillSteps, StillSettles
  <2>3. m \in Elems(inbox[c])
    BY <1>5, DeliverTakes
  <2>4. /\ Listed(m) => GoesOn(m.request.load, m.request.node[1], m.found)
        /\ Read(m) => GoesOn(m.request.load, load[m.request.load].tree, load[m.request.load].leaves)
        /\ \A n \in Lasting : Later(m.request, n) =>
             /\ Listed(m) => Rest(n, m.request.node[1], m.found)
             /\ Read(m) => Rest(n, load[m.request.load].tree, load[m.request.load].leaves)
    BY <1>5, ReplyGoesOn, ReplyRest
  <2> HIDE DEF m
  <2>5. ASSUME Listed(m) \/ Read(m), m.request.load = 1, "cut" \notin mishaps, NEW n \in Lasting
        PROVE  ReadOf(n)' \/ m.request.node = n \/ Later(m.request, n)
    <3>1. m.request \in Requests /\ Owes(c, m.request)
      BY <2>1, <2>3, <2>5, MessageIs DEF Owes, Listed, Read
    <3> QED
      BY <1>1, <2>5, <3>1 DEF ReadInv, Ahead
  <2>6. CASE Listed(m)
    <3>1. m.request.load \in Clients /\ m.request \in Requests /\ m.request.kind = "list"
      BY <2>1, <2>6, MessageIs DEF Listed
    <3>2. \A n \in Lasting : m.request.node # n
      BY <1>1, <3>1, RequestIs, LeavesAre
    <3>3. \A n \in Lasting : m.request.load = 1 /\ "cut" \notin mishaps =>
            ReadOf(n)' \/ Rest(n, m.request.node[1], m.found)
      BY <2>4, <2>5, <2>6, <3>2
    <3> QED
      BY <1>4, <2>4, <2>6, <3>1, <3>3
  <2>7. CASE Read(m)
    <3>1. m.request.load \in Clients /\ m.request.node \in Nodes /\ m.found \in Versions /\ m.found # 0
          /\ SetDynamicProps(m.request.node, m.found)
      BY <2>1, <2>7, MessageIs, RequestIs DEF Read
    <3>2. \A n \in Leaves : n = m.request.node => ReadOf(n)'
      BY <2>1, <3>1, SetDoes
    <3>3. \A n \in Lasting : m.request.load = 1 /\ "cut" \notin mishaps =>
            ReadOf(n)' \/ Rest(n, load[m.request.load].tree, load[m.request.load].leaves)
      BY <1>1, <2>4, <2>5, <2>7, <3>2
    <3> QED
      BY <1>4, <2>4, <2>7, <3>1, <3>3
  <2> QED
    BY <2>1, <2>2, <2>6, <2>7
<1>6. ASSUME NEW c \in Clients, Connect(c) PROVE ReadInv'
  <2> DEFINE r == ListOf(c, "base")
  <2>1. /\ \A d \in Clients, q \in Requests : Owes(d, q)' => Owes(d, q) \/ q = r
        /\ r \in Requests /\ r.kind = "list" /\ r.load = c /\ r.node = <<"base", Root>>
    BY <1>6, ConnectOwes, RequestsMade DEF Trees
  <2>2. /\ status[c] = "connecting" /\ \A d \in Clients : d # c => load'[d] = load[d]
        /\ UNCHANGED <<started, mishaps>>
    BY <1>6, ConnectDoes
  <2> HIDE DEF r
  <2>3. \A n \in Leaves : Ahead(r, n)'
    <3>1. \A n \in Leaves : n[1] = "base" \/ n[1] = "service"
      BY LeavesAre DEF Trees
    <3> QED
      BY <2>1, <3>1 DEF Ahead, Later
  <2>4. ASSUME NEW d \in Clients, NEW q \in Requests, Owes(d, q), q.load = 1 PROVE c # 1
    BY <2>2, <2>4 DEF OriginInv, Origin
  <2>5. \A q, n : q.load = 1 /\ c # 1 /\ Ahead(q, n) => Ahead(q, n)'
    BY <1>2, <2>2 DEF Ahead, Later
  <2> SUFFICES ASSUME "cut" \notin mishaps', NEW n \in Lasting'
               PROVE  /\ started' = "ready" => ReadOf(n)'
                      /\ \A d \in Clients, q \in Requests : Owes(d, q)' /\ q.load = 1 => ReadOf(n)' \/ Ahead(q, n)'
    BY DEF ReadInv
  <2>6. n \in Lasting /\ n \in Leaves /\ "cut" \notin mishaps
    BY <1>1, <2>2
  <2> QED
    BY <1>1, <2>1, <2>2, <2>3, <2>4, <2>5, <2>6 DEF ReadInv
<1>7. UNCHANGED odinVars => ReadInv'
  BY <1>3, StillSteps, StillSettles
<1>8. ASSUME NEW n \in Writable \cup Alterable, Write(n) PROVE ReadInv'
  BY <1>3, <1>8, StillSteps, StillSettles
<1>9. ASSUME NEW c \in Clients, Serve(c) \/ Reconnect(c) \/ Disconnected(c) \/ GiveUp(c) \/ Expired(c) PROVE ReadInv'
  BY <1>3, <1>9, StillSteps, StillSettles
<1> QED
  BY <1>5, <1>6, <1>7, <1>8, <1>9 DEF OdinNext, ClientStep
-----------------------------------------------------------------------------
(* n is asked for, or will be by the load of the newest client.            *)
Coming(n) ==
  \/ \E r \in Elems(asked[current]) : r.kind = "data" /\ r.node = n
  \/ \E r \in Requests : Owes(current, r) /\ r.load = current /\ Later(r, n)

(* A change of n is on its way to some client.                             *)
Announced(n) == \E d \in Clients : Event(n) \in Elems(inbox[d])

(* What n is now is on its way to the newest client.                       *)
Answered(n) == \E m \in Elems(inbox[current]) : DataReply(m, n) /\ m.found = node[n]

(* The newest client watches n, and has or is being told what it is now.   *)
Held(n) == n \in watches[current] /\ (Fresh(n) \/ Answered(n))

(* The value of n is on its way, or it is what the properties have and the *)
(* newest client watches it.                                               *)
Live(n) == status[current] = "connecting" \/ Coming(n) \/ Announced(n) \/ Held(n)
LiveInv == "aborted" \notin mishaps => \A n \in Lasting : Live(n)

(* At first the newest client is being connected.                          *)
LEMMA LiveInit == OdinInit => LiveInv
  BY ClientsAre DEF OdinInit, LiveInv, Live

(* Where the newest client is the same and nothing it has is lost.         *)
LEMMA LiveKept ==
  ASSUME TypeInv, NEW n \in Lasting, Live(n),
         UNCHANGED <<current, node, props>>,
         status[current] = "connecting" => status'[current] = "connecting",
         \A r \in Elems(asked[current]) : r \in Elems(asked'[current]),
         \A r \in Requests : r.load = current /\ Owes(current, r) => Owes(current, r)',
         load'[current].leaves = load[current].leaves,
         \A d \in Clients : \A m \in Elems(inbox[d]) : ~IsReply(m) \/ d = current => m \in Elems(inbox'[d]),
         watches[current] \subseteq watches'[current]
  PROVE  Live(n)'
<1>0. current \in Clients
  BY DEF TypeInv
<1>1. CASE status[current] = "connecting"
  BY <1>1 DEF Live
<1>2. CASE Coming(n)
  <2>1. \A r : r.load = current /\ Later(r, n) => Later(r, n)'
    BY DEF Later
  <2>2. Coming(n)'
    BY <1>2, <2>1 DEF Coming
  <2> QED
    BY <2>2 DEF Live
<1>3. CASE Announced(n)
  <2>1. ~IsReply(Event(n))
    BY DEF IsReply, Event
  <2>2. Announced(n)'
    BY <1>3, <2>1 DEF Announced
  <2> QED
    BY <2>2 DEF Live
<1>4. CASE Held(n)
  <2>1. Answered(n) => Answered(n)'
    BY <1>0 DEF Answered, DataReply
  <2>2. Fresh(n) => Fresh(n)'
    BY DEF Fresh
  <2>3. Held(n)'
    BY <1>4, <2>1, <2>2 DEF Held
  <2> QED
    BY <2>3 DEF Live
<1> QED
  BY <1>1, <1>2, <1>3, <1>4 DEF Live

(* A change keeps a node Live: a watch of it fires, on any client.         *)
LEMMA WriteLive ==
  ASSUME TypeInv, NEW a \in Writable \cup Alterable, Write(a), NEW n \in Lasting, n \in Nodes, Live(n)
  PROVE  Live(n)'
<1>1. current \in Clients
  BY DEF TypeInv
<1>2. UNCHANGED <<status, asked, current, load, props>>
  BY DEF Write, processVars
<1>3. \A d \in Clients : /\ \A m \in Elems(inbox[d]) : m \in Elems(inbox'[d])
                         /\ a \in watches[d] => Event(a) \in Elems(inbox'[d])
  BY WriteAdds
<1>4. watches' = [c \in Clients |-> watches[c] \ {a}] /\ \A b \in Nodes : b # a => node'[b] = node[b]
  BY WriteDoes
<1>5. \A r \in Requests : Owes(current, r) => Owes(current, r)'
  BY <1>1, <1>2, WriteOwes
<1>6. CASE Coming(n)
  <2>1. \A r : Later(r, n) => Later(r, n)'
    BY <1>2 DEF Later
  <2>2. Coming(n)'
    BY <1>2, <1>5, <1>6, <2>1 DEF Coming
  <2> QED
    BY <2>2 DEF Live
<1>7. CASE Announced(n)
  <2>1. Announced(n)'
    BY <1>3, <1>7 DEF Announced
  <2> QED
    BY <2>1 DEF Live
<1>8. CASE Held(n) /\ n = a
  <2>1. Announced(n)'
    BY <1>1, <1>3, <1>8 DEF Announced, Held
  <2> QED
    BY <2>1 DEF Live
<1>9. CASE Held(n) /\ n # a
  <2>1. n \in watches'[current] /\ node'[n] = node[n]
    BY <1>1, <1>4, <1>9 DEF Held
  <2>2. Fresh(n) => Fresh(n)'
    BY <1>2, <2>1 DEF Fresh
  <2>3. Answered(n) => Answered(n)'
    BY <1>1, <1>2, <1>3, <2>1 DEF Answered, DataReply
  <2>4. Held(n)'
    BY <1>2, <1>9, <2>1, <2>2, <2>3 DEF Held
  <2> QED
    BY <2>4 DEF Live
<1>10. CASE status[current] = "connecting"
  BY <1>2, <1>10 DEF Live
<1> QED
  BY <1>6, <1>7, <1>8, <1>9, <1>10 DEF Live

(* Serving keeps a node Live: a reply of what it is now is on its way.     *)
LEMMA ServeLive ==
  ASSUME TypeInv, NEW c \in Clients, Serve(c), NEW n \in Lasting, node[n] # 0, Live(n)
  PROVE  Live(n)'
<1> DEFINE r == Head(asked[c])
<1>1. current \in Clients /\ UNCHANGED <<status, current, load, props, node>>
  BY ServeDoes DEF TypeInv
<1>2. watches[current] \subseteq watches'[current]
  BY <1>1, ServeDoes
<1>3. \A d \in Clients : \A m \in Elems(inbox[d]) : m \in Elems(inbox'[d])
  BY ServeMoves
<1>4. \A q \in Requests : Owes(current, q) => Owes(current, q)'
  BY <1>1, ServeOwes
<1>5. CASE \A q \in Elems(asked[current]) : q \in Elems(asked'[current])
  BY <1>1, <1>2, <1>3, <1>4, <1>5, LiveKept
<1>6. CASE \E q \in Elems(asked[current]) : q \notin Elems(asked'[current])
  <2>1. PICK found :
           /\ IsReply(Reply(r, found)) /\ Reply(r, found).request = r /\ Reply(r, found).found = found
           /\ Elems(inbox'[current]) = IF current = c THEN Elems(inbox[current]) \cup {Reply(r, found)} ELSE Elems(inbox[current])
           /\ current # c => Elems(asked'[current]) = Elems(asked[current])
           /\ current = c => Elems(asked[current]) = Elems(asked'[current]) \cup {r}
           /\ r.kind = "data" => found = node[r.node] /\ (found # 0 => r.node \in watches'[c])
    BY <1>1, ServeMoves
  <2>2. current = c /\ \A q \in Elems(asked[current]) : q \in Elems(asked'[current]) \/ q = r
    BY <1>6, <2>1
  <2> DEFINE e == Reply(r, found)
  <2>3. e \in Elems(inbox'[current]) /\ IsReply(e) /\ e.request = r /\ e.found = found
    BY <2>1, <2>2
  <2> HIDE DEF e, r
  <2>4. CASE r.kind = "data" /\ r.node = n
    <3>1. found = node'[n] /\ n \in watches'[current]
      BY <1>1, <2>1, <2>2, <2>4
    <3>2. Answered(n)'
      BY <1>1, <2>3, <2>4, <3>1 DEF Answered, DataReply
    <3>3. Held(n)'
      BY <1>1, <3>1, <3>2 DEF Held
    <3> QED
      BY <3>3 DEF Live
  <2>5. CASE ~(r.kind = "data" /\ r.node = n)
    <3>1. CASE Coming(n)
      <4>1. \A q : Later(q, n) => Later(q, n)'
        BY <1>1 DEF Later
      <4>2. Coming(n)'
        BY <1>1, <1>4, <2>2, <2>5, <3>1, <4>1 DEF Coming
      <4> QED
        BY <4>2 DEF Live
    <3>2. CASE Announced(n)
      <4>1. Announced(n)'
        BY <1>3, <3>2 DEF Announced
      <4> QED
        BY <4>1 DEF Live
    <3>3. CASE Held(n)
      <4>1. Fresh(n) => Fresh(n)'
        BY <1>1 DEF Fresh
      <4>2. Answered(n) => Answered(n)'
        BY <1>1, <1>3 DEF Answered, DataReply
      <4>3. Held(n)'
        BY <1>1, <1>2, <3>3, <4>1, <4>2 DEF Held
      <4> QED
        BY <4>3 DEF Live
    <3>4. CASE status[current] = "connecting"
      BY <1>1, <3>4 DEF Live
    <3> QED
      BY <3>1, <3>2, <3>3, <3>4 DEF Live
  <2> QED
    BY <2>4, <2>5
<1> QED
  BY <1>5, <1>6

(* A client connects: the newest one has everything before it.             *)
LEMMA ConnectLive ==
  ASSUME TypeInv, NEW c \in Clients, Connect(c), NEW n \in Lasting, n \in Leaves, Live(n)
  PROVE  Live(n)'
<1>1. current \in Clients /\ UNCHANGED <<node, watches, inbox, current, props>>
  BY ConnectDoes DEF TypeInv
<1>2. /\ status' = [status EXCEPT ![c] = "up"] /\ \A d \in Clients : d # c => load'[d] = load[d]
      /\ \A q \in Requests : Owes(current, q) => Owes(current, q)'
      /\ \A q \in Elems(asked[current]) : q \in Elems(asked'[current])
  BY <1>1, ConnectDoes, ConnectOwes
<1>3. CASE c # current
  <2>1. load'[current] = load[current] /\ status'[current] = status[current]
    BY <1>1, <1>2, <1>3 DEF TypeInv
  <2> QED
    BY <1>1, <1>2, <2>1, LiveKept
<1>4. CASE c = current
  <2> DEFINE r == ListOf(c, "base")
  <2>1. Owes(current, r)' /\ r \in Requests /\ r.kind = "list" /\ r.node = <<"base", Root>> /\ r.load = current
    BY <1>4, ConnectOwes, RequestsMade DEF Trees
  <2> HIDE DEF r
  <2>2. n[1] = "base" \/ n[1] = "service"
    BY LeavesAre DEF Trees
  <2>3. Later(r, n)'
    BY <2>1, <2>2 DEF Later
  <2>4. Coming(n)'
    BY <1>1, <2>1, <2>3 DEF Coming
  <2> QED
    BY <2>4 DEF Live
<1> QED
  BY <1>3, <1>4

(* A request of the load whose reply comes first is the one it answers.    *)
LEMMA SoleOwed ==
  ASSUME TypeInv, SingleInv, NEW c \in Clients, inbox[c] # <<>>, IsReply(Head(inbox[c])),
         NEW l \in Clients, Head(inbox[c]).request.load = l,
         NEW d \in Clients, NEW q, Owes(d, q), q.load = l
  PROVE  d = c /\ q = Head(inbox[c]).request
<1>1. AnsweredAt(c, 1, l) /\ Head(inbox[c]) = inbox[c][1]
  BY AtFirst, QueuesAre, TailDoes
<1>2. Once(l)
  BY DEF SingleInv
<1>3. q \notin Elems(asked[d])
  BY <1>1, <1>2 DEF Once, Elems, AskedAt
<1>4. PICK i \in DOMAIN inbox[d] : IsReply(inbox[d][i]) /\ inbox[d][i].request = q
  BY <1>3 DEF Owes, Elems
<1>5. AnsweredAt(d, i, l)
  BY <1>4 DEF AnsweredAt
<1>6. d = c /\ i = 1
  BY <1>1, <1>2, <1>5 DEF Once
<1> QED
  BY <1>1, <1>4, <1>6

(* A delivered value of n that Zookeeper does not have any more is         *)
(* followed by the event that says so.                                     *)
LEMMA FirstIsFresh ==
  ASSUME TypeInv, StaleInv, NEW c \in Clients, Deliver(c), NEW n \in Lasting, DataReply(Head(inbox[c]), n)
  PROVE  Head(inbox[c]).found = node[n] \/ Event(n) \in Elems(inbox'[c])
<1>1. inbox[c] # <<>> /\ inbox' = [inbox EXCEPT ![c] = Tail(inbox[c])]
  BY DeliverDoes
<1>2. Head(inbox[c]) = inbox[c][1] /\ 1 \in DOMAIN inbox[c]
  BY <1>1, QueuesAre, TailDoes
<1>3. Follows(c, 1, n)
  BY <1>2 DEF StaleInv
<1>4. ASSUME EventAfter(c, 1, n) PROVE Event(n) \in Elems(inbox'[c])
  <2> DEFINE t == Tail(inbox[c])
  <2>1. PICK j \in DOMAIN inbox[c] : j > 1 /\ inbox[c][j] = Event(n)
    BY <1>4 DEF EventAfter
  <2>2. \A k \in DOMAIN inbox[c] : k = 1 \/ (k - 1 \in DOMAIN t /\ t[k - 1] = inbox[c][k])
    BY <1>1, QueuesAre, TailDoes
  <2>3. inbox' = [inbox EXCEPT ![c] = t]
    BY <1>1
  <2> HIDE DEF t
  <2>4. inbox'[c] = t
    BY <2>3 DEF TypeInv
  <2>5. j # 1
    BY <2>1
  <2> QED
    BY <2>1, <2>2, <2>4, <2>5 DEF Elems
<1> QED
  BY <1>2, <1>3, <1>4 DEF Follows

(* What the newest client has before it stays before it.                   *)
LEMMA DeliverComing ==
  ASSUME TypeInv, StatusInv, SingleInv, TreeInv, NodeInv, NEW c \in Clients, Deliver(c),
         "aborted" \notin mishaps', NEW n \in Lasting, n \in Leaves, Coming(n)
  PROVE  Coming(n)'
<1> DEFINE m == Head(inbox[c])
<1>1. /\ status[c] = "up" /\ inbox[c] # <<>> /\ m \in Messages
      /\ current' = current /\ current \in Clients
      /\ Told(m) \/ Listed(m) \/ Read(m) \/ Reread(m) \/ Missed(m)
  BY DeliverDoes DEF TypeInv
<1>2. \A q \in Elems(asked[current]) : q \in Elems(asked'[current])
  <2>1. asked' = asked \/ \E r \in Requests : asked' = [asked EXCEPT ![current] = Append(asked[current], r)]
    BY DeliverAsks DEF Asking
  <2> QED
    BY <1>1, <2>1, AskAdds
<1>3. CASE \E q \in Elems(asked[current]) : q.kind = "data" /\ q.node = n
  BY <1>1, <1>2, <1>3 DEF Coming
<1>4. ASSUME NEW r \in Requests, Owes(current, r), r.load = current, Later(r, n) PROVE Coming(n)'
  <2>1. Owes(current, r)' \/ (IsReply(m) /\ r = m.request)
    BY <1>1, <1>4, DeliverOwes
  <2>2. CASE Owes(current, r)' /\ load'[current].leaves = load[current].leaves
    <3>1. Later(r, n)'
      BY <1>4, <2>2 DEF Later
    <3> QED
      BY <1>1, <1>4, <2>2, <3>1 DEF Coming
  <2>3. ASSUME IsReply(m), m.request.load = current PROVE c = current /\ r = m.request
    BY <1>1, <1>4, <2>3, SoleOwed
  <2>4. ASSUME NEW tree, NEW leaves, GoesOn(current, tree, leaves), Rest(n, tree, leaves), c = current PROVE Coming(n)'
    <3>1. connected
      BY <1>1, <2>4 DEF StatusInv
    <3>2. PICK q : Continues(current, tree, leaves, q) /\ q \in Elems(asked'[current])
      BY <2>4, <3>1 DEF GoesOn
    <3>3. q \in Requests /\ q.load = current /\ (q.node = n \/ Later(q, n)')
      BY <2>4, <3>2 DEF Continues
    <3>4. Owes(current, q)'
      BY <1>1, <3>2 DEF Owes
    <3>5. q.node = n => q.kind = "data"
      BY <3>3, RequestIs, LeavesAre
    <3> QED
      BY <1>1, <3>2, <3>3, <3>4, <3>5 DEF Coming
  <2>5. CASE (Listed(m) \/ Read(m)) /\ m.request.load = current
    <3>1. c = current /\ r = m.request
      BY <2>3, <2>5 DEF Listed, Read
    <3>2. /\ Listed(m) => GoesOn(m.request.load, m.request.node[1], m.found)
          /\ Read(m) => GoesOn(m.request.load, load[m.request.load].tree, load[m.request.load].leaves)
      BY ReplyGoesOn
    <3>3. Later(m.request, n)
      BY <1>4, <3>1
    <3>4. /\ Listed(m) => Rest(n, m.request.node[1], m.found)
          /\ Read(m) => Rest(n, load[m.request.load].tree, load[m.request.load].leaves)
      BY <3>3, ReplyRest
    <3> HIDE DEF m
    <3> QED
      BY <2>4, <2>5, <3>1, <3>2, <3>4
  <2>6. CASE (Listed(m) \/ Read(m)) /\ m.request.load # current
    <3>1. \E tree, leaves : GoesOn(m.request.load, tree, leaves)
      BY <2>6, ReplyGoesOn
    <3>2. load'[current] = load[current]
      BY <1>1, <2>6, <3>1 DEF GoesOn
    <3>3. Owes(current, r)'
      BY <1>4, <2>1, <2>6
    <3> QED
      BY <2>2, <3>2, <3>3
  <2>7. CASE Told(m) \/ Reread(m)
    <3>1. load' = load
      BY <2>7 DEF Told, Reread
    <3>2. ~(IsReply(m) /\ r = m.request)
      BY <1>1, <1>4, <2>7, ClientsAre DEF Told, Reread
    <3> QED
      BY <2>1, <2>2, <3>1, <3>2
  <2>8. CASE Missed(m)
    <3>1. {m.request} \in SUBSET Requests /\ ReadsFailed({m.request})
      BY <1>1, <2>8, MessageIs DEF Missed
    <3>2. m.request.load = 0
      BY <3>1, ReadsFailedDoes
    <3>3. load'[current].leaves = load[current].leaves
      BY <1>1, <3>1, ReadsFailedDoes
    <3>4. ~(IsReply(m) /\ r = m.request)
      BY <1>1, <1>4, <3>2, ClientsAre
    <3> QED
      BY <2>1, <2>2, <3>3, <3>4
  <2> QED
    BY <1>1, <2>5, <2>6, <2>7, <2>8
<1> QED
  BY <1>3, <1>4 DEF Coming

(* Delivering keeps a node Live: its value is set, asked for or still      *)
(* coming.                                                                 *)
LEMMA DeliverLive ==
  ASSUME TypeInv, StatusInv, SingleInv, TreeInv, NodeInv, StaleInv, NEW c \in Clients, Deliver(c),
         "aborted" \notin mishaps', NEW n \in Lasting, n \in Leaves, node[n] # 0, Live(n)
  PROVE  Live(n)'
<1> DEFINE m == Head(inbox[c])
<1>1. /\ status[c] = "up" /\ inbox[c] # <<>> /\ m \in Messages
      /\ UNCHANGED <<current, status, connected, node, watches>> /\ current \in Clients
      /\ Told(m) \/ Listed(m) \/ Read(m) \/ Reread(m) \/ Missed(m)
  BY DeliverDoes DEF TypeInv
<1>2. \A d \in Clients : \A e \in Elems(inbox[d]) : e \in Elems(inbox'[d]) \/ (d = c /\ e = m)
  BY DeliverTakes
<1>3. DataReply(m, n) => m.found = node[n] \/ Event(n) \in Elems(inbox'[c])
  BY FirstIsFresh
<1>4. CASE status[current] = "connecting"
  BY <1>1, <1>4 DEF Live
<1>5. CASE Coming(n)
  BY <1>5, DeliverComing DEF Live
<1> HIDE DEF m
<1>6. CASE Announced(n)
  <2>1. CASE \E d \in Clients : Event(n) \in Elems(inbox'[d])
    BY <2>1 DEF Announced, Live
  <2>2. CASE m = Event(n)
    <3>1. ~IsReply(m) /\ m.node = n
      BY <2>2 DEF Event, IsReply
    <3>2. Told(m)
      BY <1>1, <3>1 DEF Listed, Read, Reread, Missed
    <3>3. CASE connected
      <4> DEFINE r == DataOf(0, n)
      <4>1. asked' = [asked EXCEPT ![current] = Append(asked[current], r)] \/ asked' = asked
        BY <3>1, <3>2 DEF Told
      <4>4. asked' = [asked EXCEPT ![current] = Append(asked[current], r)]
        BY <3>1, <3>2, <3>3 DEF Told
      <4>2. r \in Requests /\ r.kind = "data" /\ r.node = n
        BY RequestsMade, LeavesAre
      <4> HIDE DEF r
      <4>3. r \in Elems(asked'[current'])
        BY <1>1, <4>2, <4>4, AskAdds
      <4> QED
        BY <4>2, <4>3 DEF Live, Coming
    <3>4. CASE ~connected
      BY <1>1, <3>4 DEF StatusInv, Live
    <3> QED
      BY <3>3, <3>4
  <2> QED
    BY <1>2, <1>6, <2>1, <2>2 DEF Announced
<1>7. CASE Held(n)
  <2>1. CASE Event(n) \in Elems(inbox'[c])
    BY <2>1 DEF Announced, Live
  <2>2. ASSUME Fresh(n)' PROVE Live(n)'
    BY <1>1, <1>7, <2>2 DEF Held, Live
  <2>3. ASSUME Read(m) \/ Reread(m)
        PROVE  /\ DataReply(m, n) /\ m.found = node[n] => Fresh(n)'
               /\ Fresh(n) /\ ~DataReply(m, n) => Fresh(n)'
    <3>1. /\ m.request.node \in Nodes /\ m.found \in Versions /\ m.found # 0
          /\ SetDynamicProps(m.request.node, m.found) /\ IsReply(m) /\ m.request.kind = "data"
      BY <1>1, <2>3, MessageIs, RequestIs DEF Read, Reread
    <3>2. /\ \A a \in Leaves : Fresh(a) /\ a # m.request.node => Fresh(a)'
          /\ \A a \in Leaves : a = m.request.node /\ m.found = node[a] => Fresh(a)'
      BY <1>1, <3>1, SetDoes
    <3> QED
      BY <3>1, <3>2 DEF DataReply
  <2>4. CASE Fresh(n) /\ (Read(m) \/ Reread(m))
    BY <1>3, <2>1, <2>2, <2>3, <2>4
  <2>5. CASE Fresh(n) /\ ~(Read(m) \/ Reread(m))
    <3>1. props' = props
      BY <1>1, <2>5 DEF Told, Listed, Missed
    <3>2. Fresh(n)'
      BY <1>1, <2>5, <3>1 DEF Fresh
    <3> QED
      BY <2>2, <3>2
  <2>6. ASSUME NEW e \in Elems(inbox[current]), DataReply(e, n), e.found = node[n] PROVE Live(n)'
    <3>1. CASE e \in Elems(inbox'[current])
      <4>1. Answered(n)'
        BY <1>1, <2>6, <3>1 DEF Answered, DataReply
      <4> QED
        BY <1>1, <1>7, <4>1 DEF Held, Live
    <3>2. CASE e = m
      <4>1. Read(m) \/ Reread(m)
        BY <1>1, <2>6, <3>2 DEF DataReply, Told, Listed, Missed
      <4> QED
        BY <2>2, <2>3, <2>6, <3>2, <4>1
    <3> QED
      BY <1>1, <1>2, <3>1, <3>2
  <2> QED
    BY <1>7, <2>4, <2>5, <2>6 DEF Held, Answered
<1> QED
  BY <1>4, <1>5, <1>6, <1>7 DEF Live

(* Every step keeps LiveInv.                                               *)
LEMMA LiveStep ==
  ASSUME TypeInv, StatusInv, SingleInv, TreeInv, NodeInv, StaleInv, LiveInv, [OdinNext]_odinVars
  PROVE  LiveInv'
<1>1. /\ \A n \in Lasting : n \in Leaves /\ n \in Nodes /\ node[n] # 0
      /\ Lasting' \subseteq Lasting
  BY LastingAre
<1>2. current \in Clients
  BY DEF TypeInv
<1> SUFFICES ASSUME "aborted" \notin mishaps', NEW n \in Lasting' PROVE Live(n)'
  BY DEF LiveInv
<1>3. n \in Lasting /\ n \in Leaves /\ n \in Nodes /\ node[n] # 0
  BY <1>1
<1>4. ASSUME mishaps \subseteq mishaps' PROVE Live(n)
  BY <1>3, <1>4 DEF LiveInv
<1>5. CASE UNCHANGED odinVars
  <2>1. UNCHANGED <<current, node, props, status, asked, inbox, load, watches, mishaps>>
    BY <1>5 DEF odinVars, zkVars, netVars, processVars
  <2>2. Live(n)
    BY <1>4, <2>1
  <2> QED
    BY <2>1, <2>2 DEF Live, Coming, Announced, Held, Answered, Fresh, Owes, Later
<1>6. ASSUME NEW a \in Writable \cup Alterable, Write(a) PROVE Live(n)'
  <2>1. mishaps' = mishaps
    BY <1>6 DEF Write
  <2> QED
    BY <1>3, <1>4, <1>6, <2>1, WriteLive
<1>7. ASSUME NEW c \in Clients, Serve(c) PROVE Live(n)'
  <2>1. mishaps' = mishaps
    BY <1>7 DEF Serve
  <2> QED
    BY <1>3, <1>4, <1>7, <2>1, ServeLive
<1>8. ASSUME NEW c \in Clients, Deliver(c) PROVE Live(n)'
  <2>1. mishaps \subseteq mishaps'
    <3> DEFINE m == Head(inbox[c])
    <3>1. Told(m) \/ Listed(m) \/ Read(m) \/ Reread(m) \/ Missed(m)
      BY <1>8, DeliverDoes
    <3>2. CASE Listed(m) \/ Read(m)
      <4>1. \E l, tree, leaves : GoesOn(l, tree, leaves)
        BY <1>8, <3>2, ReplyGoesOn
      <4> QED
        BY <4>1 DEF GoesOn
    <3>3. CASE Told(m) \/ Reread(m) \/ Missed(m)
      BY <1>8, <3>3, StillSettles
    <3> QED
      BY <3>1, <3>2, <3>3
  <2> QED
    BY <1>3, <1>4, <1>8, <2>1, DeliverLive
<1>9. ASSUME NEW c \in Clients, Connect(c) PROVE Live(n)'
  <2>1. mishaps' = mishaps
    BY <1>9 DEF Connect
  <2> QED
    BY <1>3, <1>4, <1>9, <2>1, ConnectLive
<1>10. ASSUME NEW c \in Clients, Reconnect(c) PROVE Live(n)'
  <2>1. /\ status[c] = "down" /\ status' = [status EXCEPT ![c] = "up"]
        /\ UNCHANGED <<node, watches, asked, inbox, current, load, props, mishaps>>
    BY <1>10, ReconnectTypes
  <2>2. c # current
    BY <2>1 DEF StatusInv
  <2>3. status'[current] = status[current]
    BY <1>2, <2>1, <2>2 DEF TypeInv
  <2>4. Live(n)
    BY <1>4, <2>1
  <2> QED
    BY <2>1, <2>3, <2>4 DEF Live, Coming, Announced, Held, Answered, Fresh, Owes, Later
<1>11. ASSUME NEW c \in Clients, Disconnected(c) \/ Expired(c) PROVE Live(n)'
  <2>1. CASE Disconnected(c)
    <3>1. status[c] = "up" /\ Replace(c, "down") /\ losses' \in 0..MaxLosses /\ current < 1 + losses' + MaxExpiries
      BY <2>1, DisconnectedTypes DEF Disconnected
    <3>2. status'[current'] = "connecting"
      BY <3>1, ReplaceStatus
    <3> QED
      BY <3>2 DEF Live
  <2>2. CASE Expired(c)
    <3>1. status[c] = "down" /\ Replace(c, "expired") /\ losses' \in 0..MaxLosses /\ current < 1 + losses' + MaxExpiries
      BY <2>2, ExpiredDoes, ExpiredTypes
    <3>2. status'[current'] = "connecting"
      BY <3>1, ReplaceStatus
    <3> QED
      BY <3>2 DEF Live
  <2> QED
    BY <1>11, <2>1, <2>2
<1>12. ASSUME NEW c \in Clients, GiveUp(c) PROVE Live(n)'
  <2>1. /\ status[c] = "down" /\ asked' = [asked EXCEPT ![c] = Tail(asked[c])]
        /\ \A d \in Clients : load'[d].leaves = load[d].leaves
        /\ mishaps \subseteq mishaps'
        /\ UNCHANGED <<node, watches, status, inbox, current, props>>
    BY <1>12, GiveUpDoes
  <2>2. c # current
    BY <2>1 DEF StatusInv
  <2>3. asked'[current] = asked[current]
    BY <1>2, <2>1, <2>2 DEF TypeInv
  <2>4. \A r \in Requests : Owes(current, r) => Owes(current, r)'
    BY <2>1, <2>3 DEF Owes
  <2>5. Live(n)
    BY <1>4, <2>1
  <2> QED
    BY <1>2, <1>3, <2>1, <2>3, <2>4, <2>5, LiveKept
<1> QED
  BY <1>5, <1>6, <1>7, <1>8, <1>9, <1>10, <1>11, <1>12 DEF OdinNext, ClientStep
-----------------------------------------------------------------------------
(* The inductive invariant: the parts hold together or not at all.         *)
OdinInv ==
  /\ TypeInv /\ StatusInv /\ OriginInv /\ SingleInv /\ TreeInv
  /\ NodeInv /\ StaleInv /\ LiveInv /\ ReadInv

(* OdinInv holds in every state.                                           *)
LEMMA OdinInvariant == OdinSpec => []OdinInv
<1>1. OdinInit => OdinInv
  <2> SUFFICES ASSUME OdinInit PROVE OdinInv
    OBVIOUS
  <2>1. OriginInv /\ TreeInv
    BY NothingOwed DEF OriginInv, TreeInv
  <2> QED
    BY <2>1, TypeInit, StatusInit, SingleInit, NodeInit, StaleInit, LiveInit, ReadInit DEF OdinInv
<1>2. OdinInv /\ [OdinNext]_odinVars => OdinInv'
  <2> SUFFICES ASSUME OdinInv, [OdinNext]_odinVars PROVE OdinInv'
    OBVIOUS
  <2>1. TypeInv /\ StatusInv /\ OriginInv /\ SingleInv /\ TreeInv /\ NodeInv /\ StaleInv /\ LiveInv /\ ReadInv
    BY DEF OdinInv
  <2>2. TypeInv' /\ StatusInv' /\ OriginInv' /\ SingleInv' /\ TreeInv'
    BY <2>1, ConfigTypeStep, StatusStep, OriginStep, SingleStep, TreeStep
  <2>3. NodeInv' /\ StaleInv' /\ LiveInv' /\ ReadInv'
    BY <2>1, NodeStep, StaleStep, LiveStep, ReadStep
  <2> QED
    BY <2>2, <2>3 DEF OdinInv
<1> QED
  BY <1>1, <1>2, PTL DEF OdinSpec

(* The first load succeeds only with every node that existed, unless it    *)
(* was cut short (ZkClient.ts:144-153, 222-231).                           *)
THEOREM LoadsAreComplete == OdinSpec => []StartedIsLoaded
<1>1. OdinInv => StartedIsLoaded
  BY DEF OdinInv, ReadInv, ReadOf, Lasting, StartedIsLoaded
<1> QED
  BY <1>1, OdinInvariant, PTL

(* Where nothing is on its way the properties are what Zookeeper gives.    *)
LEMMA QuietHolds ==
  ASSUME OdinInv, Quiet, "aborted" \notin mishaps, NEW n \in Lasting
  PROVE  Fresh(n) /\ node[n] # 0 /\ n \in Leaves
<1>1. current \in Clients
  BY DEF OdinInv, TypeInv
<1>2. \A d \in Clients : Elems(asked[d]) = {} /\ Elems(inbox[d]) = {}
  BY DEF Quiet, Elems
<1>3. ~Coming(n) /\ ~Announced(n) /\ ~Answered(n) /\ status[current] # "connecting"
  BY <1>1, <1>2 DEF Quiet, Coming, Owes, Announced, Answered
<1>4. Live(n)
  BY DEF OdinInv, LiveInv
<1>5. n \in Leaves /\ n \in Initial /\ n[2] \notin altered
  BY LeavesAre DEF Lasting
<1>6. node[n] # 0
  BY <1>5 DEF OdinInv, NodeInv
<1> QED
  BY <1>3, <1>4, <1>5, <1>6 DEF Live, Held

(* When nothing is on its way, every key has the value and the level that  *)
(* Zookeeper gives it (ZkClient.ts:70-83, 208-255, Odin.ts:108-131).       *)
THEOREM QuietMeansCurrent == OdinSpec => []QuietIsCurrent
<1>1. ASSUME OdinInv, Quiet, "aborted" \notin mishaps, NEW k \in Keys \ altered PROVE props[k] = Wanted(k)
  <2> DEFINE s == <<"service", k>>
             b == <<"base", k>>
  <2>1. s \in Leaves /\ b \in Leaves /\ s[1] = "service" /\ b[1] = "base" /\ s[2] = k /\ b[2] = k
    BY LeavesAre DEF Trees
  <2>2. (node[s] # 0 <=> s \in Initial) /\ (node[b] # 0 <=> b \in Initial)
    BY <1>1, <2>1 DEF OdinInv, NodeInv
  <2>3. props[k].level = "local" \/ <<props[k].level, k>> \in Initial
    BY <1>1 DEF OdinInv, NodeInv
  <2>4. /\ props[k] \in [level: Levels, version: Versions]
        /\ props[k].level = "local" <=> props[k].version = 0
    BY <1>1 DEF OdinInv, TypeInv
  <2>5. /\ s \in Initial => Fresh(s)
        /\ b \in Initial => Fresh(b)
    BY <1>1, <2>1, QuietHolds DEF Lasting
  <2>6. Wanted(k) = IF node[s] # 0 THEN [level |-> "service", version |-> node[s]]
                    ELSE IF node[b] # 0 THEN [level |-> "base", version |-> node[b]]
                    ELSE [level |-> "local", version |-> 0]
    BY DEF Wanted
  <2>7. props[k].level = "local" \/ props[k].level = "base" \/ props[k].level = "service"
    BY <2>4 DEF Levels
  <2>8. Rank("local") = 0 /\ Rank("base") = 2 /\ Rank("service") = 3
    BY RanksAre
  <2>9. CASE s \in Initial
    <3>1. props[k] = [level |-> "service", version |-> node[s]]
      BY <2>1, <2>5, <2>7, <2>8, <2>9 DEF Fresh
    <3> QED
      BY <2>2, <2>6, <2>9, <3>1
  <2>10. CASE s \notin Initial /\ b \in Initial
    <3>1. props[k].level # "service"
      BY <2>3, <2>10
    <3>2. props[k] = [level |-> "base", version |-> node[b]]
      BY <2>1, <2>5, <2>7, <2>8, <2>10, <3>1 DEF Fresh
    <3> QED
      BY <2>2, <2>6, <2>10, <3>2
  <2>11. CASE s \notin Initial /\ b \notin Initial
    <3>1. props[k].level = "local"
      BY <2>3, <2>7, <2>11
    <3>2. props[k] = [level |-> "local", version |-> 0]
      BY <2>4, <3>1
    <3> QED
      BY <2>2, <2>6, <2>11, <3>2
  <2> QED
    BY <2>9, <2>10, <2>11
<1>2. OdinInv => QuietIsCurrent
  BY <1>1 DEF QuietIsCurrent, Synced
<1> QED
  BY <1>2, OdinInvariant, PTL
=============================================================================
