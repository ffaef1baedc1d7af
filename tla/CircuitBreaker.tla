---------------------------- MODULE CircuitBreaker ----------------------------
(***************************************************************************)
(* HTTP requests of the base library (base/src/request): executeRequest    *)
(* with or without a circuit breaker, and the retry around it.  Breakers   *)
(* are shared by name, and so is the fallback each call sets on its        *)
(* breaker before it fires.                                                *)
(*                                                                         *)
(* The breaker is opossum's: its failure rate is not modelled, so that a   *)
(* failure may open a closed breaker or not.                               *)
(***************************************************************************)
EXTENDS Integers

CONSTANTS
  Calls,       \* calls of getRequest, postRequest, ...
  Guarded,     \* those with breakerOptions
  OwnFallback, \* guarded calls with an onFallback
  Names,       \* names of breakers
  NameOf,      \* the breaker of each guarded call: its name or its URL
  Attempts     \* retry.attempts, of every call

ASSUME CallsAssumption ==
  /\ Guarded \subseteq Calls
  /\ OwnFallback \subseteq Guarded
  /\ NameOf \in [Guarded -> Names]
ASSUME AttemptsAssumption == Attempts \in Nat

Default == "default"
ASSUME DefaultAssumption == Default \notin Calls /\ "none" \notin Calls

VARIABLES
  state,    \* circuitBreakerRegistry: per name "none", or the breaker's state
  fallback, \* per breaker: whose onFallback it has, or Default
  call,     \* per call: "new", "sent", "retrying" or "answered"
  sends,    \* per call: HTTP requests sent for it
  result,   \* per call: what its caller gets
  rescuer,  \* history: whose fallback ran for the call
  after     \* history: calls of the same breaker that began under the call

vars == <<state, fallback, call, sends, result, rescuer, after>>

Results == {"none", "success", "failure", "default", "oops"}

TypeOK ==
  /\ state \in [Names -> {"none", "closed", "open", "halfOpen", "probing"}]
  /\ fallback \in [Names -> Calls \cup {Default, "none"}]
  /\ call \in [Calls -> {"new", "sent", "retrying", "answered"}]
  /\ sends \in [Calls -> Nat]
  /\ result \in [Calls -> Results]
  /\ rescuer \in [Calls -> Calls \cup {Default, "none"}]
  /\ after \in [Calls -> SUBSET Calls]

Init ==
  /\ state = [n \in Names |-> "none"]
  /\ fallback = [n \in Names |-> "none"]
  /\ call = [c \in Calls |-> "new"]
  /\ sends = [c \in Calls |-> 0]
  /\ result = [c \in Calls |-> "none"]
  /\ rescuer = [c \in Calls |-> "none"]
  /\ after = [c \in Calls |-> {}]
-----------------------------------------------------------------------------
(* Mutant: executeRequest throws what its breaker or axios could not do.   *)
RejectsFailures(outcome) == outcome \in {"failure", "oops"}

(* executeRequest turns every outcome, of the error branch too, into a     *)
(* response.                                                               *)
Rejects(outcome) == FALSE

(* backOff: another attempt follows a rejected one.                        *)
Ends(c, outcome) ==
  LET again == Rejects(outcome) /\ sends'[c] < Attempts IN
  /\ call' = [call EXCEPT ![c] = IF again THEN "retrying" ELSE "answered"]
  /\ result' = [result EXCEPT ![c] = outcome]

(* The breaker runs the fallback of owner: the default one gives data,     *)
(* the wrapper of an onFallback gives nothing, of which executeRequest     *)
(* cannot read the data.                                                   *)
Rescue(c, owner) ==
  /\ rescuer' = [rescuer EXCEPT ![c] = owner]
  /\ Ends(c, IF owner = Default THEN "default" ELSE "oops")

Send(c) ==
  /\ sends' = [sends EXCEPT ![c] = @ + 1]
  /\ call' = [call EXCEPT ![c] = "sent"]
  /\ UNCHANGED <<result, rescuer>>

(* A call of the same breaker has begun while these wait for an answer.    *)
Overlap(c) ==
  after' = [d \in Calls |->
    IF d \in Guarded /\ call[d] = "sent" /\ NameOf[d] = NameOf[c] THEN after[d] \cup {c}
    ELSE after[d]]

Begins(c) == call[c] \in {"new", "retrying"}

(* A request without a breaker.                                            *)
RequestDirectly(c) ==
  /\ c \notin Guarded
  /\ Begins(c)
  /\ Send(c)
  /\ UNCHANGED <<state, fallback, after>>

FallbackOf(c) == IF c \in OwnFallback THEN c ELSE Default

(* Mutant: only the call that makes a breaker sets its fallback.           *)
SetFallbackOnce(c) ==
  fallback' = [fallback EXCEPT ![NameOf[c]] = IF @ = "none" THEN FallbackOf(c) ELSE @]

(* circuitBreaker.fallback(...): the fallback is the breaker's.            *)
SetFallback(c) == fallback' = [fallback EXCEPT ![NameOf[c]] = FallbackOf(c)]

(* executeCircuitBreakerRequest: the breaker is made by the first call of  *)
(* its name.  An open one, or one that waits for its probe, runs its       *)
(* fallback at once.                                                       *)
RequestGuarded(c) ==
  LET n == NameOf[c] IN
  /\ c \in Guarded
  /\ Begins(c)
  /\ SetFallback(c)
  /\ Overlap(c)
  /\ \/ /\ state[n] \in {"none", "closed"}
        /\ state' = [state EXCEPT ![n] = "closed"]
        /\ Send(c)
     \/ /\ state[n] = "halfOpen"
        /\ state' = [state EXCEPT ![n] = "probing"]
        /\ Send(c)
     \/ /\ state[n] \in {"open", "probing"}
        /\ UNCHANGED <<state, sends>>
        /\ Rescue(c, fallback'[n])
-----------------------------------------------------------------------------
(* The server answers in time.  A success closes a breaker being probed.   *)
Succeed(c) ==
  /\ call[c] = "sent"
  /\ state' = [n \in Names |->
       IF c \in Guarded /\ n = NameOf[c] /\ state[n] \in {"halfOpen", "probing"} THEN "closed"
       ELSE state[n]]
  /\ UNCHANGED sends
  /\ Ends(c, "success")
  /\ UNCHANGED <<fallback, rescuer, after>>

(* The server refuses, or the timeout of the breaker or of axios is over;  *)
(* the request itself is not cancelled and its late answer is ignored.     *)
FailDirectly(c) ==
  /\ c \notin Guarded
  /\ call[c] = "sent"
  /\ UNCHANGED sends
  /\ Ends(c, "failure")
  /\ UNCHANGED <<state, fallback, rescuer, after>>

FailGuarded(c) ==
  LET n == NameOf[c] IN
  /\ c \in Guarded
  /\ call[c] = "sent"
  /\ state' \in {[state EXCEPT ![n] = "open"]}
                 \cup (IF state[n] = "closed" THEN {state} ELSE {})
  /\ UNCHANGED sends
  /\ Rescue(c, fallback[n])
  /\ UNCHANGED <<fallback, after>>

(* resetTimeout                                                            *)
Reset(n) ==
  /\ state[n] = "open"
  /\ state' = [state EXCEPT ![n] = "halfOpen"]
  /\ UNCHANGED <<fallback, call, sends, result, rescuer, after>>
-----------------------------------------------------------------------------
Next ==
  \/ \E c \in Calls :
       \/ RequestDirectly(c) \/ RequestGuarded(c)
       \/ Succeed(c) \/ FailDirectly(c) \/ FailGuarded(c)
  \/ \E n \in Names : Reset(n)

Spec == Init /\ [][Next]_vars

(* The timers: the server need not answer.                                 *)
FairSpec ==
  /\ Spec
  /\ \A c \in Calls :
       /\ WF_vars(FailDirectly(c) \/ FailGuarded(c))
       /\ WF_vars(call[c] = "retrying" /\ (RequestDirectly(c) \/ RequestGuarded(c)))
-----------------------------------------------------------------------------
(* A fallback is given for a call (circuitBreaker.ts:111-119) but kept in  *)
(* the breaker all calls of its name share.  A call is rescued by its own  *)
(* fallback, or by that of a call of the same breaker which began while it *)
(* was waiting: never by one of an earlier call, nor of another breaker.   *)
ForeignFallbackNeedsOverlap ==
  \A c \in Calls :
    rescuer[c] \notin {"none", FallbackOf(c)} =>
      \E d \in after[c] : NameOf[d] = NameOf[c] /\ rescuer[c] = FallbackOf(d)

(* Every request gets an answer, although the server may never give one,   *)
(* and gets it after a single HTTP request whatever attempts asks for:     *)
(* executeRequest never rejects, so backOff never retries                  *)
(* (request/index.ts:92-98), and what a slow server did is not done twice. *)
AnsweredAfterOneRequest ==
  \A c \in Calls : call[c] # "new" ~> call[c] = "answered" /\ sends[c] <= 1
=============================================================================
