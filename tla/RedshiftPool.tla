----------------------------- MODULE RedshiftPool -----------------------------
(***************************************************************************)
(* RedshiftDb (base/src/dbs/redshift/redshift.db.ts): one connection pool  *)
(* that is replaced behind its users' backs, by queries that meet an       *)
(* authentication error and by the timer that renews IAM credentials,      *)
(* while the application connects and disconnects.                         *)
(*                                                                         *)
(* Pools are numbered as they are created; pool 0 is undefined.  A         *)
(* process is a caller of preparedQuery, the application (App, in          *)
(* connect) or the refresh started by the timer (Refresher); pc is the     *)
(* await it is at and hold the pool it waits for.  An await that settles   *)
(* at once lets no event in, so what follows it is part of the same step.  *)
(***************************************************************************)
EXTENDS Integers, FiniteSets

CONSTANTS
  Callers,      \* concurrent users of preparedQuery
  App,          \* whoever calls connect and disconnect
  Refresher,    \* the refresh of the timer; one is over before the next is due
  MaxAttempts,  \* maxRetryAttempts
  MaxConnects,  \* bound: calls of connect
  MaxRefreshes, \* bound: times the timer fires
  MaxFaults     \* bound: failures of AWS, of a connection, of authentication

ASSUME ProcessAssumption ==
  /\ App \notin Callers
  /\ Refresher \notin Callers
  /\ App # Refresher
ASSUME BoundsAssumption ==
  /\ MaxAttempts \in Nat \ {0}
  /\ MaxConnects \in Nat
  /\ MaxRefreshes \in Nat
  /\ MaxFaults \in Nat

VARIABLES
  mode,         \* the kind of configuration: "iam" or "password"
  original,     \* originalConfig is set
  iam,          \* iamConfig is set
  timer,        \* the credential refresh timer is armed
  reconnecting, \* isReconnecting
  pool,         \* this.pool
  created,      \* pools created so far
  ended,        \* pools whose end() has been called
  pc, hold,     \* per process
  attempt,      \* per caller: attempt of reconnectWithRetry
  gaveUp,       \* a connect failed for good, and no pool is installed since
  count,        \* connects, refreshes and faults so far
  mishaps       \* history: which of Mishaps have happened

configVars == <<original, iam, timer, reconnecting>>
poolVars == <<pool, created, ended>>
procVars == <<pc, hold, attempt>>
vars == <<mode, configVars, poolVars, procVars, gaveUp, count, mishaps>>

Procs == Callers \cup {App, Refresher}

(* connect: credentials, closing, testing; around it, in an attempt of     *)
(* reconnectWithRetry: sleeping, reclosing; in refreshCredentials:         *)
(* fetching, ending, probing.                                              *)
Looping == {"sleeping", "reclosing", "credentials", "closing", "testing"}
Refreshing == {"fetching", "ending", "probing"}
Labels == {"idle", "querying", "retrying"} \cup Looping \cup Refreshing

(* Between ending the pool it found and writing this.pool.                 *)
Replacing == {"closing", "reclosing", "ending"}
(* Will create a pool or arm the timer without looking at the              *)
(* configuration again.                                                    *)
Committed == {"credentials", "closing", "fetching", "ending", "probing"}

Mishaps == {
  "overlap",      \* a pool was installed while another process was Replacing
  "late",         \* disconnect came while a process was Committed
  "interrupted" } \* disconnect came during a reconnection

TypeOK ==
  /\ mode \in {"iam", "password"}
  /\ original \in BOOLEAN /\ iam \in BOOLEAN /\ timer \in BOOLEAN
  /\ reconnecting \in BOOLEAN /\ gaveUp \in BOOLEAN
  /\ created \in Nat
  /\ pool \in 0..created
  /\ ended \subseteq 1..created
  /\ pc \in [Procs -> Labels]
  /\ hold \in [Procs -> 0..created]
  /\ attempt \in [Callers -> 1..MaxAttempts]
  /\ count \in [connects: Nat, refreshes: Nat, faults: Nat]
  /\ mishaps \subseteq Mishaps

Open == (1..created) \ ended
Loops == {q \in Callers : pc[q] \in Looping}
At(labels) == {proc \in Procs : pc[proc] \in labels}
-----------------------------------------------------------------------------
Init ==
  /\ mode \in {"iam", "password"}
  /\ original = FALSE /\ iam = FALSE /\ timer = FALSE /\ reconnecting = FALSE
  /\ pool = 0 /\ created = 0 /\ ended = {}
  /\ pc = [proc \in Procs |-> "idle"]
  /\ hold = [proc \in Procs |-> 0]
  /\ attempt = [q \in Callers |-> 1]
  /\ gaveUp = FALSE
  /\ count = [connects |-> 0, refreshes |-> 0, faults |-> 0]
  /\ mishaps = {}

Goto(proc, label) == pc' = [pc EXCEPT ![proc] = label]
GotoHolding(proc, label, p) == Goto(proc, label) /\ hold' = [hold EXCEPT ![proc] = p]

Fault ==
  /\ count.faults < MaxFaults
  /\ count' = [count EXCEPT !.faults = @ + 1]
NoFault == UNCHANGED count

(* pg: end() settles once every client of the pool is released, and is     *)
(* rejected when it has been called before.                                *)
Users(p) == {proc \in Procs : pc[proc] \in {"querying", "retrying", "testing", "probing"} /\ hold[proc] = p}
Drained(p) == Users(p) = {}

(* pg: new Pool, and the connection taken from it to test it.              *)
NewPool(proc, label) ==
  /\ created' = created + 1
  /\ pool' = created + 1
  /\ gaveUp' = FALSE
  /\ GotoHolding(proc, label, created + 1)

EndPool(proc, label) ==
  /\ pool \in Open
  /\ ended' = ended \cup {pool}
  /\ GotoHolding(proc, label, pool)
  /\ UNCHANGED <<pool, created, gaveUp>>

(* initializePool up to its first long await.  closeExistingPool waits for *)
(* an open pool to drain; with no pool, or one ended before (the error is  *)
(* logged), it goes on at once.                                            *)
InitializePool(proc) ==
  \/ EndPool(proc, "closing")
  \/ pool \notin Open /\ NewPool(proc, "testing") /\ UNCHANGED ended

(* Mutant: a reconnection is attempted until it succeeds.                  *)
ConnectFailedForever(proc) ==
  /\ gaveUp' = (proc = App \/ gaveUp)
  /\ GotoHolding(proc, IF proc = App THEN "idle" ELSE "sleeping", 0)
  /\ UNCHANGED <<reconnecting, attempt>>

(* A failed connect: the application gets the error; a reconnection tries  *)
(* again or, after its last attempt, fails the query.                      *)
ConnectFailed(proc) ==
  \/ /\ proc = App
     /\ GotoHolding(proc, "idle", 0)
     /\ gaveUp' = TRUE
     /\ UNCHANGED <<reconnecting, attempt>>
  \/ /\ proc \in Callers
     /\ attempt[proc] < MaxAttempts
     /\ attempt' = [attempt EXCEPT ![proc] = @ + 1]
     /\ GotoHolding(proc, "sleeping", 0)
     /\ UNCHANGED <<reconnecting, gaveUp>>
  \/ /\ proc \in Callers
     /\ attempt[proc] = MaxAttempts
     /\ reconnecting' = FALSE
     /\ gaveUp' = TRUE
     /\ GotoHolding(proc, "idle", 0)
     /\ UNCHANGED attempt

(* The application calls connect: IAM credentials are asked for, or the    *)
(* password configuration goes straight to initializePool.                 *)
AppConnect ==
  /\ pc[App] = "idle"
  /\ count.connects < MaxConnects
  /\ count' = [count EXCEPT !.connects = @ + 1]
  /\ original' = TRUE
  /\ iam' = (mode = "iam")
  /\ \/ mode = "iam" /\ GotoHolding(App, "credentials", 0) /\ UNCHANGED <<poolVars, gaveUp>>
     \/ mode = "password" /\ InitializePool(App)
  /\ UNCHANGED <<mode, timer, reconnecting, attempt>>

(* Credentials arrive, the timer is armed and the pool replaced.           *)
GotCredentials(proc) ==
  /\ pc[proc] = "credentials"
  /\ \/ /\ timer' = TRUE
        /\ InitializePool(proc)
        /\ NoFault
        /\ UNCHANGED <<original, iam, reconnecting, attempt>>
     \/ /\ Fault
        /\ ConnectFailed(proc)
        /\ UNCHANGED <<original, iam, timer, poolVars>>
  /\ UNCHANGED mode

(* The old pool has drained: whatever this.pool is by now, the new pool    *)
(* takes its place.                                                        *)
Closed(proc) ==
  /\ pc[proc] = "closing"
  /\ Drained(hold[proc])
  /\ NewPool(proc, "testing")
  /\ UNCHANGED <<mode, configVars, ended, attempt, count>>

(* The (second) query of a caller, on whatever this.pool is: refused when  *)
(* it is undefined or has been ended.                                      *)
StartQuery(q, label) ==
  \/ pool \in Open /\ GotoHolding(q, label, pool)
  \/ pool \notin Open /\ GotoHolding(q, "idle", 0)

(* The connection that tests a new pool is made, or not.                   *)
Tested(proc) ==
  /\ pc[proc] = "testing"
  /\ \/ /\ NoFault
        /\ \/ /\ proc = App
              /\ GotoHolding(proc, "idle", 0)
              /\ UNCHANGED reconnecting
           \/ /\ proc \in Callers
              /\ reconnecting' = FALSE
              /\ StartQuery(proc, "retrying")
        /\ UNCHANGED <<attempt, gaveUp>>
     \/ Fault /\ ConnectFailed(proc)
  /\ UNCHANGED <<mode, original, iam, timer, poolVars>>
-----------------------------------------------------------------------------
Query(q) ==
  /\ pc[q] = "idle"
  /\ pool \in Open
  /\ StartQuery(q, "querying")
  /\ UNCHANGED <<mode, configVars, poolVars, attempt, gaveUp, count>>

(* The query succeeds or fails for good.                                   *)
Answered(q) ==
  /\ pc[q] \in {"querying", "retrying"}
  /\ GotoHolding(q, "idle", 0)
  /\ UNCHANGED <<mode, configVars, poolVars, attempt, gaveUp, count>>

(* Mutant: two reconnections may run at once.                              *)
AuthErrorAlwaysReconnects(q) ==
  /\ pc[q] = "querying"
  /\ Fault
  /\ original
  /\ reconnecting' = TRUE
  /\ attempt' = [attempt EXCEPT ![q] = 1]
  /\ GotoHolding(q, "sleeping", 0)
  /\ UNCHANGED <<mode, original, iam, timer, poolVars, gaveUp>>

(* An authentication error: reconnectWithRetry, which returns at once when *)
(* there is no configuration or another caller is reconnecting; the query  *)
(* is then retried all the same.                                           *)
AuthError(q) ==
  /\ pc[q] = "querying"
  /\ Fault
  /\ \/ /\ original /\ ~reconnecting
        /\ reconnecting' = TRUE
        /\ attempt' = [attempt EXCEPT ![q] = 1]
        /\ GotoHolding(q, "sleeping", 0)
     \/ /\ ~original \/ reconnecting
        /\ StartQuery(q, "retrying")
        /\ UNCHANGED <<reconnecting, attempt>>
  /\ UNCHANGED <<mode, original, iam, timer, poolVars, gaveUp>>

(* attemptReconnection once the old pool is gone: disconnected meanwhile,  *)
(* or connect with the original configuration.                             *)
ConnectAgain(q) ==
  \/ /\ ~original
     /\ ConnectFailed(q)
     /\ pool' = 0
     /\ UNCHANGED <<original, iam, timer, created>>
  \/ /\ original
     /\ iam' = (mode = "iam")
     /\ \/ /\ mode = "iam"
           /\ GotoHolding(q, "credentials", 0)
           /\ pool' = 0
           /\ UNCHANGED <<created, gaveUp>>
        \/ mode = "password" /\ NewPool(q, "testing")
     /\ UNCHANGED <<original, timer, reconnecting, attempt>>

(* attemptReconnection after its delay, as far as closeExistingPool has to *)
(* wait.                                                                   *)
AttemptReconnection(q) ==
  /\ pc[q] = "sleeping"
  /\ \/ EndPool(q, "reclosing") /\ UNCHANGED <<configVars, attempt>>
     \/ pool \notin Open /\ ConnectAgain(q) /\ UNCHANGED ended
  /\ UNCHANGED <<mode, count>>

Reclosed(q) ==
  /\ pc[q] = "reclosing"
  /\ Drained(hold[q])
  /\ ConnectAgain(q)
  /\ UNCHANGED <<mode, count, ended>>
-----------------------------------------------------------------------------
(* The timer fires; without an IAM configuration nothing happens.          *)
Fire ==
  /\ timer
  /\ pc[Refresher] = "idle"
  /\ count.refreshes < MaxRefreshes
  /\ count' = [count EXCEPT !.refreshes = @ + 1]
  /\ timer' = FALSE
  /\ GotoHolding(Refresher, IF iam THEN "fetching" ELSE "idle", 0)
  /\ UNCHANGED <<mode, original, iam, reconnecting, poolVars, attempt, gaveUp>>

(* Mutant: the old pool is not ended.                                      *)
FetchedNotEnding ==
  /\ pc[Refresher] = "fetching"
  /\ \/ NewPool(Refresher, "probing") /\ NoFault /\ UNCHANGED ended
     \/ Fault /\ GotoHolding(Refresher, "idle", 0) /\ UNCHANGED <<poolVars, gaveUp>>
  /\ UNCHANGED <<mode, configVars, attempt>>

(* Mutant: the old pool is ended before the credentials are there.         *)
FetchedClosingEarly ==
  /\ pc[Refresher] = "fetching"
  /\ \/ EndPool(Refresher, "ending") /\ NoFault
     \/ /\ Fault
        /\ GotoHolding(Refresher, "idle", 0)
        /\ ended' = ended \cup ({pool} \ {0})
        /\ UNCHANGED <<pool, created, gaveUp>>
  /\ UNCHANGED <<mode, configVars, attempt>>

(* refreshCredentials after its credentials: a pool already ended makes    *)
(* the refresh fail; otherwise the pool is ended before it is replaced.    *)
Fetched ==
  /\ pc[Refresher] = "fetching"
  /\ \/ pool = 0 /\ NewPool(Refresher, "probing") /\ NoFault /\ UNCHANGED ended
     \/ EndPool(Refresher, "ending") /\ NoFault
     \/ /\ \/ pool \in ended /\ NoFault
           \/ Fault
        /\ GotoHolding(Refresher, "idle", 0)
        /\ UNCHANGED <<poolVars, gaveUp>>
  /\ UNCHANGED <<mode, configVars, attempt>>

Renew ==
  /\ pc[Refresher] = "ending"
  /\ Drained(hold[Refresher])
  /\ NewPool(Refresher, "probing")
  /\ UNCHANGED <<mode, configVars, ended, attempt, count>>

(* The new pool is tested; only then is the next refresh scheduled.        *)
Probed ==
  /\ pc[Refresher] = "probing"
  /\ \/ timer' = TRUE /\ NoFault
     \/ Fault /\ UNCHANGED timer
  /\ GotoHolding(Refresher, "idle", 0)
  /\ UNCHANGED <<mode, original, iam, reconnecting, poolVars, attempt, gaveUp>>

(* Mutant: disconnect leaves the timer alone.                              *)
DisconnectKeepsTimer ==
  /\ original' = FALSE /\ iam' = FALSE /\ reconnecting' = FALSE
  /\ ended' = ended \cup ({pool} \ {0})
  /\ UNCHANGED <<mode, timer, pool, created, procVars, gaveUp, count>>

(* disconnect: synchronous; this.pool stays set to the ended pool, and     *)
(* ending it twice is an unhandled rejection.                              *)
Disconnect ==
  /\ original' = FALSE /\ iam' = FALSE /\ timer' = FALSE /\ reconnecting' = FALSE
  /\ ended' = ended \cup ({pool} \ {0})
  /\ UNCHANGED <<mode, pool, created, procVars, gaveUp, count>>
-----------------------------------------------------------------------------
(* What the history records of a step.                                     *)
Overlapping ==
  /\ created' # created
  /\ \E proc \in Procs : pc[proc] \in Replacing /\ pc'[proc] = pc[proc]

History ==
  mishaps' = mishaps
    \cup (IF Overlapping THEN {"overlap"} ELSE {})
    \cup (IF original /\ ~original' /\ At(Committed) # {} THEN {"late"} ELSE {})
    \cup (IF original /\ ~original' /\ Loops # {} THEN {"interrupted"} ELSE {})

ConnectStep(proc) ==
  \/ GotCredentials(proc)
  \/ Closed(proc)
  \/ Tested(proc)

QueryStep(q) ==
  \/ Answered(q)
  \/ AttemptReconnection(q)
  \/ Reclosed(q)
  \/ ConnectStep(q)

RefreshStep == Fetched \/ Renew \/ Probed

Next ==
  /\ \/ AppConnect
     \/ Disconnect
     \/ ConnectStep(App)
     \/ \E q \in Callers : Query(q) \/ AuthError(q) \/ QueryStep(q)
     \/ Fire
     \/ RefreshStep
  /\ History

Spec == Init /\ [][Next]_vars

(* Fairness: AWS and the cluster answer or time out, delays elapse, and    *)
(* the event loop runs what has settled.  Nobody has to query, connect or  *)
(* disconnect, and faults are never forced.                                *)
Fairness ==
  /\ WF_vars(ConnectStep(App) /\ History)
  /\ WF_vars(RefreshStep /\ History)
  /\ \A q \in Callers : WF_vars(QueryStep(q) /\ History)

FairSpec == Spec /\ Fairness
-----------------------------------------------------------------------------
(* Every pool that is replaced is closed: only the current one can be open *)
(* and hold connections, unless two replacements have been between closing *)
(* the old pool and installing theirs at the same time                     *)
(* (redshift.db.ts:164-181, 292-304, 397-405).                             *)
LeaksNeedOverlap == "overlap" \notin mishaps => Open \subseteq {pool}

(* Once disconnected nothing is left open and no timer armed, and no       *)
(* reconnection that wakes up later opens anything, unless a disconnect    *)
(* came while a connect or refresh was past its last look at the           *)
(* configuration, or a pool has leaked (redshift.db.ts:198-200, 279-281,   *)
(* 486-502).                                                               *)
DisconnectIsFinal ==
  ~original /\ mishaps \cap {"late", "overlap"} = {} => Open = {} /\ ~timer

(* At most one caller reconnects, and the flag says so: callers that fail  *)
(* at the same time do not close each other's pools, unless a disconnect   *)
(* has cleared the flag under a reconnection (redshift.db.ts:216-252).     *)
ReconnectionIsExclusive ==
  "interrupted" \notin mishaps =>
    /\ Cardinality(Loops) <= 1
    /\ reconnecting <=> Loops # {}

(* A connected client always comes back to a pool that takes queries:      *)
(* failed refreshes, failed attempts and queries at any moment do not      *)
(* leave it with a closed pool, even where replacements overlap, unless    *)
(* every attempt to reconnect has failed: then it is lost for good, as     *)
(* nothing tries again (redshift.db.ts:214-253, 283-326).                  *)
UsableUnlessGivenUp ==
  original /\ ~gaveUp /\ At(Looping \cup {"ending"}) = {} => pool \in Open

(* Every query is answered: reconnections end, and no query waits for a    *)
(* pool that waits for it to drain (redshift.db.ts:436-484).               *)
QueriesReturn == \A q \in Callers : pc[q] # "idle" ~> pc[q] = "idle"
=============================================================================
