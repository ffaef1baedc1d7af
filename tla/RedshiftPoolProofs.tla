-------------------------- MODULE RedshiftPoolProofs --------------------------
(***************************************************************************)
(* Proofs about RedshiftPool, for every number of callers, attempts,       *)
(* connects, refreshes and faults.                                         *)
(***************************************************************************)
EXTENDS RedshiftPool, FiniteSetTheorems, TLAPS

USE ProcessAssumption, BoundsAssumption

Actions ==
  \/ AppConnect
  \/ Disconnect
  \/ ConnectStep(App)
  \/ \E q \in Callers : Query(q) \/ AuthError(q) \/ QueryStep(q)
  \/ Fire
  \/ RefreshStep

(* Next is a step of some process, recorded in the history.                *)
LEMMA NextIsActions == Next <=> Actions /\ History
  BY DEF Next, Actions

(* Moving a process keeps its label and its pool in range.                 *)
LEMMA GotoHoldingType ==
  ASSUME TypeOK, NEW proc \in Procs, NEW label \in Labels, NEW p \in 0..created',
         GotoHolding(proc, label, p), created' \in Nat, created' >= created
  PROVE  pc' \in [Procs -> Labels] /\ hold' \in [Procs -> 0..created']
<1>1. pc' \in [Procs -> Labels]
  BY DEF TypeOK, GotoHolding, Goto
<1>2. 0..created \subseteq 0..created'
  BY DEF TypeOK
<1>3. hold \in [Procs -> 0..created']
  BY <1>2 DEF TypeOK
<1> QED BY <1>1, <1>3 DEF GotoHolding

(* A new pool is typed.                                                    *)
LEMMA NewPoolType ==
  ASSUME TypeOK, NEW proc \in Procs, NEW label \in Labels, NewPool(proc, label), UNCHANGED ended
  PROVE  /\ created' \in Nat /\ pool' \in 0..created' /\ gaveUp' \in BOOLEAN
         /\ ended' \subseteq 1..created'
         /\ pc' \in [Procs -> Labels] /\ hold' \in [Procs -> 0..created']
<1>1. created' = created + 1 /\ pool' = created + 1 /\ gaveUp' = FALSE /\ created \in Nat
  BY DEF NewPool, TypeOK
<1>2. pc' \in [Procs -> Labels] /\ hold' \in [Procs -> 0..created']
  BY <1>1, GotoHoldingType DEF NewPool
<1>3. ended' \subseteq 1..created'
  <2>1. ended' = ended /\ ended \subseteq 1..created
    BY DEF TypeOK
  <2>2. 1..created \subseteq 1..created'
    BY <1>1
  <2> QED BY <2>1, <2>2
<1>4. gaveUp' \in BOOLEAN
  BY <1>1
<1>5. created' \in Nat /\ pool' \in 0..created'
  BY <1>1
<1> QED BY <1>2, <1>3, <1>4, <1>5

(* Ending the pool keeps the types.                                        *)
LEMMA EndPoolType ==
  ASSUME TypeOK, NEW proc \in Procs, NEW label \in Labels, EndPool(proc, label)
  PROVE  /\ created' \in Nat /\ pool' \in 0..created' /\ gaveUp' \in BOOLEAN
         /\ ended' \subseteq 1..created'
         /\ pc' \in [Procs -> Labels] /\ hold' \in [Procs -> 0..created']
<1>1. UNCHANGED <<pool, created, gaveUp>> /\ ended' = ended \cup {pool} /\ pool \in 1..created
  BY DEF EndPool, Open
<1>2. pc' \in [Procs -> Labels] /\ hold' \in [Procs -> 0..created']
  BY <1>1, GotoHoldingType DEF EndPool, TypeOK
<1> QED BY <1>1, <1>2 DEF TypeOK

PoolTyped ==
  /\ created \in Nat /\ pool \in 0..created /\ ended \subseteq 1..created
  /\ pc \in [Procs -> Labels] /\ hold \in [Procs -> 0..created]
  /\ gaveUp \in BOOLEAN

RestTyped ==
  /\ mode \in {"iam", "password"}
  /\ original \in BOOLEAN /\ iam \in BOOLEAN /\ timer \in BOOLEAN
  /\ reconnecting \in BOOLEAN
  /\ attempt \in [Callers -> 1..MaxAttempts]
  /\ count \in [connects: Nat, refreshes: Nat, faults: Nat]

(* A failed connect keeps the types.                                       *)
LEMMA ConnectFailedType ==
  ASSUME TypeOK, NEW proc \in Callers \cup {App}, ConnectFailed(proc),
         created' = created, pool' \in 0..created, ended' = ended
  PROVE  PoolTyped' /\ attempt' \in [Callers -> 1..MaxAttempts] /\ reconnecting' \in BOOLEAN
<1>1. proc \in Procs /\ "idle" \in Labels /\ "sleeping" \in Labels /\ 0 \in 0..created'
  BY DEF Procs, Labels, Looping, TypeOK
<1>2. GotoHolding(proc, "idle", 0) \/ GotoHolding(proc, "sleeping", 0)
  BY DEF ConnectFailed
<1>3. pc' \in [Procs -> Labels] /\ hold' \in [Procs -> 0..created']
  BY <1>1, <1>2, GotoHoldingType DEF TypeOK
<1>4. gaveUp' \in BOOLEAN /\ reconnecting' \in BOOLEAN
  BY DEF TypeOK, ConnectFailed
<1>5. attempt' \in [Callers -> 1..MaxAttempts]
  BY DEF TypeOK, ConnectFailed
<1> QED BY <1>3, <1>4, <1>5 DEF PoolTyped, TypeOK

(* Starting a query keeps the types.                                       *)
LEMMA StartQueryType ==
  ASSUME TypeOK, NEW q \in Callers, NEW label \in {"querying", "retrying"},
         StartQuery(q, label), UNCHANGED <<poolVars, gaveUp>>
  PROVE  PoolTyped'
<1>1. q \in Procs /\ label \in Labels /\ "idle" \in Labels
  BY DEF Procs, Labels
<1>2. pool \in 0..created' /\ 0 \in 0..created' /\ created' = created /\ created \in Nat
  BY DEF TypeOK, poolVars
<1>3. GotoHolding(q, label, pool) \/ GotoHolding(q, "idle", 0)
  BY DEF StartQuery
<1>4. pc' \in [Procs -> Labels] /\ hold' \in [Procs -> 0..created']
  BY <1>1, <1>2, <1>3, GotoHoldingType DEF TypeOK
<1> QED BY <1>2, <1>4 DEF PoolTyped, TypeOK, poolVars

(* A counted fault keeps the counters typed.                               *)
LEMMA FaultType ==
  ASSUME TypeOK, Fault \/ NoFault
  PROVE  count' \in [connects: Nat, refreshes: Nat, faults: Nat]
  BY DEF TypeOK, Fault, NoFault

(* Replacing the pool keeps the types.                                     *)
LEMMA InitializePoolType ==
  ASSUME TypeOK, NEW proc \in Procs, InitializePool(proc)
  PROVE  PoolTyped'
<1>1. "closing" \in Labels /\ "testing" \in Labels
  BY DEF Labels, Looping
<1>2. CASE EndPool(proc, "closing")
  BY <1>1, <1>2, EndPoolType DEF PoolTyped
<1>3. CASE NewPool(proc, "testing") /\ UNCHANGED ended
  BY <1>1, <1>3, NewPoolType DEF PoolTyped
<1> QED BY <1>2, <1>3 DEF InitializePool

(* The connect that follows the closing of the old pool keeps the types.   *)
LEMMA ConnectAgainType ==
  ASSUME TypeOK, NEW q \in Callers, ConnectAgain(q), UNCHANGED ended, UNCHANGED <<mode, count>>
  PROVE  PoolTyped' /\ RestTyped'
<1>1. q \in Procs /\ "credentials" \in Labels /\ "testing" \in Labels /\ 0 \in 0..created
  BY DEF Procs, Labels, Looping, TypeOK
<1>2. CASE ~original /\ ConnectFailed(q) /\ pool' = 0 /\ UNCHANGED <<original, iam, timer, created>>
  <2>1. PoolTyped' /\ attempt' \in [Callers -> 1..MaxAttempts] /\ reconnecting' \in BOOLEAN
    BY <1>1, <1>2, ConnectFailedType
  <2> QED BY <1>2, <2>1 DEF RestTyped, TypeOK
<1>3. CASE original /\ iam' = (mode = "iam") /\ UNCHANGED <<original, timer, reconnecting, attempt>>
  <2>1. RestTyped'
    BY <1>3 DEF RestTyped, TypeOK
  <2>2. CASE GotoHolding(q, "credentials", 0) /\ pool' = 0 /\ UNCHANGED <<created, gaveUp>>
    <3>1. pc' \in [Procs -> Labels] /\ hold' \in [Procs -> 0..created']
      BY <1>1, <2>2, GotoHoldingType DEF TypeOK
    <3> QED BY <2>1, <2>2, <3>1 DEF PoolTyped, TypeOK
  <2>3. CASE NewPool(q, "testing")
    <3>1. PoolTyped'
      BY <1>1, <2>3, NewPoolType DEF PoolTyped
    <3> QED BY <2>1, <3>1
  <2> QED BY <1>3, <2>2, <2>3 DEF ConnectAgain
<1> QED BY <1>2, <1>3 DEF ConnectAgain

(* The steps of connect keep the types.                                    *)
LEMMA ConnectStepType ==
  ASSUME TypeOK, NEW proc \in Callers \cup {App}, ConnectStep(proc)
  PROVE  PoolTyped' /\ RestTyped'
<1>1. proc \in Procs /\ "idle" \in Labels /\ "testing" \in Labels /\ 0 \in 0..created
  BY DEF Procs, Labels, Looping, TypeOK
<1>2. CASE GotCredentials(proc)
  <2>1. CASE timer' = TRUE /\ InitializePool(proc) /\ NoFault /\ UNCHANGED <<original, iam, reconnecting, attempt>>
    <3>1. PoolTyped'
      BY <1>1, <2>1, InitializePoolType
    <3>2. RestTyped'
      BY <1>2, <2>1 DEF RestTyped, TypeOK, GotCredentials, NoFault
    <3> QED BY <3>1, <3>2
  <2>2. CASE Fault /\ ConnectFailed(proc) /\ UNCHANGED <<original, iam, timer, poolVars>>
    <3>1. PoolTyped' /\ attempt' \in [Callers -> 1..MaxAttempts] /\ reconnecting' \in BOOLEAN
      BY <1>1, <2>2, ConnectFailedType DEF poolVars, TypeOK
    <3>2. RestTyped'
      BY <1>2, <2>2, <3>1, FaultType DEF RestTyped, TypeOK, GotCredentials
    <3> QED BY <3>1, <3>2
  <2> QED BY <1>2, <2>1, <2>2 DEF GotCredentials
<1>3. CASE Closed(proc)
  <2>1. PoolTyped'
    BY <1>1, <1>3, NewPoolType DEF Closed, PoolTyped
  <2>2. RestTyped'
    BY <1>3 DEF Closed, RestTyped, TypeOK, configVars
  <2> QED BY <2>1, <2>2
<1>4. CASE Tested(proc)
  <2>0. UNCHANGED <<mode, original, iam, timer, poolVars>>
    BY <1>4 DEF Tested
  <2>1. CASE NoFault /\ proc = App /\ GotoHolding(proc, "idle", 0) /\ UNCHANGED <<reconnecting, attempt, gaveUp>>
    <3>1. pc' \in [Procs -> Labels] /\ hold' \in [Procs -> 0..created']
      BY <1>1, <2>0, <2>1, GotoHoldingType DEF TypeOK, poolVars
    <3> QED BY <2>0, <2>1, <3>1 DEF PoolTyped, RestTyped, TypeOK, poolVars, NoFault
  <2>2. CASE NoFault /\ proc \in Callers /\ reconnecting' = FALSE /\ StartQuery(proc, "retrying") /\ UNCHANGED <<attempt, gaveUp>>
    <3>1. PoolTyped'
      BY <2>0, <2>2, StartQueryType
    <3> QED BY <2>0, <2>2, <3>1 DEF RestTyped, TypeOK, NoFault
  <2>3. CASE Fault /\ ConnectFailed(proc)
    <3>1. PoolTyped' /\ attempt' \in [Callers -> 1..MaxAttempts] /\ reconnecting' \in BOOLEAN
      BY <1>1, <2>0, <2>3, ConnectFailedType DEF poolVars, TypeOK
    <3> QED BY <2>0, <2>3, <3>1, FaultType DEF RestTyped, TypeOK
  <2> QED BY <1>4, <2>1, <2>2, <2>3 DEF Tested
<1> QED BY <1>2, <1>3, <1>4 DEF ConnectStep

(* The steps of a query keep the types.                                    *)
LEMMA QueryType ==
  ASSUME TypeOK, NEW q \in Callers, Query(q) \/ AuthError(q) \/ QueryStep(q)
  PROVE  PoolTyped' /\ RestTyped'
<1>1. q \in Procs /\ {"idle", "sleeping", "reclosing"} \subseteq Labels /\ 0 \in 0..created
  BY DEF Procs, Labels, Looping, TypeOK
<1>2. CASE Query(q)
  <2>1. PoolTyped'
    BY <1>2, StartQueryType DEF Query
  <2> QED BY <1>2, <2>1 DEF Query, RestTyped, TypeOK, configVars
<1>3. CASE AuthError(q)
  <2>0. UNCHANGED <<mode, original, iam, timer, poolVars, gaveUp>> /\ count' \in [connects: Nat, refreshes: Nat, faults: Nat]
    BY <1>3, FaultType DEF AuthError
  <2>1. CASE reconnecting' = TRUE /\ attempt' = [attempt EXCEPT ![q] = 1] /\ GotoHolding(q, "sleeping", 0)
    <3>1. pc' \in [Procs -> Labels] /\ hold' \in [Procs -> 0..created']
      BY <1>1, <2>0, <2>1, GotoHoldingType DEF TypeOK, poolVars
    <3>2. attempt' \in [Callers -> 1..MaxAttempts]
      BY <2>1 DEF TypeOK
    <3> QED BY <2>0, <2>1, <3>1, <3>2 DEF PoolTyped, RestTyped, TypeOK, poolVars
  <2>2. CASE StartQuery(q, "retrying") /\ UNCHANGED <<reconnecting, attempt>>
    <3>1. PoolTyped'
      BY <2>0, <2>2, StartQueryType
    <3> QED BY <2>0, <2>2, <3>1 DEF RestTyped, TypeOK
  <2> QED BY <1>3, <2>1, <2>2 DEF AuthError
<1>4. CASE Answered(q)
  <2>1. pc' \in [Procs -> Labels] /\ hold' \in [Procs -> 0..created']
    BY <1>1, <1>4, GotoHoldingType DEF Answered, TypeOK, poolVars
  <2> QED BY <1>4, <2>1 DEF Answered, PoolTyped, RestTyped, TypeOK, poolVars, configVars
<1>5. CASE AttemptReconnection(q)
  <2>1. CASE EndPool(q, "reclosing") /\ UNCHANGED <<configVars, attempt>>
    <3>1. PoolTyped'
      BY <1>1, <2>1, EndPoolType DEF PoolTyped
    <3> QED BY <1>5, <2>1, <3>1 DEF AttemptReconnection, RestTyped, TypeOK, configVars
  <2>2. CASE ConnectAgain(q) /\ UNCHANGED ended
    BY <1>5, <2>2, ConnectAgainType DEF AttemptReconnection
  <2> QED BY <1>5, <2>1, <2>2 DEF AttemptReconnection
<1>6. CASE Reclosed(q)
  BY <1>6, ConnectAgainType DEF Reclosed
<1>7. CASE ConnectStep(q)
  BY <1>7, ConnectStepType
<1> QED BY <1>2, <1>3, <1>4, <1>5, <1>6, <1>7 DEF QueryStep

(* The steps of the timer's refresh keep the types.                        *)
LEMMA RefreshType ==
  ASSUME TypeOK, Fire \/ RefreshStep
  PROVE  PoolTyped' /\ RestTyped'
<1>1. Refresher \in Procs /\ {"idle", "fetching", "ending", "probing"} \subseteq Labels /\ 0 \in 0..created
  BY DEF Procs, Labels, Refreshing, TypeOK
<1>2. CASE Fire
  <2>1. pc' \in [Procs -> Labels] /\ hold' \in [Procs -> 0..created']
    BY <1>1, <1>2, GotoHoldingType DEF Fire, TypeOK, poolVars
  <2>2. count' \in [connects: Nat, refreshes: Nat, faults: Nat]
    BY <1>2 DEF Fire, TypeOK
  <2> QED BY <1>2, <2>1, <2>2 DEF Fire, PoolTyped, RestTyped, TypeOK, poolVars
<1>3. CASE Fetched
  <2>0. UNCHANGED <<mode, configVars, attempt>> /\ count' \in [connects: Nat, refreshes: Nat, faults: Nat]
    BY <1>3, FaultType DEF Fetched
  <2>1. RestTyped'
    BY <2>0 DEF RestTyped, TypeOK, configVars
  <2>2. CASE NewPool(Refresher, "probing") /\ UNCHANGED ended
    BY <1>1, <2>1, <2>2, NewPoolType DEF PoolTyped
  <2>3. CASE EndPool(Refresher, "ending")
    BY <1>1, <2>1, <2>3, EndPoolType DEF PoolTyped
  <2>4. CASE GotoHolding(Refresher, "idle", 0) /\ UNCHANGED <<poolVars, gaveUp>>
    <3>1. pc' \in [Procs -> Labels] /\ hold' \in [Procs -> 0..created']
      BY <1>1, <2>4, GotoHoldingType DEF TypeOK, poolVars
    <3> QED BY <2>1, <2>4, <3>1 DEF PoolTyped, TypeOK, poolVars
  <2> QED BY <1>3, <2>2, <2>3, <2>4 DEF Fetched
<1>4. CASE Renew
  <2>1. PoolTyped'
    BY <1>1, <1>4, NewPoolType DEF Renew, PoolTyped
  <2> QED BY <1>4, <2>1 DEF Renew, RestTyped, TypeOK, configVars
<1>5. CASE Probed
  <2>0. count' \in [connects: Nat, refreshes: Nat, faults: Nat] /\ timer' \in BOOLEAN
    BY <1>5, FaultType DEF Probed, TypeOK
  <2>1. pc' \in [Procs -> Labels] /\ hold' \in [Procs -> 0..created']
    BY <1>1, <1>5, GotoHoldingType DEF Probed, TypeOK, poolVars
  <2> QED BY <1>5, <2>0, <2>1 DEF Probed, PoolTyped, RestTyped, TypeOK, poolVars
<1> QED BY <1>2, <1>3, <1>4, <1>5 DEF RefreshStep

(* What the application does keeps the types.                              *)
LEMMA ApplicationType ==
  ASSUME TypeOK, AppConnect \/ Disconnect
  PROVE  PoolTyped' /\ RestTyped'
<1>1. App \in Procs /\ "credentials" \in Labels /\ 0 \in 0..created
  BY DEF Procs, Labels, Looping, TypeOK
<1>2. CASE AppConnect
  <2>1. count' \in [connects: Nat, refreshes: Nat, faults: Nat]
    BY <1>2 DEF AppConnect, TypeOK
  <2>2. RestTyped'
    BY <1>2, <2>1 DEF AppConnect, RestTyped, TypeOK
  <2>3. CASE GotoHolding(App, "credentials", 0) /\ UNCHANGED <<poolVars, gaveUp>>
    <3>1. pc' \in [Procs -> Labels] /\ hold' \in [Procs -> 0..created']
      BY <1>1, <2>3, GotoHoldingType DEF TypeOK, poolVars
    <3> QED BY <2>2, <2>3, <3>1 DEF PoolTyped, TypeOK, poolVars
  <2>4. CASE InitializePool(App)
    BY <1>1, <2>2, <2>4, InitializePoolType
  <2> QED BY <1>2, <2>3, <2>4 DEF AppConnect
<1>3. CASE Disconnect
  <2>1. created' = created /\ pool' = pool /\ {pool} \ {0} \subseteq 1..created
    BY <1>3 DEF Disconnect, TypeOK
  <2>2. ended' \subseteq 1..created'
    BY <1>3, <2>1 DEF Disconnect, TypeOK
  <2> QED BY <1>3, <2>1, <2>2 DEF Disconnect, PoolTyped, RestTyped, TypeOK, procVars
<1> QED BY <1>2, <1>3

(* Every step keeps the types.                                             *)
LEMMA TypeStep == TypeOK /\ [Next]_vars => TypeOK'
<1> SUFFICES ASSUME TypeOK, [Next]_vars PROVE TypeOK'
  OBVIOUS
<1>1. CASE Next
  <2>1. Actions /\ History
    BY <1>1, NextIsActions
  <2>2. PoolTyped' /\ RestTyped'
    BY <2>1, ApplicationType, ConnectStepType, QueryType, RefreshType DEF Actions
  <2>3. (mishaps \subseteq Mishaps)'
    BY <2>1 DEF History, TypeOK, Mishaps
  <2> QED BY <2>2, <2>3 DEF TypeOK, PoolTyped, RestTyped
<1>2. CASE UNCHANGED vars
  BY <1>2 DEF TypeOK, vars, configVars, poolVars, procVars
<1> QED BY <1>1, <1>2

(* The variables keep their types (redshift.db.ts:53-514).                 *)
THEOREM TypeCorrect == Spec => []TypeOK
<1>1. ASSUME Init PROVE TypeOK
  <2>1. "idle" \in Labels /\ 1 \in 1..MaxAttempts /\ 0 \in 0..created
    BY <1>1 DEF Labels, Init
  <2>2. pc \in [Procs -> Labels] /\ hold \in [Procs -> 0..created] /\ attempt \in [Callers -> 1..MaxAttempts]
    BY <1>1, <2>1 DEF Init
  <2>3. count \in [connects: Nat, refreshes: Nat, faults: Nat]
    BY <1>1 DEF Init
  <2>4. original \in BOOLEAN /\ iam \in BOOLEAN /\ timer \in BOOLEAN /\ reconnecting \in BOOLEAN /\ gaveUp \in BOOLEAN
    BY <1>1 DEF Init
  <2> QED BY <1>1, <2>2, <2>3, <2>4 DEF Init, TypeOK
<1> QED BY <1>1, TypeStep, PTL DEF Spec
-----------------------------------------------------------------------------
(* While no installation has overlapped a replacement, only the current    *)
(* pool is open, and not even that one while it is being replaced.         *)
LeakInv ==
  "overlap" \notin mishaps =>
    /\ Open \subseteq {pool}
    /\ At(Replacing) # {} => Open = {}

(* Histories only grow.                                                    *)
LEMMA HistoryGrows == History => mishaps \subseteq mishaps'
  BY DEF History

(* A new pool installed without an overlap: nobody else is replacing.      *)
LEMMA InstalledAlone ==
  ASSUME TypeOK, NEW proc \in Procs, NEW label \in Labels \ Replacing,
         NewPool(proc, label), History, "overlap" \notin mishaps'
  PROVE  At(Replacing)' = {}
<1>1. created' # created
  BY DEF NewPool, TypeOK
<1>2. pc' = [pc EXCEPT ![proc] = label]
  BY DEF NewPool, GotoHolding, Goto
<1>3. \A other \in Procs : other # proc => pc[other] \notin Replacing
  BY <1>1, <1>2 DEF History, Overlapping, TypeOK
<1> QED BY <1>2, <1>3 DEF At, TypeOK

(* The new pool is then the only one open, when no other was.              *)
LEMMA NewPoolKeepsLeak ==
  ASSUME TypeOK, NEW proc \in Procs, NEW label \in Labels \ Replacing,
         NewPool(proc, label), UNCHANGED ended, History, "overlap" \notin mishaps', Open = {}
  PROVE  LeakInv'
<1>1. At(Replacing)' = {}
  BY InstalledAlone
<1>2. created' = created + 1 /\ pool' = created + 1 /\ ended' = ended /\ created \in Nat
  BY DEF NewPool, TypeOK
<1>3. Open' \subseteq {pool'}
  BY <1>2 DEF Open
<1> QED BY <1>1, <1>3 DEF LeakInv

(* Ending the pool leaves none open.                                       *)
LEMMA EndPoolKeepsLeak ==
  ASSUME LeakInv, "overlap" \notin mishaps, created' = created, pool' = pool,
         ended' = ended \cup ({pool} \ {0})
  PROVE  Open' = {} /\ LeakInv'
<1>1. 0 \notin Open
  BY DEF Open
<1>2. Open' = {}
  BY <1>1 DEF LeakInv, Open
<1> QED BY <1>2 DEF LeakInv

(* A step that leaves the pools alone and starts no replacement.           *)
LEMMA StillKeepsLeak ==
  ASSUME LeakInv, "overlap" \notin mishaps, UNCHANGED poolVars, At(Replacing)' \subseteq At(Replacing)
  PROVE  LeakInv'
  BY DEF LeakInv, poolVars, Open

(* A process that goes elsewhere does not start a replacement.             *)
LEMMA ElsewhereStartsNone ==
  ASSUME TypeOK, NEW proc \in Procs, NEW label \in Labels \ Replacing, Goto(proc, label)
  PROVE  At(Replacing)' \subseteq At(Replacing)
  BY DEF TypeOK, Goto, At

(* Closing the pool and putting a new one in its place.                    *)
LEMMA InitializePoolKeepsLeak ==
  ASSUME TypeOK, LeakInv, NEW proc \in Procs, InitializePool(proc), History, "overlap" \notin mishaps'
  PROVE  LeakInv'
<1>1. "overlap" \notin mishaps
  BY HistoryGrows
<1>2. CASE EndPool(proc, "closing")
  <2>1. pool \in Open /\ created' = created /\ pool' = pool /\ ended' = ended \cup ({pool} \ {0})
    BY <1>2 DEF EndPool, Open
  <2> QED BY <1>1, <2>1, EndPoolKeepsLeak
<1>3. CASE pool \notin Open /\ NewPool(proc, "testing") /\ UNCHANGED ended
  <2>1. Open = {} /\ "testing" \in Labels \ Replacing
    BY <1>1, <1>3 DEF LeakInv, Labels, Looping, Replacing
  <2> QED BY <1>3, <2>1, NewPoolKeepsLeak
<1> QED BY <1>2, <1>3 DEF InitializePool

(* Connecting again once no pool is open.                                  *)
LEMMA ConnectAgainKeepsLeak ==
  ASSUME TypeOK, LeakInv, NEW q \in Callers, ConnectAgain(q), UNCHANGED ended, Open = {},
         History, "overlap" \notin mishaps'
  PROVE  LeakInv'
<1>1. "testing" \in Labels \ Replacing /\ q \in Procs
  BY DEF Labels, Looping, Replacing, Procs
<1>2. CASE NewPool(q, "testing")
  BY <1>1, <1>2, NewPoolKeepsLeak
<1>3. CASE pool' = 0 /\ created' = created
  BY <1>3 DEF LeakInv, Open
<1> QED BY <1>2, <1>3 DEF ConnectAgain

(* A failed connect and a started query are elsewhere.                     *)
LEMMA FailedStartsNone ==
  ASSUME TypeOK, NEW proc \in Procs, ConnectFailed(proc) \/ \E label \in {"querying", "retrying"} : StartQuery(proc, label)
  PROVE  At(Replacing)' \subseteq At(Replacing)
<1>1. {"idle", "sleeping", "querying", "retrying"} \subseteq Labels \ Replacing
  BY DEF Labels, Looping, Replacing
<1>2. \E label \in {"idle", "sleeping", "querying", "retrying"} : Goto(proc, label)
  BY DEF ConnectFailed, StartQuery, GotoHolding
<1> QED BY <1>1, <1>2, ElsewhereStartsNone

(* Every step keeps LeakInv: a pool is installed only where none is open,  *)
(* and whoever has closed one without a successor keeps the rest away.     *)
LEMMA LeakStep == TypeOK /\ LeakInv /\ [Next]_vars => LeakInv'
<1> SUFFICES ASSUME TypeOK, LeakInv, Next, "overlap" \notin mishaps' PROVE LeakInv'
  BY DEF LeakInv, vars, poolVars, procVars, Open, At
<1>0. Actions /\ History /\ "overlap" \notin mishaps
  BY NextIsActions, HistoryGrows
<1>1. /\ {"idle", "sleeping", "credentials", "testing", "fetching", "probing", "querying", "retrying"} \subseteq Labels \ Replacing
      /\ App \in Procs /\ Refresher \in Procs /\ Callers \subseteq Procs
  BY DEF Labels, Looping, Refreshing, Replacing, Procs
<1>2. CASE AppConnect
  <2>1. CASE GotoHolding(App, "credentials", 0) /\ UNCHANGED poolVars
    BY <1>0, <1>1, <2>1, ElsewhereStartsNone, StillKeepsLeak DEF GotoHolding
  <2>2. CASE InitializePool(App)
    BY <1>0, <1>1, <2>2, InitializePoolKeepsLeak
  <2> QED BY <1>2, <2>1, <2>2 DEF AppConnect
<1>3. CASE Disconnect
  BY <1>0, <1>3, EndPoolKeepsLeak DEF Disconnect
<1>4. ASSUME NEW proc \in Callers \cup {App}, ConnectStep(proc) PROVE LeakInv'
  <2>1. CASE GotCredentials(proc)
    <3>1. CASE InitializePool(proc)
      BY <1>0, <1>1, <3>1, InitializePoolKeepsLeak
    <3>2. CASE ConnectFailed(proc) /\ UNCHANGED poolVars
      BY <1>0, <1>1, <3>2, FailedStartsNone, StillKeepsLeak
    <3> QED BY <2>1, <3>1, <3>2 DEF GotCredentials
  <2>2. CASE Closed(proc)
    <3>1. Open = {}
      BY <1>0, <1>1, <2>2 DEF LeakInv, At, Closed, Replacing
    <3> QED BY <1>0, <1>1, <2>2, <3>1, NewPoolKeepsLeak DEF Closed
  <2>3. CASE Tested(proc)
    <3>1. At(Replacing)' \subseteq At(Replacing)
      BY <1>1, <2>3, ElsewhereStartsNone, FailedStartsNone DEF Tested, GotoHolding
    <3> QED BY <1>0, <2>3, <3>1, StillKeepsLeak DEF Tested
  <2> QED BY <1>4, <2>1, <2>2, <2>3 DEF ConnectStep
<1>5. ASSUME NEW q \in Callers, Query(q) \/ AuthError(q) \/ Answered(q) PROVE LeakInv'
  <2>1. UNCHANGED poolVars
    BY <1>5 DEF Query, AuthError, Answered
  <2>2. At(Replacing)' \subseteq At(Replacing)
    BY <1>1, <1>5, ElsewhereStartsNone, FailedStartsNone DEF Query, AuthError, Answered, GotoHolding
  <2> QED BY <1>0, <2>1, <2>2, StillKeepsLeak
<1>6. ASSUME NEW q \in Callers, AttemptReconnection(q) PROVE LeakInv'
  <2>1. CASE EndPool(q, "reclosing")
    <3>1. pool \in Open /\ created' = created /\ pool' = pool /\ ended' = ended \cup ({pool} \ {0})
      BY <2>1 DEF EndPool, Open
    <3> QED BY <1>0, <3>1, EndPoolKeepsLeak
  <2>2. CASE pool \notin Open /\ ConnectAgain(q) /\ UNCHANGED ended
    <3>1. Open = {}
      BY <1>0, <2>2 DEF LeakInv
    <3> QED BY <1>0, <2>2, <3>1, ConnectAgainKeepsLeak
  <2> QED BY <1>6, <2>1, <2>2 DEF AttemptReconnection
<1>7. ASSUME NEW q \in Callers, Reclosed(q) PROVE LeakInv'
  <2>1. Open = {}
    BY <1>0, <1>1, <1>7 DEF LeakInv, At, Reclosed, Replacing
  <2> QED BY <1>0, <1>7, <2>1, ConnectAgainKeepsLeak DEF Reclosed
<1>8. CASE Fire
  BY <1>0, <1>1, <1>8, ElsewhereStartsNone, StillKeepsLeak DEF Fire, GotoHolding
<1>9. CASE Fetched
  <2>1. CASE pool = 0 /\ NewPool(Refresher, "probing") /\ UNCHANGED ended
    <3>1. Open = {}
      BY <1>0, <2>1 DEF LeakInv, Open
    <3> QED BY <1>0, <1>1, <2>1, <3>1, NewPoolKeepsLeak
  <2>2. CASE EndPool(Refresher, "ending")
    <3>1. pool \in Open /\ created' = created /\ pool' = pool /\ ended' = ended \cup ({pool} \ {0})
      BY <2>2 DEF EndPool, Open
    <3> QED BY <1>0, <3>1, EndPoolKeepsLeak
  <2>3. CASE GotoHolding(Refresher, "idle", 0) /\ UNCHANGED poolVars
    BY <1>0, <1>1, <2>3, ElsewhereStartsNone, StillKeepsLeak DEF GotoHolding
  <2> QED BY <1>9, <2>1, <2>2, <2>3 DEF Fetched
<1>10. CASE Renew
  <2>1. Open = {}
    BY <1>0, <1>1, <1>10 DEF LeakInv, At, Renew, Replacing
  <2> QED BY <1>0, <1>1, <1>10, <2>1, NewPoolKeepsLeak DEF Renew
<1>11. CASE Probed
  BY <1>0, <1>1, <1>11, ElsewhereStartsNone, StillKeepsLeak DEF Probed, GotoHolding
<1> QED BY <1>0, <1>2, <1>3, <1>4, <1>5, <1>6, <1>7, <1>8, <1>9, <1>10, <1>11
        DEF Actions, QueryStep, RefreshStep

(* A replaced pool is closed unless replacements overlapped                *)
(* (redshift.db.ts:164-181, 292-304, 397-405).                             *)
THEOREM LeaksOnlyByOverlap == Spec => []LeaksNeedOverlap
<1>1. Init => LeakInv
  BY DEF Init, LeakInv, Open, At, Replacing
<1>2. LeakInv => LeaksNeedOverlap
  BY DEF LeakInv, LeaksNeedOverlap
<1> QED BY <1>1, <1>2, LeakStep, TypeCorrect, PTL DEF Spec
-----------------------------------------------------------------------------
(* Without a disconnect under a reconnection, isReconnecting stands for    *)
(* the one caller that reconnects, with a configuration.                   *)
ExclusiveInv ==
  "interrupted" \notin mishaps =>
    /\ \A q1, q2 \in Loops : q1 = q2
    /\ reconnecting <=> Loops # {}
    /\ Loops # {} => original

(* A caller that neither starts nor ends a reconnection.                   *)
LEMMA StillKeepsExclusive ==
  ASSUME TypeOK, ExclusiveInv, "interrupted" \notin mishaps, NEW q \in Callers, NEW label \in Labels,
         Goto(q, label), reconnecting' = reconnecting, original' = original,
         pc[q] \in Looping <=> label \in Looping
  PROVE  ExclusiveInv'
<1>1. Loops' = Loops
  BY DEF TypeOK, Goto, Loops, Procs
<1> QED BY <1>1 DEF ExclusiveInv

(* The caller that reconnects stops, and clears the flag.                  *)
LEMMA StopKeepsExclusive ==
  ASSUME TypeOK, ExclusiveInv, "interrupted" \notin mishaps, NEW q \in Callers, NEW label \in Labels \ Looping,
         Goto(q, label), pc[q] \in Looping, reconnecting' = FALSE
  PROVE  ExclusiveInv'
<1>1. q \in Loops /\ \A r \in Loops : r = q
  BY DEF ExclusiveInv, Loops
<1>2. Loops' = {}
  BY <1>1 DEF TypeOK, Goto, Loops, Procs
<1> QED BY <1>2 DEF ExclusiveInv

(* A process that is no caller does not count.                             *)
LEMMA OthersKeepExclusive ==
  ASSUME TypeOK, ExclusiveInv, "interrupted" \notin mishaps, NEW proc \in {App, Refresher}, NEW label,
         Goto(proc, label), reconnecting' = reconnecting, original => original'
  PROVE  ExclusiveInv'
<1>1. Loops' = Loops
  BY DEF TypeOK, Goto, Loops, Procs
<1> QED BY <1>1 DEF ExclusiveInv

(* A failed attempt is followed by another or ends the reconnection.       *)
LEMMA FailedKeepsExclusive ==
  ASSUME TypeOK, ExclusiveInv, "interrupted" \notin mishaps, NEW q \in Callers, ConnectFailed(q), pc[q] \in Looping,
         original' = original
  PROVE  ExclusiveInv'
<1>1. "sleeping" \in Looping /\ "sleeping" \in Labels /\ "idle" \in Labels \ Looping
  BY DEF Looping, Labels, Refreshing
<1>2. CASE Goto(q, "sleeping") /\ UNCHANGED reconnecting
  BY <1>1, <1>2, StillKeepsExclusive
<1>3. CASE Goto(q, "idle") /\ reconnecting' = FALSE
  BY <1>1, <1>3, StopKeepsExclusive
<1> QED BY <1>2, <1>3 DEF ConnectFailed, GotoHolding

(* The steps that only move a reconnection along.                          *)
LEMMA LoopingKeepsExclusive ==
  ASSUME TypeOK, ExclusiveInv, "interrupted" \notin mishaps, NEW q \in Callers, pc[q] \in Looping,
         UNCHANGED <<reconnecting, original>>, \E label \in Looping : Goto(q, label)
  PROVE  ExclusiveInv'
<1>1. Looping \subseteq Labels
  BY DEF Labels
<1> QED BY <1>1, StillKeepsExclusive

(* Connecting again moves the reconnection along, or fails it.             *)
LEMMA ConnectAgainKeepsExclusive ==
  ASSUME TypeOK, ExclusiveInv, "interrupted" \notin mishaps, NEW q \in Callers, pc[q] \in Looping, ConnectAgain(q)
  PROVE  ExclusiveInv'
<1>0. original' = original
  BY DEF ConnectAgain
<1>1. CASE ConnectFailed(q)
  BY <1>0, <1>1, FailedKeepsExclusive
<1>2. CASE GotoHolding(q, "credentials", 0) /\ UNCHANGED reconnecting
  BY <1>0, <1>2, LoopingKeepsExclusive DEF GotoHolding, Looping
<1>3. CASE NewPool(q, "testing") /\ UNCHANGED reconnecting
  BY <1>0, <1>3, LoopingKeepsExclusive DEF NewPool, GotoHolding, Looping
<1> QED BY <1>1, <1>2, <1>3 DEF ConnectAgain

(* Replacing the pool moves the reconnection along.                        *)
LEMMA InitializePoolMoves ==
  ASSUME NEW proc, InitializePool(proc)
  PROVE  \E label \in Looping : Goto(proc, label)
  BY DEF InitializePool, EndPool, NewPool, GotoHolding, Looping

(* Every step keeps ExclusiveInv: the flag is looked at and set in one go. *)
LEMMA ExclusiveStep == TypeOK /\ ExclusiveInv /\ [Next]_vars => ExclusiveInv'
<1> SUFFICES ASSUME TypeOK, ExclusiveInv, Next, "interrupted" \notin mishaps' PROVE ExclusiveInv'
  BY DEF ExclusiveInv, vars, configVars, procVars, Loops
<1>0. Actions /\ History /\ "interrupted" \notin mishaps
  BY NextIsActions, HistoryGrows
<1>1. {"idle", "querying", "retrying"} \subseteq Labels \ Looping /\ "sleeping" \in Labels /\ "sleeping" \in Looping
  BY DEF Labels, Looping
<1>2. CASE AppConnect
  <2>1. \E label : Goto(App, label)
    BY <1>2, InitializePoolMoves DEF AppConnect, GotoHolding
  <2> QED BY <1>0, <1>2, <2>1, OthersKeepExclusive DEF AppConnect
<1>3. CASE Disconnect
  <2>1. original => Loops = {}
    BY <1>0, <1>3 DEF History, Disconnect
  <2>2. Loops' = Loops /\ reconnecting' = FALSE
    BY <1>3 DEF Disconnect, Loops, procVars
  <2> QED BY <1>0, <2>1, <2>2 DEF ExclusiveInv
<1>4. CASE ConnectStep(App)
  <2>1. \E label : Goto(App, label)
    BY <1>4, InitializePoolMoves
       DEF ConnectStep, GotCredentials, Closed, Tested, ConnectFailed, GotoHolding, NewPool
  <2>2. UNCHANGED <<original, reconnecting>>
    BY <1>4 DEF ConnectStep, GotCredentials, Closed, Tested, ConnectFailed, configVars, ProcessAssumption
  <2> QED BY <1>0, <2>1, <2>2, OthersKeepExclusive
<1>5. ASSUME NEW q \in Callers, ConnectStep(q) PROVE ExclusiveInv'
  <2>0. pc[q] \in Looping
    BY <1>5 DEF ConnectStep, GotCredentials, Closed, Tested, Looping
  <2>1. CASE GotCredentials(q)
    <3>1. CASE InitializePool(q) /\ UNCHANGED <<original, reconnecting>>
      BY <1>0, <2>0, <3>1, InitializePoolMoves, LoopingKeepsExclusive
    <3>2. CASE ConnectFailed(q) /\ UNCHANGED original
      BY <1>0, <2>0, <3>2, FailedKeepsExclusive
    <3> QED BY <2>1, <3>1, <3>2 DEF GotCredentials
  <2>2. CASE Closed(q)
    BY <1>0, <2>0, <2>2, LoopingKeepsExclusive DEF Closed, NewPool, GotoHolding, Looping, configVars
  <2>3. CASE Tested(q)
    <3>1. CASE ConnectFailed(q)
      BY <1>0, <2>0, <2>3, <3>1, FailedKeepsExclusive DEF Tested
    <3>2. CASE reconnecting' = FALSE /\ StartQuery(q, "retrying")
      BY <1>0, <1>1, <2>0, <3>2, StopKeepsExclusive DEF StartQuery, GotoHolding
    <3> QED BY <2>3, <3>1, <3>2 DEF Tested
  <2> QED BY <1>5, <2>1, <2>2, <2>3 DEF ConnectStep
<1>6. ASSUME NEW q \in Callers, Query(q) \/ Answered(q) PROVE ExclusiveInv'
  <2>1. pc[q] \notin Looping /\ UNCHANGED <<original, reconnecting>>
    BY <1>6 DEF Query, Answered, Looping, configVars
  <2>2. \E label \in {"idle", "querying"} : Goto(q, label)
    BY <1>6 DEF Query, Answered, StartQuery, GotoHolding
  <2> QED BY <1>0, <1>1, <2>1, <2>2, StillKeepsExclusive
<1>7. ASSUME NEW q \in Callers, AuthError(q) PROVE ExclusiveInv'
  <2>0. pc[q] \notin Looping /\ original' = original
    BY <1>7 DEF AuthError, Looping
  <2>1. CASE original /\ ~reconnecting /\ reconnecting' = TRUE /\ GotoHolding(q, "sleeping", 0)
    <3>1. Loops = {}
      BY <1>0, <2>1 DEF ExclusiveInv
    <3>2. Loops' = {q}
      BY <1>1, <2>1, <3>1 DEF TypeOK, GotoHolding, Goto, Loops, Procs
    <3> QED BY <2>0, <2>1, <3>2 DEF ExclusiveInv
  <2>2. CASE StartQuery(q, "retrying") /\ UNCHANGED reconnecting
    BY <1>0, <1>1, <2>0, <2>2, StillKeepsExclusive DEF StartQuery, GotoHolding
  <2> QED BY <1>7, <2>1, <2>2 DEF AuthError
<1>8. ASSUME NEW q \in Callers, AttemptReconnection(q) PROVE ExclusiveInv'
  <2>0. pc[q] \in Looping
    BY <1>8 DEF AttemptReconnection, Looping
  <2>1. CASE EndPool(q, "reclosing") /\ UNCHANGED configVars
    BY <1>0, <2>0, <2>1, LoopingKeepsExclusive DEF EndPool, GotoHolding, Looping, configVars
  <2>2. CASE ConnectAgain(q)
    BY <1>0, <2>0, <2>2, ConnectAgainKeepsExclusive
  <2> QED BY <1>8, <2>1, <2>2 DEF AttemptReconnection
<1>9. ASSUME NEW q \in Callers, Reclosed(q) PROVE ExclusiveInv'
  BY <1>0, <1>9, ConnectAgainKeepsExclusive DEF Reclosed, Looping
<1>10. CASE Fire \/ RefreshStep
  <2>1. \E label : Goto(Refresher, label)
    BY <1>10 DEF Fire, RefreshStep, Fetched, Renew, Probed, NewPool, EndPool, GotoHolding
  <2>2. UNCHANGED <<original, reconnecting>>
    BY <1>10 DEF Fire, RefreshStep, Fetched, Renew, Probed, configVars
  <2> QED BY <1>0, <2>1, <2>2, OthersKeepExclusive
<1> QED BY <1>0, <1>2, <1>3, <1>4, <1>5, <1>6, <1>7, <1>8, <1>9, <1>10
        DEF Actions, QueryStep

(* At most one caller reconnects (redshift.db.ts:216-252).                 *)
THEOREM OneReconnection == Spec => []ReconnectionIsExclusive
<1>1. Init => ExclusiveInv
  BY DEF Init, ExclusiveInv, Loops, Looping, Procs
<1>2. ASSUME ExclusiveInv PROVE ReconnectionIsExclusive
  <2>1. CASE Loops = {} /\ "interrupted" \notin mishaps
    BY <1>2, <2>1, FS_EmptySet DEF ExclusiveInv, ReconnectionIsExclusive
  <2>2. CASE Loops # {} /\ "interrupted" \notin mishaps
    <3>1. PICK q \in Loops : Loops = {q}
      BY <1>2, <2>2 DEF ExclusiveInv
    <3>2. Cardinality(Loops) = 1
      BY <3>1, FS_Singleton
    <3> QED BY <1>2, <2>2, <3>2 DEF ExclusiveInv, ReconnectionIsExclusive
  <2> QED BY <2>1, <2>2 DEF ReconnectionIsExclusive
<1> QED BY <1>1, <1>2, ExclusiveStep, TypeCorrect, PTL DEF Spec
-----------------------------------------------------------------------------
(* Once disconnected, nothing is open or armed, and nobody is committed to *)
(* opening or arming anything.                                             *)
FinalInv ==
  ~original /\ mishaps \cap {"late", "overlap"} = {} =>
    Open = {} /\ ~timer /\ At(Committed) = {}

(* A step of a disconnected client that commits nobody.                    *)
LEMMA StillKeepsFinal ==
  ASSUME TypeOK, NEW proc \in Procs, NEW label \in Labels \ Committed, Goto(proc, label),
         Open = {}, ~timer, At(Committed) = {},
         ended' = ended, created' = created, timer' = timer
  PROVE  FinalInv'
<1>1. At(Committed)' = {}
  BY DEF TypeOK, Goto, At
<1>2. Open' = {}
  BY DEF Open
<1> QED BY <1>1, <1>2 DEF FinalInv

(* Every step keeps FinalInv: what wakes up after a disconnect finds no    *)
(* configuration, and no pool to query or to close.                        *)
LEMMA FinalStep == TypeOK /\ LeakInv /\ FinalInv /\ [Next]_vars => FinalInv'
<1> SUFFICES ASSUME TypeOK, LeakInv, FinalInv, Next, ~original', mishaps' \cap {"late", "overlap"} = {}
             PROVE  FinalInv'
  BY DEF FinalInv, vars, configVars, poolVars, procVars, Open, At
<1>0. Actions /\ History /\ mishaps \cap {"late", "overlap"} = {}
  BY NextIsActions, HistoryGrows
<1>1. /\ {"idle", "sleeping", "querying", "retrying"} \subseteq Labels \ Committed
      /\ App \in Procs /\ Refresher \in Procs /\ Callers \subseteq Procs
  BY DEF Labels, Looping, Committed, Procs
<1>2. CASE Disconnect
  <2>1. "overlap" \notin mishaps
    BY <1>0
  <2>2. Open' = {}
    BY <1>2, <2>1, EndPoolKeepsLeak DEF Disconnect
  <2>3. At(Committed) = {}
    BY <1>0, <1>2 DEF History, Disconnect, FinalInv
  <2>4. At(Committed)' = {}
    BY <1>2, <2>3 DEF Disconnect, At, procVars
  <2> QED BY <1>2, <2>2, <2>4 DEF Disconnect, FinalInv
<1>3. CASE ~original
  <2>0. Open = {} /\ ~timer /\ At(Committed) = {}
    BY <1>0, <1>3 DEF FinalInv
  <2>1. \A proc \in Procs : pc[proc] \notin Committed
    BY <2>0 DEF At
  <2>2. ASSUME NEW proc \in Callers \cup {App}, ConnectStep(proc) PROVE FinalInv'
    <3>1. Tested(proc)
      BY <1>1, <2>1, <2>2 DEF ConnectStep, GotCredentials, Closed, Committed
    <3>2. \E label \in {"idle", "sleeping", "retrying"} : Goto(proc, label)
      BY <3>1 DEF Tested, ConnectFailed, StartQuery, GotoHolding
    <3>3. ended' = ended /\ created' = created /\ timer' = timer
      BY <3>1 DEF Tested, poolVars
    <3> QED BY <1>1, <2>0, <3>2, <3>3, StillKeepsFinal
  <2>3. ASSUME NEW q \in Callers, Query(q) \/ AuthError(q) \/ Answered(q) PROVE FinalInv'
    <3>1. \E label \in {"idle", "sleeping", "querying", "retrying"} : Goto(q, label)
      BY <2>3 DEF Query, AuthError, Answered, StartQuery, GotoHolding
    <3>2. ended' = ended /\ created' = created /\ timer' = timer
      BY <2>3 DEF Query, AuthError, Answered, poolVars, configVars
    <3> QED BY <1>1, <2>0, <3>1, <3>2, StillKeepsFinal
  <2>4. ASSUME NEW q \in Callers, ConnectAgain(q), ended' = ended PROVE FinalInv'
    <3>1. ConnectFailed(q) /\ created' = created /\ timer' = timer
      BY <1>3, <2>4 DEF ConnectAgain
    <3>2. \E label \in {"idle", "sleeping"} : Goto(q, label)
      BY <3>1 DEF ConnectFailed, GotoHolding
    <3> QED BY <1>1, <2>0, <2>4, <3>1, <3>2, StillKeepsFinal
  <2>5. ASSUME NEW q \in Callers, AttemptReconnection(q) PROVE FinalInv'
    BY <2>0, <2>4, <2>5 DEF AttemptReconnection, EndPool
  <2>6. ASSUME NEW q \in Callers, Reclosed(q) PROVE FinalInv'
    BY <2>4, <2>6 DEF Reclosed
  <2>7. ~Fire /\ ~RefreshStep
    BY <1>1, <2>0, <2>1 DEF Fire, RefreshStep, Fetched, Renew, Probed, Committed
  <2>8. ~AppConnect
    BY DEF AppConnect
  <2> QED BY <1>0, <1>2, <2>2, <2>3, <2>5, <2>6, <2>7, <2>8 DEF Actions, QueryStep
<1>4. CASE original /\ ~Disconnect
  <2>1. original' = original \/ original' = TRUE
    BY <1>0, <1>4 DEF Actions, AppConnect, ConnectStep, GotCredentials, Closed, Tested, Query, AuthError,
       QueryStep, Answered, AttemptReconnection, ConnectAgain, Reclosed, Fire, RefreshStep, Fetched,
       Renew, Probed, configVars
  <2> QED BY <1>4, <2>1
<1> QED BY <1>2, <1>3, <1>4

(* Disconnecting is final unless it comes late or a pool has leaked        *)
(* (redshift.db.ts:198-200, 279-281, 486-502).                             *)
THEOREM DisconnectedForGood == Spec => []DisconnectIsFinal
<1>1. Init => LeakInv /\ FinalInv
  BY DEF Init, LeakInv, FinalInv, Open, At, Replacing, Committed
<1>2. FinalInv => DisconnectIsFinal
  BY DEF FinalInv, DisconnectIsFinal
<1> QED BY <1>1, <1>2, LeakStep, FinalStep, TypeCorrect, PTL DEF Spec
-----------------------------------------------------------------------------
(* A connected client without an open pool has somebody who will install   *)
(* one, or has failed to connect.                                          *)
Restoring == {"sleeping", "reclosing", "credentials", "closing", "ending"}

UsableInv ==
  original /\ ~gaveUp /\ pool \notin Open => At(Restoring) # {}

(* A new pool is open.                                                     *)
LEMMA NewPoolIsOpen ==
  ASSUME TypeOK, NEW proc, NEW label, NewPool(proc, label), ended' = ended
  PROVE  UsableInv'
<1>1. created' = created + 1 /\ pool' = created + 1 /\ created \in Nat /\ ended \subseteq 1..created
  BY DEF NewPool, TypeOK
<1>2. pool' \in Open'
  BY <1>1 DEF Open
<1> QED BY <1>2 DEF UsableInv

(* A process on its way to a new pool.                                     *)
LEMMA RestoringKeepsUsable ==
  ASSUME TypeOK, NEW proc \in Procs, NEW label \in Restoring, Goto(proc, label)
  PROVE  UsableInv'
<1>1. proc \in At(Restoring)'
  BY DEF TypeOK, Goto, At
<1> QED BY <1>1 DEF UsableInv

(* A process that was not needed goes elsewhere.                           *)
LEMMA StillKeepsUsable ==
  ASSUME TypeOK, UsableInv, NEW proc \in Procs, NEW label, Goto(proc, label), pc[proc] \notin Restoring,
         UNCHANGED <<poolVars, original, gaveUp>>
  PROVE  UsableInv'
<1>1. \A other \in At(Restoring) : other \in At(Restoring)'
  BY DEF TypeOK, Goto, At
<1>2. Open' = Open
  BY DEF Open, poolVars
<1> QED BY <1>1, <1>2 DEF UsableInv, poolVars

(* A failed connect is tried again, or gives up.                           *)
LEMMA FailedKeepsUsable ==
  ASSUME TypeOK, NEW proc \in Procs, ConnectFailed(proc)
  PROVE  UsableInv'
<1>1. CASE gaveUp' = TRUE
  BY <1>1 DEF UsableInv
<1>2. CASE Goto(proc, "sleeping")
  BY <1>2, RestoringKeepsUsable DEF Restoring
<1> QED BY <1>1, <1>2 DEF ConnectFailed, GotoHolding

(* Replacing the pool.                                                     *)
LEMMA InitializePoolKeepsUsable ==
  ASSUME TypeOK, NEW proc \in Procs, InitializePool(proc)
  PROVE  UsableInv'
  BY NewPoolIsOpen, RestoringKeepsUsable DEF InitializePool, EndPool, GotoHolding, Restoring

(* Connecting again.                                                       *)
LEMMA ConnectAgainKeepsUsable ==
  ASSUME TypeOK, NEW q \in Callers, ConnectAgain(q), ended' = ended
  PROVE  UsableInv'
<1>1. q \in Procs
  BY DEF Procs
<1> QED BY <1>1, FailedKeepsUsable, NewPoolIsOpen, RestoringKeepsUsable
        DEF ConnectAgain, GotoHolding, Restoring

(* Every step keeps UsableInv.                                             *)
LEMMA UsableStep == TypeOK /\ UsableInv /\ [Next]_vars => UsableInv'
<1> SUFFICES ASSUME TypeOK, UsableInv, Next PROVE UsableInv'
  BY DEF UsableInv, vars, configVars, poolVars, procVars, Open, At
<1>0. Actions
  BY NextIsActions
<1>1. App \in Procs /\ Refresher \in Procs /\ Callers \subseteq Procs
  BY DEF Procs
<1>2. CASE AppConnect
  BY <1>1, <1>2, InitializePoolKeepsUsable, RestoringKeepsUsable DEF AppConnect, GotoHolding, Restoring
<1>3. CASE Disconnect
  BY <1>3 DEF Disconnect, UsableInv
<1>4. ASSUME NEW proc \in Callers \cup {App}, ConnectStep(proc) PROVE UsableInv'
  <2>1. CASE GotCredentials(proc)
    BY <1>1, <2>1, InitializePoolKeepsUsable, FailedKeepsUsable DEF GotCredentials
  <2>2. CASE Closed(proc)
    BY <2>2, NewPoolIsOpen DEF Closed
  <2>3. CASE Tested(proc)
    <3>1. CASE ConnectFailed(proc)
      BY <1>1, <3>1, FailedKeepsUsable
    <3>2. CASE UNCHANGED gaveUp /\ \E label \in {"idle", "retrying"} : Goto(proc, label)
      BY <1>1, <2>3, <3>2, StillKeepsUsable DEF Tested, Restoring
    <3> QED BY <2>3, <3>1, <3>2 DEF Tested, StartQuery, GotoHolding
  <2> QED BY <1>4, <2>1, <2>2, <2>3 DEF ConnectStep
<1>5. ASSUME NEW q \in Callers, Query(q) \/ AuthError(q) \/ Answered(q) PROVE UsableInv'
  <2>1. \E label \in Labels : Goto(q, label)
    BY <1>5 DEF Query, AuthError, Answered, StartQuery, GotoHolding, Labels, Looping
  <2>2. pc[q] \notin Restoring /\ UNCHANGED <<poolVars, original, gaveUp>>
    BY <1>5 DEF Query, AuthError, Answered, Restoring, configVars
  <2> QED BY <1>1, <2>1, <2>2, StillKeepsUsable
<1>6. ASSUME NEW q \in Callers, AttemptReconnection(q) \/ Reclosed(q) PROVE UsableInv'
  BY <1>1, <1>6, ConnectAgainKeepsUsable, RestoringKeepsUsable
     DEF AttemptReconnection, Reclosed, EndPool, GotoHolding, Restoring
<1>7. CASE Fire
  BY <1>1, <1>7, StillKeepsUsable DEF Fire, GotoHolding, Restoring
<1>8. CASE RefreshStep
  <2>1. CASE Fetched
    <3>1. CASE NewPool(Refresher, "probing") /\ ended' = ended
      BY <3>1, NewPoolIsOpen
    <3>2. CASE EndPool(Refresher, "ending")
      BY <1>1, <3>2, RestoringKeepsUsable DEF EndPool, GotoHolding, Restoring
    <3>3. CASE GotoHolding(Refresher, "idle", 0) /\ UNCHANGED <<poolVars, gaveUp>>
      BY <1>1, <2>1, <3>3, StillKeepsUsable DEF Fetched, GotoHolding, Restoring, configVars
    <3> QED BY <2>1, <3>1, <3>2, <3>3 DEF Fetched
  <2>2. CASE Renew
    BY <2>2, NewPoolIsOpen DEF Renew
  <2>3. CASE Probed
    BY <1>1, <2>3, StillKeepsUsable DEF Probed, GotoHolding, Restoring
  <2> QED BY <1>8, <2>1, <2>2, <2>3 DEF RefreshStep
<1> QED BY <1>0, <1>2, <1>3, <1>4, <1>5, <1>6, <1>7, <1>8 DEF Actions, QueryStep

(* A connected client is usable unless reconnecting has failed for good    *)
(* (redshift.db.ts:214-253, 283-326).                                      *)
THEOREM UsableOrGivenUp == Spec => []UsableUnlessGivenUp
<1>1. Init => UsableInv
  BY DEF Init, UsableInv
<1>2. UsableInv => UsableUnlessGivenUp
  BY DEF UsableInv, UsableUnlessGivenUp, At, Restoring, Looping
<1> QED BY <1>1, <1>2, UsableStep, TypeCorrect, PTL DEF Spec
=============================================================================
