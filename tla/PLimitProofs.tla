----------------------------- MODULE PLimitProofs -----------------------------
(***************************************************************************)
(* The pool of PLimit is exact, work-conserving and first-come             *)
(* first-served, for every bound and every number of calls.                *)
(***************************************************************************)
EXTENDS PLimit, FiniteSetTheorems, TLAPS

USE ConcurrencyAssumption, MaxTasksAssumption

(* The queue is a segment of the calls: the last Len(queue) of them.       *)
Segment ==
  /\ Len(queue) \in 0..calls
  /\ \A i \in 1..Len(queue) : queue[i] = (calls - Len(queue)) + i
  /\ \A t \in Tasks : status[t] = "queued" <=> t \in (calls - Len(queue) + 1)..calls
  /\ \A t \in Tasks : status[t] = "new" <=> t > calls

PoolInv == TypeOK /\ Segment /\ BoundedInFlight /\ NoIdleSlot

(* The slots in use are finitely many.                                     *)
LEMMA InSlotFinite == IsFiniteSet(InSlot) /\ Cardinality(InSlot) \in Nat
<1>1. IsFiniteSet(Tasks)
  BY FS_Interval DEF Tasks
<1>2. InSlot \subseteq Tasks
  BY DEF InSlot
<1> QED
  BY <1>1, <1>2, FS_Subset, FS_CardinalityType

(* Initially the pool is empty.                                            *)
LEMMA PoolInvInit == Init => PoolInv
<1> SUFFICES ASSUME Init PROVE PoolInv
  OBVIOUS
<1>1. InSlot = {}
  BY DEF Init, InSlot
<1> QED
  BY <1>1, FS_EmptySet DEF Init, PoolInv, TypeOK, Segment, BoundedInFlight, NoIdleSlot, Tasks, Status

(* Every step keeps the accounting of the pool.                            *)
LEMMA PoolInvStep == PoolInv /\ [Next]_vars => PoolInv'
<1> SUFFICES ASSUME PoolInv, [Next]_vars PROVE PoolInv'
  OBVIOUS
<1>0. /\ activeCount \in Int /\ queue \in Seq(Tasks)
      /\ status \in [Tasks -> Status] /\ calls \in 0..MaxTasks
      /\ activeCount = Cardinality(InSlot) /\ activeCount <= Concurrency
      /\ Len(queue) \in Nat
  BY DEF PoolInv, TypeOK, BoundedInFlight
<1>1. ASSUME Submit, activeCount < Concurrency, queue = <<>>,
             activeCount' = activeCount + 1, calls' = calls + 1,
             status' = [status EXCEPT ![calls + 1] = "running"], UNCHANGED queue
      PROVE  PoolInv'
  <2>1. calls + 1 \in Tasks /\ status[calls + 1] = "new"
    BY <1>0, <1>1 DEF Submit, Tasks, PoolInv, Segment
  <2>2. InSlot' = InSlot \cup {calls + 1} /\ calls + 1 \notin InSlot
    BY <1>0, <1>1, <2>1 DEF InSlot
  <2>3. Cardinality(InSlot') = Cardinality(InSlot) + 1
    BY <2>2, InSlotFinite, FS_AddElement
  <2>4. TypeOK'
    BY <1>0, <1>1, <2>1 DEF TypeOK, Tasks, Status, Submit
  <2>5. BoundedInFlight'
    BY <1>0, <1>1, <2>3 DEF BoundedInFlight
  <2>6. Segment'
    BY <1>0, <1>1, <2>1 DEF PoolInv, Segment, Tasks
  <2> QED
    BY <1>1, <2>4, <2>5, <2>6 DEF PoolInv, NoIdleSlot
<1>2. ASSUME Submit, activeCount >= Concurrency,
             queue' = Append(queue, calls + 1), calls' = calls + 1,
             status' = [status EXCEPT ![calls + 1] = "queued"], UNCHANGED activeCount
      PROVE  PoolInv'
  <2>1. calls + 1 \in Tasks /\ status[calls + 1] = "new"
    BY <1>0, <1>2 DEF Submit, Tasks, PoolInv, Segment
  <2>2. InSlot' = InSlot
    BY <1>0, <1>2, <2>1 DEF InSlot
  <2>3. /\ queue' \in Seq(Tasks)
        /\ Len(queue') = Len(queue) + 1
        /\ \A i \in 1..Len(queue') :
             queue'[i] = IF i <= Len(queue) THEN queue[i] ELSE calls + 1
    BY <1>0, <1>2, <2>1
  <2>4. TypeOK'
    BY <1>0, <1>2, <2>1, <2>3 DEF TypeOK, Tasks, Status, Submit
  <2>5. \A i \in 1..Len(queue') : queue'[i] = (calls' - Len(queue')) + i
    BY <1>0, <1>2, <2>3 DEF PoolInv, Segment
  <2>6. Segment'
    BY <1>0, <1>2, <2>1, <2>3, <2>5 DEF PoolInv, Segment, Tasks
  <2> QED
    BY <1>0, <1>2, <2>2, <2>4, <2>6 DEF PoolInv, BoundedInFlight, NoIdleSlot
<1>3. ASSUME NEW t \in Tasks, End(t) PROVE PoolInv'
  <2>1. InSlot' = InSlot
    BY <1>0, <1>3 DEF End, InSlot
  <2>2. TypeOK'
    BY <1>0, <1>3 DEF End, TypeOK, Status
  <2>3. Segment'
    BY <1>0, <1>3 DEF End, PoolInv, Segment
  <2> QED
    BY <1>3, <2>1, <2>2, <2>3 DEF End, PoolInv, BoundedInFlight, NoIdleSlot
<1>4. ASSUME NEW t \in Tasks, Settle(t), queue = <<>> PROVE PoolInv'
  <2>1. /\ status[t] = "ended" /\ activeCount' = activeCount - 1
        /\ status' = [status EXCEPT ![t] = "settled"] /\ UNCHANGED <<queue, calls>>
    BY <1>4 DEF Settle
  <2>2. InSlot' = InSlot \ {t} /\ t \in InSlot
    BY <1>0, <2>1 DEF InSlot
  <2>3. Cardinality(InSlot') = Cardinality(InSlot) - 1
    BY <2>2, InSlotFinite, FS_RemoveElement
  <2>4. TypeOK'
    BY <1>0, <2>1 DEF TypeOK, Status
  <2>5. Segment'
    BY <1>0, <2>1 DEF PoolInv, Segment
  <2>6. BoundedInFlight'
    BY <1>0, <2>1, <2>3 DEF BoundedInFlight
  <2> QED
    BY <1>4, <2>1, <2>4, <2>5, <2>6 DEF PoolInv, NoIdleSlot
<1>5. ASSUME NEW t \in Tasks, Settle(t), queue # <<>> PROVE PoolInv'
  <2> DEFINE h == Head(queue)
  <2>1. /\ status[t] = "ended" /\ activeCount' = activeCount
        /\ status' = [status EXCEPT ![t] = "settled", ![h] = "running"]
        /\ queue' = Tail(queue) /\ UNCHANGED calls
    BY <1>0, <1>5 DEF Settle
  <2>2. /\ Len(queue) > 0 /\ h = queue[1] /\ h \in Tasks
        /\ queue' \in Seq(Tasks) /\ Len(queue') = Len(queue) - 1
        /\ \A i \in 1..Len(queue') : queue'[i] = queue[i + 1]
    BY <1>0, <1>5, <2>1
  <2>3. h = (calls - Len(queue)) + 1 /\ status[h] = "queued" /\ h # t
    <3>1. h = (calls - Len(queue)) + 1
      BY <1>0, <2>2 DEF PoolInv, Segment
    <3>2. h \in (calls - Len(queue) + 1)..calls
      BY <1>0, <2>2, <3>1
    <3>3. status[h] = "queued"
      BY <2>2, <3>2 DEF PoolInv, Segment
    <3> QED
      BY <2>1, <3>1, <3>3
  <2>4. InSlot' = (InSlot \ {t}) \cup {h} /\ t \in InSlot /\ h \notin InSlot \ {t}
    BY <1>0, <2>1, <2>2, <2>3 DEF InSlot
  <2>5. Cardinality(InSlot \ {t}) = Cardinality(InSlot) - 1 /\ IsFiniteSet(InSlot \ {t})
    BY <2>4, InSlotFinite, FS_RemoveElement
  <2>6. Cardinality(InSlot') = Cardinality(InSlot)
    <3> DEFINE S == InSlot \ {t}
    <3>1. Cardinality(S \cup {h}) = Cardinality(S) + 1
      BY <2>4, <2>5, FS_AddElement
    <3> QED
      BY <2>4, <2>5, <3>1, InSlotFinite
  <2>7. TypeOK'
    BY <1>0, <2>1, <2>2 DEF TypeOK, Status
  <2>8. \A i \in 1..Len(queue') : queue'[i] = (calls' - Len(queue')) + i
    BY <1>0, <2>1, <2>2 DEF PoolInv, Segment
  <2>9. \A s \in Tasks : /\ status'[s] = "queued" <=> status[s] = "queued" /\ s # h
                         /\ status'[s] = "new" <=> status[s] = "new"
    BY <1>0, <2>1, <2>2, <2>3
  <2>10. Segment'
    <3>1. Len(queue') \in 0..calls'
      BY <1>0, <2>1, <2>2 DEF PoolInv, Segment
    <3>2. \A s \in Tasks : status'[s] = "queued" <=> s \in (calls' - Len(queue') + 1)..calls'
      <4> SUFFICES ASSUME NEW s \in Tasks
                   PROVE  status'[s] = "queued" <=> s \in (calls' - Len(queue') + 1)..calls'
        OBVIOUS
      <4>1. status[s] = "queued" <=> s \in (calls - Len(queue) + 1)..calls
        BY DEF PoolInv, Segment
      <4>2. s \in Nat /\ calls \in Nat
        BY <1>0 DEF Tasks
      <4>3. s \in (calls' - Len(queue') + 1)..calls'
            <=> s \in (calls - Len(queue) + 1)..calls /\ s # h
        BY <1>0, <2>1, <2>2, <2>3, <4>2
      <4> QED
        BY <2>9, <4>1, <4>3
    <3>3. \A s \in Tasks : status'[s] = "new" <=> s > calls'
      BY <2>1, <2>9 DEF PoolInv, Segment
    <3> QED
      BY <2>8, <3>1, <3>2, <3>3 DEF Segment
  <2> QED
    BY <1>0, <1>5, <2>1, <2>6, <2>7, <2>10 DEF PoolInv, BoundedInFlight, NoIdleSlot
<1>6. CASE UNCHANGED vars
  <2>1. InSlot' = InSlot
    BY <1>6 DEF vars, InSlot
  <2> QED
    BY <1>6, <2>1 DEF vars, PoolInv, TypeOK, Segment, BoundedInFlight, NoIdleSlot
<1>7. activeCount < Concurrency => queue = <<>>
  BY <1>0 DEF PoolInv, NoIdleSlot
<1> QED
  BY <1>1, <1>2, <1>3, <1>4, <1>5, <1>6, <1>7 DEF Next, Submit

(* The accounting of the pool always holds.                                *)
LEMMA PoolIsInvariant == Spec => []PoolInv
  BY PoolInvInit, PoolInvStep, PTL DEF Spec

(* No slot leaks and the bound holds, for every bound.                     *)
THEOREM SlotsAreExact == Spec => []BoundedInFlight
<1>1. PoolInv => BoundedInFlight
  BY DEF PoolInv
<1> QED
  BY PoolIsInvariant, <1>1, PTL

(* Nobody waits while a slot is free.                                      *)
THEOREM NoSlotIsIdle == Spec => []NoIdleSlot
<1>1. PoolInv => NoIdleSlot
  BY DEF PoolInv
<1> QED
  BY PoolIsInvariant, <1>1, PTL

(* Tasks start in the order of the calls.                                  *)
THEOREM StartsInOrder == Spec => []FirstComeFirstServed
<1>1. ASSUME PoolInv PROVE FirstComeFirstServed
  <2>1. queue \in Seq(Tasks) /\ calls \in Nat /\ Len(queue) \in Nat
    BY <1>1 DEF PoolInv, TypeOK
  <2>2. queue = [i \in 1..Len(queue) |-> queue[i]]
    BY <2>1
  <2>3. queue = [i \in 1..Len(queue) |-> (calls - Len(queue)) + i]
    BY <1>1, <2>2 DEF PoolInv, Segment
  <2> QED
    BY <1>1, <2>3 DEF PoolInv, Segment, FirstComeFirstServed
<1>2. PoolInv => FirstComeFirstServed
  BY <1>1
<1> QED
  BY PoolIsInvariant, <1>2, PTL
=============================================================================
