------------------------------- MODULE PLimit -------------------------------
(***************************************************************************)
(* pLimit (utils/concurrency.util.ts): the bounded promise pool every      *)
(* message handler of a pod goes through.  Tasks are numbered in the order *)
(* of the calls of the limiter.                                            *)
(*                                                                         *)
(* Each synchronous block of the code is one action.  Between the end of a *)
(* task and the promise callback that calls next() other callbacks run, so *)
(* a task goes through "ended" before its slot is handed on.               *)
(***************************************************************************)
EXTENDS Integers, Sequences, FiniteSets

CONSTANTS
  Concurrency,  \* config.MAX_IN_FLIGHT
  MaxTasks      \* bound on the calls of the limiter

(* pLimit throws on a concurrency that is not positive.                    *)
ASSUME ConcurrencyAssumption == Concurrency \in Nat \ {0}
ASSUME MaxTasksAssumption == MaxTasks \in Nat

VARIABLES
  activeCount,
  queue,      \* tasks whose run() was pushed
  status,     \* task -> "new", "queued", "running", "ended" or "settled"
  calls       \* calls of the limiter so far

vars == <<activeCount, queue, status, calls>>

Tasks == 1..MaxTasks
Status == {"new", "queued", "running", "ended", "settled"}

TypeOK ==
  /\ activeCount \in Int
  /\ queue \in Seq(Tasks)
  /\ status \in [Tasks -> Status]
  /\ calls \in 0..MaxTasks

Init ==
  /\ activeCount = 0
  /\ queue = <<>>
  /\ status = [t \in Tasks |-> "new"]
  /\ calls = 0

(* Mutant: one task too many is let in.                                    *)
SubmitOneMore ==
  /\ calls < MaxTasks
  /\ activeCount <= Concurrency
  /\ calls' = calls + 1
  /\ activeCount' = activeCount + 1
  /\ status' = [status EXCEPT ![calls + 1] = "running"]
  /\ UNCHANGED queue

(* limit(fn): run at once if a slot is free, queue otherwise.              *)
Submit ==
  /\ calls < MaxTasks
  /\ calls' = calls + 1
  /\ \/ /\ activeCount < Concurrency
        /\ activeCount' = activeCount + 1
        /\ status' = [status EXCEPT ![calls + 1] = "running"]
        /\ UNCHANGED queue
     \/ /\ activeCount >= Concurrency
        /\ queue' = Append(queue, calls + 1)
        /\ status' = [status EXCEPT ![calls + 1] = "queued"]
        /\ UNCHANGED activeCount

(* The promise of fn() resolves or rejects.                                *)
End(t) ==
  /\ status[t] = "running"
  /\ status' = [status EXCEPT ![t] = "ended"]
  /\ UNCHANGED <<activeCount, queue, calls>>

(* Mutants: the slot is given back without waking a waiter, and the waiter *)
(* woken is the youngest.                                                  *)
SettleWithoutNext(t) ==
  /\ status[t] = "ended"
  /\ activeCount' = activeCount - 1
  /\ status' = [status EXCEPT ![t] = "settled"]
  /\ UNCHANGED <<queue, calls>>

SettleYoungest(t) ==
  /\ status[t] = "ended"
  /\ queue # <<>>
  /\ status' = [status EXCEPT ![t] = "settled", ![queue[Len(queue)]] = "running"]
  /\ queue' = SubSeq(queue, 1, Len(queue) - 1)
  /\ UNCHANGED <<activeCount, calls>>

(* Its callback settles the caller's promise and calls next(): the slot is *)
(* given back and, in the same block, taken by the head of the queue.      *)
Settle(t) ==
  /\ status[t] = "ended"
  /\ \/ /\ queue = <<>>
        /\ activeCount' = activeCount - 1
        /\ status' = [status EXCEPT ![t] = "settled"]
        /\ UNCHANGED queue
     \/ /\ queue # <<>>
        /\ activeCount' = (activeCount - 1) + 1
        /\ status' = [status EXCEPT ![t] = "settled", ![Head(queue)] = "running"]
        /\ queue' = Tail(queue)
  /\ UNCHANGED calls

(* No task is in flight: the pool waits for the next call of the limiter.  *)
Quiet == \A t \in Tasks : status[t] \notin {"running", "ended"}

Next ==
  \/ Submit
  \/ \E t \in Tasks : End(t) \/ Settle(t)
  \/ Quiet /\ UNCHANGED vars

(* Handlers end (every client call they await settles) and the event loop  *)
(* runs every callback; nothing forces a caller to submit.                 *)
FairSpec ==
  /\ Init /\ [][Next]_vars
  /\ \A t \in Tasks : WF_vars(End(t)) /\ WF_vars(Settle(t))

Spec == Init /\ [][Next]_vars
-----------------------------------------------------------------------------
InSlot == {t \in Tasks : status[t] \in {"running", "ended"}}

(* The pool never has more tasks in flight than its bound, and the counter *)
(* the guard reads is the number of slots in use: no path through next()   *)
(* leaks a slot or frees one twice (concurrency.util.ts:20-47).            *)
BoundedInFlight ==
  /\ activeCount = Cardinality(InSlot)
  /\ activeCount <= Concurrency

(* Nobody waits while a slot is free: a slot given back is handed to the   *)
(* queue in the same block (concurrency.util.ts:20-26), so a caller that   *)
(* finds one free cannot overtake a waiter and no wake-up is lost.         *)
NoIdleSlot == queue # <<>> => activeCount = Concurrency

(* Tasks start in the order of the calls: what is queued is exactly the    *)
(* calls not yet started, oldest first (concurrency.util.ts:23,46).        *)
FirstComeFirstServed ==
  /\ queue = [i \in 1..Len(queue) |-> (calls - Len(queue)) + i]
  /\ \A t \in Tasks : status[t] = "queued" <=> t \in (calls - Len(queue) + 1)..calls

(* A queued task is started in the end, whatever is submitted behind it.   *)
EveryTaskStarts ==
  \A t \in Tasks : status[t] = "queued" ~> status[t] \in {"running", "ended", "settled"}
=============================================================================
