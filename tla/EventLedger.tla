----------------------------- MODULE EventLedger -----------------------------
(***************************************************************************)
(* What the consume path promises, without saying how: every message of a  *)
(* partition is settled at some point (its event applied to the feature    *)
(* store, a record of it on the dead-letter topic, or a log line), nothing *)
(* is ever unsettled, and the group's offset only moves forward, and only  *)
(* over settled messages.                                                  *)
(***************************************************************************)
EXTENDS Integers

CONSTANTS
  Partitions,
  Length  \* partition -> number of its messages

VARIABLES settled, frontier

vars == <<settled, frontier>>

Offsets == UNION {{p} \X (1..Length[p]) : p \in Partitions}

Init ==
  /\ settled = {}
  /\ frontier = [p \in Partitions |-> 0]

(* One outcome may settle several offsets: copies of the same event.       *)
Settle ==
  /\ settled \subseteq settled'
  /\ settled' \subseteq Offsets
  /\ UNCHANGED frontier

Advance(p) ==
  /\ frontier'[p] \in (frontier[p] + 1)..Length[p]
  /\ \A o \in 1..frontier'[p] : <<p, o>> \in settled
  /\ frontier' = [frontier EXCEPT ![p] = frontier'[p]]
  /\ UNCHANGED settled

Next == Settle \/ \E p \in Partitions : Advance(p)

Spec == Init /\ [][Next]_vars
=============================================================================
