----------------------------- MODULE MCSqsService -----------------------------
(***************************************************************************)
(* SqsService for TLC: a queue with and one without a dead-letter queue.   *)
(***************************************************************************)
EXTENDS SqsService, TLC

CONSTANTS q1, m1

MCDestination == m1 :> q1
=============================================================================
