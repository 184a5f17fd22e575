---------------------------- MODULE MCTurnLocks ----------------------------
(* TurnLocks with two HTTP slots, two CLI processes and one ingress task:  *)
(* two requests make a queue, two processes a contended file lock.         *)
EXTENDS TurnLocks
=============================================================================
