---------------------------- MODULE MCToolTurns ----------------------------
(* ToolTurns with limits low enough for a flush and a compaction in the    *)
(* second turn, and two calls, so that a message can have an unanswered    *)
(* call behind an answered one.  A caller that has the session to itself   *)
(* makes up to five turns: enough for a client to approve a call after     *)
(* other messages were added, and for a compaction to cut between that     *)
(* call and its late result.  Ingress turns overlap, and are fewer.        *)
EXTENDS ToolTurns, TLC

CONSTANT Early      \* the turns that come first, and the only ones of ingress

\* Turns differ in nothing, so which of them come first does not matter.
MCNext ==
    /\ Next
    /\ (\E t \in Turns \ Early : pc'[t] # "idle") =>
           caller # "ingress" /\ \A t \in Early : pc[t] # "idle"

MCSpec == Init /\ [][MCNext]_vars

TurnSymmetry == Permutations(Early) \union Permutations(Turns \ Early)
=============================================================================
