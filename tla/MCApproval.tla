----------------------------- MODULE MCApproval -----------------------------
(* Approval with two turns and a UI channel of one: the second request     *)
(* finds the channel full while the first is still queued.                 *)
EXTENDS Approval
=============================================================================
