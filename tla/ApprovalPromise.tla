-------------------------- MODULE ApprovalPromise --------------------------
(***************************************************************************)
(* What ApprovalCoordinator::request promises the turn that calls it       *)
(* (ingress/approval.rs, the doc comment of request): it returns the       *)
(* user's decision, or nothing.  A decision is returned only if the user   *)
(* pressed that button for this very call, and the answer is final.        *)
(***************************************************************************)
CONSTANT Turns          \* turns that ask, each for one tool call

Decisions == {"approve", "deny"}

VARIABLES
    pressed,            \* the buttons the user pressed for each call
    outcome             \* what request() returned: a decision or "none"

vars == <<pressed, outcome>>

Init ==
    /\ pressed = [t \in Turns |-> {}]
    /\ outcome = [t \in Turns |-> "pending"]

Press(t, d) ==
    /\ pressed' = [pressed EXCEPT ![t] = @ \union {d}]
    /\ UNCHANGED outcome

Return(t, r) ==
    /\ outcome[t] = "pending"
    /\ r \in pressed[t] \union {"none"}
    /\ outcome' = [outcome EXCEPT ![t] = r]
    /\ UNCHANGED pressed

Next ==
    \E t \in Turns :
        \/ \E d \in Decisions : Press(t, d)
        \/ \E r \in Decisions \union {"none"} : Return(t, r)

Spec == Init /\ [][Next]_vars
=============================================================================
