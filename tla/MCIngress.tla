----------------------------- MODULE MCIngress -----------------------------
(* Ingress with the owner, a user who never stops writing and a job, a bus *)
(* of one and a debounce limit of one: a second message of a source forces *)
(* a flush, and so does one long payload.  Scripts push under all three    *)
(* sources; one of their own would behave as the job's does.               *)
EXTENDS Ingress

\* The short name of a prompt, and a long text.
MCPayloads == {[names |-> TRUE, chars |-> 1], [names |-> FALSE, chars |-> 4]}
=============================================================================
