----------------------------- MODULE MCServices -----------------------------
(***************************************************************************)
(* The components of Services, checked in one run.  They share no state: a *)
(* behaviour is one of one of them (part), and the others stay in their    *)
(* initial state.                                                          *)
(*   store     two processes                                               *)
(*   scripts   two clients and a script loaded twice, so that crash,       *)
(*             replacement and the removal after a crash meet              *)
(*   telegram  a crash, a failed poll, an approval request and a bus of    *)
(*             one message                                                 *)
(*   desktop   two chats and another request                               *)
(***************************************************************************)
EXTENDS Services

CONSTANT Parts      \* the components whose behaviours are explored

VARIABLE part

MCInit ==
    /\ part \in Parts
    /\ Init /\ (part # "store" => file = Empty)
    /\ Scripts!Init /\ Telegram!Init /\ Window!Init

MCNext ==
    \/ part = "store" /\ Next /\ UNCHANGED <<part, scriptVars, pollVars, windowVars>>
    \/ part = "scripts" /\ Scripts!Next /\ UNCHANGED <<part, vars, pollVars, windowVars>>
    \/ part = "telegram" /\ Telegram!Next /\ UNCHANGED <<part, vars, scriptVars, windowVars>>
    \/ part = "desktop" /\ Window!Next /\ UNCHANGED <<part, vars, scriptVars, pollVars>>

\* The fairness of ScriptService and of TelegramPolling.
MCFairness ==
    /\ \A c \in Clients : WF_scriptVars(part = "scripts" /\ Scripts!Operation(c))
    /\ \A i \in Scripts!Exts : WF_scriptVars(part = "scripts" /\ Scripts!Thread(i))
    /\ WF_pollVars(part = "telegram" /\ Telegram!Loop)
    /\ WF_pollVars(part = "telegram" /\ Telegram!Taken)

MCSpec ==
    /\ MCInit
    /\ [][MCNext]_<<part, vars, scriptVars, pollVars, windowVars>>
    /\ MCFairness
=============================================================================
