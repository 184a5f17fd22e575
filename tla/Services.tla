------------------------------ MODULE Services ------------------------------
(***************************************************************************)
(* Four components beside the turns, each with variables of its own:       *)
(*   SessionStore (extended), ScriptService, TelegramPolling and Desktop,  *)
(* and what is stated of the last three.                                   *)
(***************************************************************************)
EXTENDS SessionStore

CONSTANTS
    Clients, MaxExts, MaxOps, Cap,                          \* of ScriptService
    MaxUpdates, MaxCrashes, MaxFails, MaxUi, BusCap,        \* of TelegramPolling
    MaxChats, MaxClicks, MaxEvents                          \* of Desktop

VARIABLES
    slot, made, thread, chan, toolMap, lock, scriptPc, at, reply, ops,
    updates, gone, offset, pollPc, batch, answer, ui, bus, done, last, redone, life,
    backoff, fails, uis,
    is_loading, pending_approval, streaming, error, toWorker, toUi, worker, chat,
    pendingTools, events, chats, clicks, cut

scriptVars == <<slot, made, thread, chan, toolMap, lock, scriptPc, at, reply, ops>>
pollVars == <<updates, gone, offset, pollPc, batch, answer, ui, bus, done, last, redone, life,
              backoff, fails, uis>>
windowVars == <<is_loading, pending_approval, streaming, error, toWorker, toUi, worker, chat,
                pendingTools, events, chats, clicks, cut>>

Scripts == INSTANCE ScriptService WITH pc <- scriptPc

Telegram == INSTANCE TelegramPolling WITH pc <- pollPc

Window == INSTANCE Desktop

\* Every operation of the script service comes to its end (ScriptService).
OperationsReturn == Scripts!OperationsReturn

\* A replaced thread of the script service ends (ScriptService).
ReplacedEnds == Scripts!ReplacedEnds

\* Telegram drops no update before it was handled (TelegramPolling).
HandledBeforeGone == Telegram!HandledBeforeGone

\* Every update is handled in the end (TelegramPolling).
EveryUpdateHandled == Telegram!EveryUpdateHandled

\* The window is not left waiting but at a cut (Desktop).
LoadingAccounted == Window!LoadingAccounted

\* The text on display is that of one chat (Desktop).
OneAnswerShown == Window!OneAnswerShown

\* is_loading means that the agent is processing (Desktop).
LoadingMeansProcessing == Window!LoadingMeansProcessing
=============================================================================
