--------------------------- MODULE TelegramPolling ---------------------------
(***************************************************************************)
(* Telegram updates by long polling (server/telegram_polling.rs over       *)
(* ingress/telegram_client.rs).  One loop polls, handles the updates of a  *)
(* batch one by one, and serves the approval requests of the coordinator   *)
(* between two polls: a request that arrives cancels the poll under way.   *)
(*                                                                         *)
(* Telegram keeps an update until a poll asks for a later offset.  The     *)
(* offset is in memory alone, and moves on before an update is handled.    *)
(* Updates are numbered from 1 in the order Telegram receives them.        *)
(***************************************************************************)
EXTENDS Naturals, Sequences

CONSTANTS
    MaxUpdates,     \* bound: updates
    MaxCrashes,     \* bound: restarts of the daemon
    MaxFails,       \* bound: polls that fail
    MaxUi,          \* bound: approval requests
    BusCap          \* room on the ingress bus (100 in the daemon)

Kinds == {"text", "photo", "file", "press", "other"}

VARIABLES
    updates,    \* the kind of each update Telegram has received
    gone,       \* updates 1..gone are confirmed: Telegram has dropped them
    offset,     \* offset of the next poll, 0 for None
    pc,         \* "idle", "polling", "answered", "batch" or "handle"
    batch,      \* updates of the last poll still to be handled
    answer,     \* what Telegram has answered to the poll under way
    ui,         \* approval requests in the channel
    bus,        \* messages on the ingress bus
    done,       \* the updates handled
    last,       \* the last update this life of the daemon has handled, 0 if none
    redone,     \* an update was handled after itself or a later one in one life
    life,       \* how often the daemon was started
    backoff,    \* seconds to wait after the next failure
    fails,      \* polls failed
    uis         \* approval requests made

server == <<updates, gone, answer>>
loop == <<offset, pc, batch, backoff>>
count == <<life, fails, uis>>
seen == <<done, last, redone>>
vars == <<server, loop, ui, bus, seen, count>>

Init ==
    /\ updates = <<>> /\ gone = 0 /\ answer = <<>>
    /\ offset = 0 /\ pc = "idle" /\ batch = <<>> /\ backoff = 1
    /\ ui = 0 /\ bus = 0 /\ done = {} /\ last = 0 /\ redone = FALSE
    /\ life = 1 /\ fails = 0 /\ uis = 0

\* Telegram receives an update: a message, a press of a button, or another.
Arrives ==
    /\ Len(updates) < MaxUpdates
    /\ \E k \in Kinds : updates' = Append(updates, k)
    /\ UNCHANGED <<gone, answer, loop, ui, bus, seen, count>>

\* ApprovalCoordinator::request puts a request on the channel.
Request ==
    /\ uis < MaxUi
    /\ uis' = uis + 1 /\ ui' = ui + 1
    /\ UNCHANGED <<server, loop, bus, seen, life, fails>>

\* The ingress loop takes a message off the bus.
Taken ==
    /\ bus > 0
    /\ bus' = bus - 1
    /\ UNCHANGED <<server, loop, ui, seen, count>>

\* client.get_updates(offset, timeout)
Poll ==
    /\ pc = "idle"
    /\ pc' = "polling"
    /\ UNCHANGED <<server, offset, batch, backoff, ui, bus, seen, count>>

\* The request reaches Telegram, which drops what lies before the offset and
\* answers with a first part of the rest, or, if there is none, with nothing
\* after the timeout.
Answers ==
    /\ pc = "polling"
    /\ pc' = "answered"
    /\ gone' = IF offset > gone THEN offset - 1 ELSE gone
    /\ \E n \in gone'..Len(updates) :
        /\ n = gone' => n = Len(updates)
        /\ answer' = [i \in 1..(n - gone') |-> gone' + i]
    /\ UNCHANGED <<updates, offset, batch, backoff, ui, bus, seen, count>>

\* The poll returns.
Received ==
    /\ pc = "answered"
    /\ batch' = answer /\ answer' = <<>>
    /\ backoff' = 1
    /\ pc' = IF answer = <<>> THEN "idle" ELSE "batch"
    /\ UNCHANGED <<updates, gone, offset, ui, bus, seen, count>>

\* The poll fails: the answer, if there was one, is lost; the loop sleeps.
PollFails ==
    /\ pc \in {"polling", "answered"} /\ fails < MaxFails
    /\ fails' = fails + 1
    /\ answer' = <<>>
    /\ backoff' = IF backoff * 2 > 60 THEN 60 ELSE backoff * 2
    /\ pc' = "idle"
    /\ UNCHANGED <<updates, gone, offset, batch, ui, bus, seen, life, uis>>

\* Mutant: the offset moves with the answer, which the cancelled poll then loses.
ServeUiMovesOffset ==
    /\ pc \in {"polling", "answered"} /\ ui > 0
    /\ ui' = ui - 1
    /\ offset' = IF answer = <<>> THEN offset ELSE answer[Len(answer)] + 1
    /\ answer' = <<>>
    /\ pc' = "idle"
    /\ UNCHANGED <<updates, gone, batch, backoff, bus, seen, count>>

\* A request on the channel wins the select!: the poll is cancelled, and
\* handle_approval_ui_request sends the message with the buttons.
ServeUi ==
    /\ pc \in {"polling", "answered"} /\ ui > 0
    /\ ui' = ui - 1
    /\ answer' = <<>>
    /\ pc' = "idle"
    /\ UNCHANGED <<updates, gone, offset, batch, backoff, bus, seen, count>>

\* Mutant: the offset stays at the update.
NextUpdateStays ==
    /\ pc = "batch" /\ batch # <<>>
    /\ offset' = Head(batch)
    /\ pc' = "handle"
    /\ UNCHANGED <<server, batch, backoff, ui, bus, seen, count>>

\* The offset moves past the next update of the batch.
NextUpdate ==
    /\ pc = "batch" /\ batch # <<>>
    /\ offset' = Head(batch) + 1
    /\ pc' = "handle"
    /\ UNCHANGED <<server, batch, backoff, ui, bus, seen, count>>

Handled ==
    /\ done' = done \union {Head(batch)}
    /\ last' = Head(batch)
    /\ redone' = (redone \/ Head(batch) <= last)
    /\ batch' = Tail(batch)
    /\ pc' = IF Tail(batch) = <<>> THEN "idle" ELSE "batch"

\* handle_message: a text, or what is made of a photo, a document, an audio or
\* a voice message, goes to the bus, and waits for room there.
Push ==
    /\ pc = "handle" /\ updates[Head(batch)] \in {"text", "photo", "file"}
    /\ bus < BusCap
    /\ bus' = bus + 1
    /\ Handled
    /\ UNCHANGED <<server, offset, backoff, ui, count>>

\* A download or a transcription fails, a file is too large, attachments are
\* off, or the message has no sender: logged at most.
Drop ==
    /\ pc = "handle" /\ updates[Head(batch)] \in {"text", "photo", "file", "other"}
    /\ Handled
    /\ UNCHANGED <<server, offset, backoff, ui, bus, count>>

\* handle_callback_query resolves the approval, of which a daemon that was
\* restarted knows nothing, and answers the query.
Press ==
    /\ pc = "handle" /\ updates[Head(batch)] = "press"
    /\ Handled
    /\ UNCHANGED <<server, offset, backoff, ui, bus, count>>

\* The daemon dies and is started again.
Crash ==
    /\ life <= MaxCrashes
    /\ life' = life + 1
    /\ offset' = 0 /\ pc' = "idle" /\ batch' = <<>> /\ backoff' = 1
    /\ answer' = <<>> /\ ui' = 0 /\ bus' = 0 /\ last' = 0
    /\ UNCHANGED <<updates, gone, done, redone, fails, uis>>

Loop == Poll \/ Answers \/ Received \/ ServeUi \/ NextUpdate \/ Push \/ Drop \/ Press

Next == Arrives \/ Request \/ Taken \/ PollFails \/ Crash \/ Loop

\* The loop goes on, Telegram answers, and the ingress loop takes messages.
Fairness == WF_vars(Loop) /\ WF_vars(Taken)

Spec == Init /\ [][Next]_vars /\ Fairness

(***************************************************************************)
(* Properties                                                              *)
(***************************************************************************)
\* No update is lost: whatever polls fail or are cancelled by an approval
\* request after Telegram has answered them, and wherever the daemon dies,
\* Telegram only drops an update that was handled.  And an update is handled
\* again only by a later life of the daemon: within one life each is handled
\* once, in the order of arrival.
HandledBeforeGone == 1..gone \subseteq done /\ ~redone

\* Every update that arrives is handled in the end: approval requests that keep
\* cancelling polls, failures and a full bus only delay it.
EveryUpdateHandled ==
    \A i \in 1..MaxUpdates :
        Len(updates) >= i ~> i \in done
=============================================================================
