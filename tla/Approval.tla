------------------------------ MODULE Approval ------------------------------
(***************************************************************************)
(* Tool approval by Telegram button.  Four parties share the map of        *)
(* pending approvals:                                                      *)
(*                                                                         *)
(*   the asking turn   ApprovalCoordinator::request (ingress/approval.rs), *)
(*                     called by ingress/handler.rs;                       *)
(*   the service loop  TelegramPollingService::run, which shows the        *)
(*                     buttons and handles the presses                     *)
(*                     (server/telegram_polling.rs);                       *)
(*   the cleanup task  a 30 s interval that drops overdue entries;         *)
(*   the user          who presses buttons when he likes.                  *)
(*                                                                         *)
(* A turn asks for one call, and providers give calls unique ids, so the   *)
(* map is indexed by turn.  Each critical section of the map's mutex has   *)
(* no await in it and is one step.                                         *)
(***************************************************************************)
EXTENDS Naturals, Sequences

CONSTANTS
    Turns,      \* turns that need an approval
    UiCap,      \* capacity of the UI request channel (100 in the daemon)
    Modes       \* how the daemon may have been started, see mode

Decisions == {"approve", "deny"}

ASSUME UiCapAssumption == UiCap \in Nat \ {0}

ASSUME ModesAssumption == Modes \subseteq {"polling", "webhook", "closed"}

VARIABLES
    mode,       \* "polling": the service runs; "webhook": nobody reads the UI
                \* channel but its receiver lives; "closed": the receiver is gone
    pc,         \* idle, send, wait, done
    pending,    \* none, or an entry with ("msg") or without ("noMsg") message id
    overdue,    \* turns whose deadline has passed
    ui,         \* UI request channel
    reply,      \* the message-id oneshot: none, sent, dropped, taken
    decision,   \* the decision oneshot: empty, a decision, closed
    shown,      \* the Telegram message: none, buttons, approve, deny, timeout
    updates,    \* presses on their way to the service, in order
    pressed,    \* buttons pressed for each call
    outcome     \* what request() returned, "pending" until then

vars == <<mode, pc, pending, overdue, ui, reply, decision, shown, updates,
          pressed, outcome>>

\* Dropping the sender of a oneshot nobody sent on closes it.
Dropped(d) == IF d = "empty" THEN "closed" ELSE d

Init ==
    /\ mode \in Modes
    /\ pc = [t \in Turns |-> "idle"]
    /\ pending = [t \in Turns |-> "none"]
    /\ overdue = {}
    /\ ui = <<>>
    /\ reply = [t \in Turns |-> "none"]
    /\ decision = [t \in Turns |-> "empty"]
    /\ shown = [t \in Turns |-> "none"]
    /\ updates = <<>>
    /\ pressed = [t \in Turns |-> {}]
    /\ outcome = [t \in Turns |-> "pending"]

-----------------------------------------------------------------------------
(* request()                                                               *)

\* The entry goes into the map before the user can possibly see a button.
Insert(t) ==
    /\ pc[t] = "idle"
    /\ pending' = [pending EXCEPT ![t] = "noMsg"]
    /\ pc' = [pc EXCEPT ![t] = "send"]
    /\ UNCHANGED <<mode, overdue, ui, reply, decision, shown, updates, pressed,
                   outcome>>

\* request() returns r.
Return(t, r) ==
    /\ pc' = [pc EXCEPT ![t] = "done"]
    /\ outcome' = [outcome EXCEPT ![t] = r]

\* ui_tx.send().await, which waits for room and has no deadline.
SendUi(t) ==
    /\ pc[t] = "send"
    /\ mode # "closed"
    /\ Len(ui) < UiCap
    /\ ui' = Append(ui, t)
    /\ pc' = [pc EXCEPT ![t] = "wait"]
    /\ UNCHANGED <<mode, pending, overdue, reply, decision, shown, updates,
                   pressed, outcome>>

\* Mutant: the early return leaves the entry in the map.
SendUiFailsLeaks(t) ==
    /\ pc[t] = "send"
    /\ mode = "closed"
    /\ Return(t, "none")
    /\ UNCHANGED <<mode, pending, overdue, ui, reply, decision, shown, updates,
                   pressed>>

\* The UI service is gone.
SendUiFails(t) ==
    /\ pc[t] = "send"
    /\ mode = "closed"
    /\ pending' = [pending EXCEPT ![t] = "none"]
    /\ decision' = [decision EXCEPT ![t] = Dropped(@)]
    /\ Return(t, "none")
    /\ UNCHANGED <<mode, overdue, ui, reply, shown, updates, pressed>>

\* select!, first branch: a decision, or the sender was dropped with its entry.
TakeDecision(t) ==
    /\ pc[t] = "wait"
    /\ decision[t] # "empty"
    /\ Return(t, IF decision[t] = "closed" THEN "none" ELSE decision[t])
    /\ UNCHANGED <<mode, pending, overdue, ui, reply, decision, shown, updates,
                   pressed>>

\* select!, second branch, taken at most once: the id of the Telegram message
\* goes into the entry, if the entry is still there.
TakeMsgId(t) ==
    /\ pc[t] = "wait"
    /\ reply[t] \in {"sent", "dropped"}
    /\ reply' = [reply EXCEPT ![t] = "taken"]
    /\ pending' = [pending EXCEPT ![t] =
                     IF @ # "none" /\ reply[t] = "sent" THEN "msg" ELSE @]
    /\ UNCHANGED <<mode, pc, overdue, ui, decision, shown, updates, pressed,
                   outcome>>

\* Mutant: the deadline branch is missing.
TakeDeadlineNever(t) == pc[t] = "wait" /\ FALSE /\ UNCHANGED vars

\* Mutant: the deadline branch answers for the user.
TakeDeadlineApproves(t) ==
    /\ pc[t] = "wait"
    /\ t \in overdue
    /\ pending' = [pending EXCEPT ![t] = "none"]
    /\ decision' = [decision EXCEPT ![t] = Dropped(@)]
    /\ Return(t, "approve")
    /\ UNCHANGED <<mode, overdue, ui, reply, shown, updates, pressed>>

\* select!, third branch.  select! picks at random among the ready branches,
\* so a decision that has arrived does not prevent this one.
TakeDeadline(t) ==
    /\ pc[t] = "wait"
    /\ t \in overdue
    /\ pending' = [pending EXCEPT ![t] = "none"]
    /\ decision' = [decision EXCEPT ![t] = Dropped(@)]
    /\ Return(t, "none")
    /\ UNCHANGED <<mode, overdue, ui, reply, shown, updates, pressed>>

\* The deadline of t passes; it was fixed before the UI request was sent.
Expire(t) ==
    /\ pc[t] \in {"send", "wait"}
    /\ t \notin overdue
    /\ overdue' = overdue \union {t}
    /\ UNCHANGED <<mode, pc, pending, ui, reply, decision, shown, updates,
                   pressed, outcome>>

-----------------------------------------------------------------------------
(* The Telegram service.                                                   *)

\* edit_message_text on the entry's message: without its id, or when Telegram
\* answers with an error, the message keeps its buttons.
Edit(s, entry, text) == {s} \union (IF entry = "msg" THEN {text} ELSE {})

\* handle_approval_ui_request: the buttons appear and the id is sent back; when
\* Telegram fails the request, and with it the reply sender, is dropped.
ShowButtons ==
    /\ mode = "polling"
    /\ ui # <<>>
    /\ ui' = Tail(ui)
    /\ LET t == Head(ui) IN
         \/ /\ shown' = [shown EXCEPT ![t] = "buttons"]
            /\ reply' = [reply EXCEPT ![t] = "sent"]
         \/ /\ reply' = [reply EXCEPT ![t] = "dropped"]
            /\ UNCHANGED shown
    /\ UNCHANGED <<mode, pc, pending, overdue, decision, updates, pressed,
                   outcome>>

\* The user presses a button, each at most once; a fast user presses both.
Press(t, d) ==
    /\ shown[t] = "buttons"
    /\ d \notin pressed[t]
    /\ pressed' = [pressed EXCEPT ![t] = @ \union {d}]
    /\ updates' = Append(updates, [turn |-> t, decision |-> d])
    /\ UNCHANGED <<mode, pc, pending, overdue, ui, reply, decision, shown,
                   outcome>>

\* Mutant: resolve() looks the entry up without removing it, so the later of
\* two presses replaces the earlier.
ResolvePeeks(t, d) ==
    /\ decision' = [decision EXCEPT ![t] = d]
    /\ \E s \in Edit(shown[t], pending[t], d) : shown' = [shown EXCEPT ![t] = s]
    /\ UNCHANGED pending

\* resolve(): the entry leaves the map and its sender carries the decision; a
\* receiver that has returned already ignores it.  Then the message is edited.
Resolve(t, d) ==
    /\ pending' = [pending EXCEPT ![t] = "none"]
    /\ decision' = [decision EXCEPT ![t] = d]
    /\ \E s \in Edit(shown[t], pending[t], d) : shown' = [shown EXCEPT ![t] = s]

\* handle_callback_query for the oldest press.
Callback ==
    /\ mode = "polling"
    /\ updates # <<>>
    /\ updates' = Tail(updates)
    /\ LET u == Head(updates) IN
         IF pending[u.turn] # "none"
           THEN Resolve(u.turn, u.decision)
           ELSE UNCHANGED <<pending, decision, shown>>
    /\ UNCHANGED <<mode, pc, overdue, ui, reply, pressed, outcome>>

\* The entries of gone leave the map: their senders are dropped and their
\* messages say so.
DropEntries(gone) ==
    /\ gone # {}
    /\ pending' = [t \in Turns |-> IF t \in gone THEN "none" ELSE pending[t]]
    /\ decision' = [t \in Turns |-> IF t \in gone THEN Dropped(decision[t])
                                                  ELSE decision[t]]
    /\ shown' \in {f \in [Turns -> {"none", "buttons", "approve", "deny", "timeout"}] :
         \A t \in Turns :
            f[t] \in IF t \in gone THEN Edit(shown[t], pending[t], "timeout")
                                   ELSE {shown[t]}}

\* Mutant: every entry is taken for overdue.
CleanupAll ==
    /\ mode = "polling"
    /\ DropEntries({t \in Turns : pending[t] # "none"})
    /\ UNCHANGED <<mode, pc, overdue, ui, reply, updates, pressed, outcome>>

\* One tick of the cleanup task that finds overdue entries.
Cleanup ==
    /\ mode = "polling"
    /\ DropEntries({t \in overdue : pending[t] # "none"})
    /\ UNCHANGED <<mode, pc, overdue, ui, reply, updates, pressed, outcome>>

-----------------------------------------------------------------------------
Select(t) == TakeDecision(t) \/ TakeMsgId(t) \/ TakeDeadline(t)

Next ==
    \/ \E t \in Turns :
         \/ Insert(t) \/ SendUi(t) \/ SendUiFails(t) \/ Select(t) \/ Expire(t)
         \/ \E d \in Decisions : Press(t, d)
    \/ ShowButtons \/ Callback \/ Cleanup

\* Time passes, tasks that are ready are scheduled, and calls to Telegram return:
\* the client gives up after 70 s.  Nothing is assumed of the user, and nothing
\* of the cleanup task.
Fairness ==
    /\ WF_vars(ShowButtons)
    /\ \A t \in Turns : /\ WF_vars(Expire(t))
                        /\ WF_vars(Select(t))
                        /\ WF_vars(SendUi(t) \/ SendUiFails(t))

Spec == Init /\ [][Next]_vars /\ Fairness

-----------------------------------------------------------------------------
(* Properties.                                                             *)

TypeOK ==
    /\ mode \in Modes
    /\ pc \in [Turns -> {"idle", "send", "wait", "done"}]
    /\ pending \in [Turns -> {"none", "noMsg", "msg"}]
    /\ overdue \in SUBSET Turns
    /\ ui \in Seq(Turns) /\ Len(ui) <= UiCap
    /\ reply \in [Turns -> {"none", "sent", "dropped", "taken"}]
    /\ decision \in [Turns -> Decisions \union {"empty", "closed"}]
    /\ shown \in [Turns -> Decisions \union {"none", "buttons", "timeout"}]
    /\ updates \in Seq([turn : Turns, decision : Decisions])
    /\ pressed \in [Turns -> SUBSET Decisions]
    /\ outcome \in [Turns -> Decisions \union {"pending", "none"}]

Promise == INSTANCE ApprovalPromise WITH
             Turns <- Turns, pressed <- pressed, outcome <- outcome

\* Every way out of request() (decision, deadline, cleanup, dead UI) is one the
\* promise allows: no decision the user did not press for this call, no second
\* answer.
KeepsPromise == Promise!Spec

\* The map holds exactly the requests that are undecided: request() never
\* returns with its entry left behind, and an entry whose oneshot was used or
\* closed is gone.
PendingAccounted ==
    \A t \in Turns :
        pending[t] # "none" <=> pc[t] \in {"send", "wait"} /\ decision[t] = "empty"

\* What the Telegram message says never contradicts what the turn was told: of
\* two presses, a press and a timeout, or a press and a cleanup, the one that
\* got the entry decides both.
UiNeverContradicts ==
    \A t \in Turns :
        /\ shown[t] = "approve" => outcome[t] # "deny"
        /\ shown[t] = "deny" => outcome[t] # "approve"
        /\ shown[t] = "timeout" => outcome[t] \notin Decisions

\* A press that was accepted ("Approved" in the chat) is lost on the turn only
\* if its deadline had passed, never because of cleanup or a late message id.
LostOnlyWhenOverdue ==
    \A t \in Turns :
        outcome[t] = "none" /\ mode = "polling" => t \in overdue

\* request() returns: "Some(decision) if resolved, None on timeout or error".
\* In webhook mode only once the UI channel took the request: a full channel
\* that nobody reads holds send() back for ever.
RequestReturns ==
    \A t \in Turns :
        pc[t] = "wait" \/ (pc[t] = "send" /\ mode # "webhook") ~> pc[t] = "done"
=============================================================================
