--------------------------- MODULE ApprovalProofs ---------------------------
(***************************************************************************)
(* Safety of the approval coordinator for any number of turns, any channel *)
(* capacity and every way the daemon may have been started.                *)
(*                                                                         *)
(* That request() keeps its promise depends on the whole path of a press:  *)
(* an update on its way carries a button that was pressed (UpdatesPressed),*)
(* so does a decision in a oneshot, and the oneshot is written at most     *)
(* once because its entry leaves the map with the first write              *)
(* (PendingAccounted).  What the chat shows and what request() returned    *)
(* are both copies of the oneshot (OneshotDecides).                        *)
(***************************************************************************)
EXTENDS Approval, SequenceTheorems, TLAPS

\* A turn has an outcome when it has returned, and no decision before it asked.
ControlInv ==
    \A t \in Turns :
        /\ outcome[t] = "pending" <=> pc[t] # "done"
        /\ pc[t] = "idle" => decision[t] = "empty"

\* Every press under way to the service was made by the user.
UpdatesPressed ==
    \A i \in 1..Len(updates) : updates[i].decision \in pressed[updates[i].turn]

\* A decision in a oneshot was pressed, and the outcome and the text in the chat
\* are copies of the oneshot's final value.
OneshotDecides ==
    \A t \in Turns :
        /\ decision[t] \in Decisions => decision[t] \in pressed[t]
        /\ outcome[t] \in Decisions => decision[t] = outcome[t]
        /\ shown[t] \in Decisions => decision[t] = shown[t]
        /\ shown[t] = "timeout" => decision[t] = "closed"
        /\ mode = "polling" /\ decision[t] = "closed" => t \in overdue

IInv ==
    /\ TypeOK
    /\ PendingAccounted
    /\ ControlInv
    /\ UpdatesPressed
    /\ OneshotDecides
    /\ LostOnlyWhenOverdue

Updates == [turn : Turns, decision : Decisions]

-----------------------------------------------------------------------------
\* Taking the oldest element off a channel.
LEMMA TailFacts ==
    ASSUME NEW S, NEW q \in Seq(S), q # <<>>
    PROVE  /\ Head(q) = q[1] /\ Head(q) \in S
           /\ Len(q) \in Nat \ {0}
           /\ Tail(q) \in Seq(S)
           /\ Len(Tail(q)) = Len(q) - 1
           /\ \A i \in 1..Len(Tail(q)) : Tail(q)[i] = q[i + 1]
  OBVIOUS

\* The invariant holds before anybody asks.
LEMMA InitIInv == Init => IInv
  BY UiCapAssumption DEF Init, IInv, TypeOK, PendingAccounted, ControlInv,
     UpdatesPressed, OneshotDecides, LostOnlyWhenOverdue, Decisions

\* The steps of request() before it waits: insert(), and send() taken or refused.
LEMMA AskIInv ==
    ASSUME IInv, NEW t \in Turns, Insert(t) \/ SendUi(t) \/ SendUiFails(t)
    PROVE  IInv'
  <1>1. CASE Insert(t)
    BY <1>1 DEF IInv, TypeOK, PendingAccounted, ControlInv, UpdatesPressed,
       OneshotDecides, LostOnlyWhenOverdue, Decisions, Insert
  <1>2. CASE SendUi(t)
    <2>1. ui' \in Seq(Turns) /\ Len(ui') <= UiCap
      BY <1>2, UiCapAssumption DEF SendUi, IInv, TypeOK
    <2> QED
      BY <1>2, <2>1 DEF IInv, TypeOK, PendingAccounted, ControlInv, UpdatesPressed,
         OneshotDecides, LostOnlyWhenOverdue, Decisions, SendUi
  <1>3. CASE SendUiFails(t)
    BY <1>3 DEF IInv, TypeOK, PendingAccounted, ControlInv, UpdatesPressed,
       OneshotDecides, LostOnlyWhenOverdue, Decisions, SendUiFails, Return, Dropped
  <1> QED
    BY <1>1, <1>2, <1>3

\* The three branches of the select!, and the passing of the deadline.
LEMMA WaitIInv ==
    ASSUME IInv, NEW t \in Turns, Select(t) \/ Expire(t)
    PROVE  IInv'
  <1>1. CASE TakeDecision(t)
    BY <1>1 DEF IInv, TypeOK, PendingAccounted, ControlInv, UpdatesPressed,
       OneshotDecides, LostOnlyWhenOverdue, Decisions, TakeDecision, Return
  <1>2. CASE TakeMsgId(t)
    BY <1>2 DEF IInv, TypeOK, PendingAccounted, ControlInv, UpdatesPressed,
       OneshotDecides, LostOnlyWhenOverdue, Decisions, TakeMsgId
  <1>3. CASE TakeDeadline(t)
    BY <1>3 DEF IInv, TypeOK, PendingAccounted, ControlInv, UpdatesPressed,
       OneshotDecides, LostOnlyWhenOverdue, Decisions, TakeDeadline, Return, Dropped
  <1>4. CASE Expire(t)
    BY <1>4 DEF IInv, TypeOK, PendingAccounted, ControlInv, UpdatesPressed,
       OneshotDecides, LostOnlyWhenOverdue, Decisions, Expire
  <1> QED
    BY <1>1, <1>2, <1>3, <1>4 DEF Select

\* The buttons appear, and a button is pressed.
LEMMA ButtonsIInv ==
    ASSUME IInv, ShowButtons \/ \E t \in Turns, d \in Decisions : Press(t, d)
    PROVE  IInv'
  <1>1. CASE ShowButtons
    <2>1. /\ ui' \in Seq(Turns) /\ Len(ui') <= UiCap /\ Head(ui) \in Turns
      BY <1>1, TailFacts, UiCapAssumption DEF ShowButtons, IInv, TypeOK
    <2>2. PICK t \in Turns :
            /\ \/ shown' = [shown EXCEPT ![t] = "buttons"]
                  /\ reply' = [reply EXCEPT ![t] = "sent"]
               \/ shown' = shown /\ reply' = [reply EXCEPT ![t] = "dropped"]
      BY <1>1, <2>1 DEF ShowButtons
    <2>3. /\ shown' \in [Turns -> Decisions \union {"none", "buttons", "timeout"}]
          /\ reply' \in [Turns -> {"none", "sent", "dropped", "taken"}]
          /\ \A s \in Turns : shown'[s] = shown[s] \/ shown'[s] = "buttons"
      BY <2>2 DEF IInv, TypeOK
    <2>4. UNCHANGED <<mode, pc, pending, overdue, decision, updates, pressed, outcome>>
      BY <1>1 DEF ShowButtons
    <2> QED
      BY <2>1, <2>3, <2>4 DEF IInv, TypeOK, PendingAccounted, ControlInv,
         UpdatesPressed, OneshotDecides, LostOnlyWhenOverdue, Decisions
  <1>2. ASSUME NEW t \in Turns, NEW d \in Decisions, Press(t, d)
        PROVE  IInv'
    <2> DEFINE u == [turn |-> t, decision |-> d]
    <2>1. /\ updates' \in Seq(Updates) /\ Len(updates') = Len(updates) + 1
          /\ updates'[Len(updates')] = u
          /\ \A i \in 1..Len(updates) : updates'[i] = updates[i]
          /\ Len(updates) \in Nat
      <3>1. updates \in Seq(Updates) /\ u \in Updates /\ updates' = Append(updates, u)
        BY <1>2 DEF Press, IInv, TypeOK, Updates
      <3> HIDE DEF u
      <3> QED
        BY <3>1
    <2>2. /\ pressed' \in [Turns -> SUBSET Decisions] /\ d \in pressed'[t]
          /\ \A s \in Turns : pressed[s] \subseteq pressed'[s]
      BY <1>2 DEF Press, IInv, TypeOK
    <2>3. UpdatesPressed'
      <3> SUFFICES ASSUME NEW i \in 1..Len(updates')
                   PROVE  updates'[i].decision \in pressed'[updates'[i].turn]
        BY DEF UpdatesPressed
      <3>1. CASE i = Len(updates')
        BY <3>1, <2>1, <2>2
      <3>2. CASE i # Len(updates')
        <4>1. i \in 1..Len(updates) /\ updates'[i] = updates[i]
          BY <3>2, <2>1
        <4>2. updates \in Seq(Updates)
          BY DEF IInv, TypeOK, Updates
        <4>3. updates[i] \in Updates
          BY <4>1, <4>2
        <4> QED
          BY <4>1, <4>3, <2>2 DEF IInv, UpdatesPressed, Updates
      <3> QED
        BY <3>1, <3>2
    <2>4. TypeOK'
      BY <1>2, <2>1, <2>2 DEF IInv, TypeOK, Press, Updates
    <2> QED
      BY <1>2, <2>2, <2>3, <2>4 DEF IInv, TypeOK, PendingAccounted, ControlInv,
         OneshotDecides, LostOnlyWhenOverdue, Press
  <1> QED
    BY <1>1, <1>2

\* A press is handled: resolve() if the entry is still there.
LEMMA CallbackIInv ==
    ASSUME IInv, Callback
    PROVE  IInv'
  <1>1. /\ updates \in Seq(Updates) /\ updates # <<>> /\ updates' = Tail(updates)
    BY DEF Callback, IInv, TypeOK, Updates
  <1>2. /\ Head(updates) = updates[1] /\ Head(updates) \in Updates
        /\ Len(updates) \in Nat \ {0} /\ updates' \in Seq(Updates)
        /\ Len(updates') = Len(updates) - 1
        /\ \A i \in 1..Len(updates') : updates'[i] = updates[i + 1]
    BY <1>1, TailFacts
  <1>3. PICK t \in Turns, d \in Decisions : Head(updates) = [turn |-> t, decision |-> d]
    BY <1>2 DEF Updates
  <1>4. d \in pressed[t]
    BY <1>2, <1>3 DEF IInv, UpdatesPressed
  <1>5. UpdatesPressed'
    BY <1>2 DEF IInv, UpdatesPressed, Callback
  <1>6. CASE pending[t] = "none"
    BY <1>2, <1>3, <1>5, <1>6 DEF IInv, TypeOK, PendingAccounted, ControlInv,
       OneshotDecides, LostOnlyWhenOverdue, Callback, Updates
  <1>7. CASE pending[t] # "none"
    <2>1. Resolve(t, d) /\ UNCHANGED <<mode, pc, overdue, ui, reply, pressed, outcome>>
      BY <1>3, <1>7 DEF Callback
    <2>2. decision[t] = "empty" /\ pc[t] \in {"send", "wait"}
      BY <1>7 DEF IInv, PendingAccounted
    <2>3. /\ shown' \in [Turns -> Decisions \union {"none", "buttons", "timeout"}]
          /\ shown'[t] \in {shown[t], d}
          /\ \A s \in Turns \ {t} : shown'[s] = shown[s]
      <3>1. PICK s \in Edit(shown[t], pending[t], d) : shown' = [shown EXCEPT ![t] = s]
        BY <2>1 DEF Resolve
      <3>2. s \in {shown[t], d}
        BY <3>1 DEF Edit
      <3> QED
        BY <3>1, <3>2 DEF IInv, TypeOK
    <2> QED
      BY <1>2, <1>4, <1>5, <2>1, <2>2, <2>3 DEF IInv, TypeOK, PendingAccounted,
         ControlInv, OneshotDecides, LostOnlyWhenOverdue, Resolve, Updates, Decisions
  <1> QED
    BY <1>6, <1>7

\* One tick of the cleanup task.
LEMMA CleanupIInv ==
    ASSUME IInv, Cleanup
    PROVE  IInv'
  <1> DEFINE gone == {t \in overdue : pending[t] # "none"}
  <1>1. /\ pending' = [t \in Turns |-> IF t \in gone THEN "none" ELSE pending[t]]
        /\ decision' = [t \in Turns |-> IF t \in gone THEN Dropped(decision[t])
                                                      ELSE decision[t]]
        /\ shown' \in [Turns -> Decisions \union {"none", "buttons", "timeout"}]
        /\ \A t \in Turns : shown'[t] \in IF t \in gone THEN {shown[t], "timeout"}
                                                        ELSE {shown[t]}
        /\ UNCHANGED <<mode, pc, overdue, ui, reply, updates, pressed, outcome>>
    BY DEF Cleanup, DropEntries, Edit, Decisions
  <1>2. \A t \in gone : /\ t \in Turns /\ t \in overdue
                        /\ decision[t] = "empty" /\ pc[t] \in {"send", "wait"}
                        /\ decision'[t] = "closed" /\ pending'[t] = "none"
                        /\ shown'[t] \in {shown[t], "timeout"}
    BY <1>1 DEF IInv, TypeOK, PendingAccounted, Dropped
  <1>3. \A t \in Turns \ gone : /\ decision'[t] = decision[t] /\ pending'[t] = pending[t]
                                /\ shown'[t] = shown[t]
    BY <1>1
  <1>4. TypeOK'
    <2>1. /\ pending' \in [Turns -> {"none", "noMsg", "msg"}]
          /\ decision' \in [Turns -> Decisions \union {"empty", "closed"}]
      BY <1>1 DEF IInv, TypeOK, Dropped
    <2> QED
      BY <1>1, <2>1 DEF IInv, TypeOK
  <1> HIDE DEF gone
  <1>5. PendingAccounted' /\ ControlInv' /\ LostOnlyWhenOverdue'
    BY <1>1, <1>2, <1>3 DEF IInv, PendingAccounted, ControlInv, LostOnlyWhenOverdue
  <1>6. OneshotDecides'
    BY <1>1, <1>2, <1>3 DEF IInv, TypeOK, OneshotDecides, Decisions
  <1>7. UpdatesPressed'
    BY <1>1 DEF IInv, UpdatesPressed
  <1> QED
    BY <1>4, <1>5, <1>6, <1>7 DEF IInv

\* Every step of the coordinator, the service and the user keeps the invariant.
LEMMA NextIInv ==
    ASSUME IInv, [Next]_vars
    PROVE  IInv'
  <1>1. CASE UNCHANGED vars
    BY <1>1 DEF vars, IInv, TypeOK, PendingAccounted, ControlInv, UpdatesPressed,
       OneshotDecides, LostOnlyWhenOverdue
  <1>2. CASE Next
    BY <1>2, AskIInv, WaitIInv, ButtonsIInv, CallbackIInv, CleanupIInv DEF Next
  <1> QED
    BY <1>1, <1>2

LEMMA Invariance == Spec => []IInv
  BY InitIInv, NextIInv, PTL DEF Spec

-----------------------------------------------------------------------------
\* The coordinator's state is well-typed and the UI channel within its capacity.
THEOREM TypeCorrect == Spec => []TypeOK
  <1>1. IInv => TypeOK
    BY DEF IInv
  <1> QED
    BY <1>1, Invariance, PTL

\* The map of approval.rs holds exactly the undecided requests: no way out of
\* request(), and no race of cleanup with a press, leaves an entry behind.
THEOREM NoEntryLeft == Spec => []PendingAccounted
  <1>1. IInv => PendingAccounted
    BY DEF IInv
  <1> QED
    BY <1>1, Invariance, PTL

\* The Telegram message and the turn never tell different stories.
THEOREM ChatAgrees == Spec => []UiNeverContradicts
  <1>1. IInv => UiNeverContradicts
    BY DEF IInv, OneshotDecides, UiNeverContradicts, Decisions
  <1> QED
    BY <1>1, Invariance, PTL

\* With the polling service running, request() gives up only after its deadline.
THEOREM NothingLostEarly == Spec => []LostOnlyWhenOverdue
  <1>1. IInv => LostOnlyWhenOverdue
    BY DEF IInv
  <1> QED
    BY <1>1, Invariance, PTL

\* The coordinator implements what request() promises: one final answer, a
\* decision only if the user pressed it for this call.
THEOREM Refinement == Spec => KeepsPromise
  <1>1. Init => Promise!Init
    BY DEF Init, Promise!Init
  <1>2. IInv /\ [Next]_vars => [Promise!Next]_(Promise!vars)
    <2> SUFFICES ASSUME IInv, [Next]_vars
                 PROVE  [Promise!Next]_(Promise!vars)
      OBVIOUS
    <2>1. ASSUME NEW t \in Turns, NEW r \in Decisions \union {"none"},
                 Return(t, r), UNCHANGED pressed, pc[t] # "done",
                 r \in pressed[t] \union {"none"}
          PROVE  Promise!Next
      <3>1. Promise!Return(t, r)
        BY <2>1 DEF Return, Promise!Return, IInv, ControlInv
      <3> QED
        BY <3>1 DEF Promise!Next, Promise!Decisions, Decisions
    <2>2. ASSUME NEW t \in Turns, TakeDecision(t)
          PROVE  Promise!Next
      <3> DEFINE r == IF decision[t] = "closed" THEN "none" ELSE decision[t]
      <3>1. r \in Decisions \union {"none"} /\ r \in pressed[t] \union {"none"}
        BY <2>2 DEF TakeDecision, IInv, TypeOK, OneshotDecides, Decisions
      <3>2. Return(t, r) /\ UNCHANGED pressed /\ pc[t] # "done"
        BY <2>2 DEF TakeDecision
      <3> QED
        BY <2>1, <3>1, <3>2
    <2>3. ASSUME NEW t \in Turns, TakeDeadline(t) \/ SendUiFails(t)
          PROVE  Promise!Next
      <3>1. Return(t, "none") /\ UNCHANGED pressed /\ pc[t] # "done"
        BY <2>3 DEF TakeDeadline, SendUiFails
      <3> QED
        BY <2>1, <3>1
    <2>4. ASSUME NEW t \in Turns, NEW d \in Decisions, Press(t, d)
          PROVE  Promise!Next
      <3>1. Promise!Press(t, d)
        BY <2>4 DEF Press, Promise!Press
      <3> QED
        BY <3>1 DEF Promise!Next, Promise!Decisions, Decisions
    <2>5. ASSUME NEW t \in Turns, Insert(t) \/ SendUi(t) \/ TakeMsgId(t) \/ Expire(t)
          PROVE  UNCHANGED Promise!vars
      BY <2>5 DEF Insert, SendUi, TakeMsgId, Expire, Promise!vars
    <2>6. CASE ShowButtons \/ Callback \/ Cleanup
      BY <2>6 DEF ShowButtons, Callback, Cleanup, Promise!vars
    <2>7. CASE UNCHANGED vars
      BY <2>7 DEF vars, Promise!vars
    <2> QED
      BY <2>2, <2>3, <2>4, <2>5, <2>6, <2>7 DEF Next, Select
  <1> QED
    BY <1>1, <1>2, Invariance, PTL DEF Spec, KeepsPromise, Promise!Spec
=============================================================================
