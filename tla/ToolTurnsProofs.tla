--------------------------- MODULE ToolTurnsProofs --------------------------
(***************************************************************************)
(* Turns on one session, for any number of turns and calls and any limits: *)
(* no gated call runs without a consent of its own; a caller that has the  *)
(* session to itself flushes its memory once per compaction cycle, records *)
(* one result per call, in the order of the calls, and loses nothing but   *)
(* the front of the history to compaction; and a call runs again only if   *)
(* its result was dropped or turns overlap.                                *)
(***************************************************************************)
EXTENDS ToolTurns, SequenceTheorems, WellFoundedInduction, TLAPS

-----------------------------------------------------------------------------
(* Every execution of a gated call has a consent of its own.               *)

\* An approval that was not used yet is one consent more than executions.
ConsentInv ==
    /\ gated \subseteq Calls
    /\ runs \in [Calls -> Nat] /\ consents \in [Calls -> Nat]
    /\ \A c \in gated : runs[c] <= consents[c]
    /\ \A c \in gated : c \in approved => runs[c] < consents[c]

LEMMA ConsentStarts == Init => ConsentInv
  BY DEF Init, ConsentInv

\* One more in a counter of calls.
LEMMA Counted ==
    ASSUME NEW f \in [Calls -> Nat], NEW c
    PROVE  [f EXCEPT ![c] = @ + 1] \in [Calls -> Nat]
  <1>1. \A d \in Calls : f[d] \in Nat /\ f[d] + 1 \in Nat
    OBVIOUS
  <1>2. CASE c \in Calls
    BY <1>1, <1>2
  <1>3. CASE c \notin Calls
    <2>1. [f EXCEPT ![c] = @ + 1] = f
      BY <1>3
    <2> QED
      BY <2>1
  <1> QED
    BY <1>2, <1>3

\* What a step without approval and execution leaves alone.
LEMMA ConsentUntouched ==
    ASSUME ConsentInv, UNCHANGED <<gated, runs, consents, approved>>
    PROVE  ConsentInv'
  BY DEF ConsentInv

LEMMA ConsentUsed == ASSUME NEW t \in Turns, ConsentInv, StartTool(t) PROVE ConsentInv'
  <1>1. PICK c : /\ IF c \in gated THEN Consume(c) ELSE UNCHANGED approved
                 /\ runs' = [runs EXCEPT ![c] = @ + 1]
    BY DEF StartTool
  <1>2. UNCHANGED <<gated, consents>>
    BY DEF StartTool, consent
  <1>3. /\ gated \subseteq Calls
        /\ runs \in [Calls -> Nat] /\ consents \in [Calls -> Nat]
        /\ \A d \in gated : runs[d] <= consents[d]
        /\ \A d \in gated : d \in approved => runs[d] < consents[d]
    BY DEF ConsentInv
  <1>4. runs' \in [Calls -> Nat]
    BY <1>1, <1>3, Counted
  <1>5. approved' \subseteq approved /\ (c \in gated => c \in approved /\ c \notin approved')
    BY <1>1 DEF Consume
  <1>6. ASSUME NEW d \in gated
        PROVE  runs'[d] <= consents'[d] /\ (d \in approved' => runs'[d] < consents'[d])
    <2>1. d \in Calls /\ runs[d] \in Nat /\ consents[d] \in Nat
      BY <1>3
    <2>2. CASE d = c
      <3>1. runs'[d] = runs[d] + 1 /\ runs[d] < consents[d] /\ d \notin approved'
        BY <1>1, <1>3, <1>5, <2>1, <2>2
      <3> QED
        BY <1>2, <2>1, <3>1
    <2>3. CASE d # c
      <3>1. runs'[d] = runs[d]
        BY <1>1, <1>3, <2>1, <2>3
      <3> QED
        BY <1>2, <1>3, <1>5, <3>1
    <2> QED
      BY <2>2, <2>3
  <1> QED
    BY <1>2, <1>3, <1>4, <1>6 DEF ConsentInv

\* The user approves a call.
LEMMA ConsentGiven ==
    ASSUME NEW c, ConsentInv, consents' = [consents EXCEPT ![c] = @ + 1],
           approved' \subseteq approved \union {c}, UNCHANGED <<gated, runs>>
    PROVE  ConsentInv'
  <1>1. /\ gated \subseteq Calls
        /\ runs \in [Calls -> Nat] /\ consents \in [Calls -> Nat]
        /\ \A d \in gated : runs[d] <= consents[d]
        /\ \A d \in gated : d \in approved => runs[d] < consents[d]
    BY DEF ConsentInv
  <1>2. consents' \in [Calls -> Nat]
    BY <1>1, Counted
  <1>3. ASSUME NEW d \in gated
        PROVE  runs'[d] <= consents'[d] /\ (d \in approved' => runs'[d] < consents'[d])
    <2>1. d \in Calls /\ runs[d] \in Nat /\ consents[d] \in Nat
      BY <1>1
    <2>2. CASE d = c
      <3>1. consents'[d] = consents[d] + 1 /\ runs'[d] = runs[d] /\ runs[d] <= consents[d]
        BY <1>1, <2>1, <2>2
      <3> QED
        BY <2>1, <3>1
    <2>3. CASE d # c
      <3>1. consents'[d] = consents[d] /\ (d \in approved' => d \in approved)
        BY <1>1, <2>1, <2>3
      <3> QED
        BY <1>1, <3>1
    <2> QED
      BY <2>2, <2>3
  <1> QED
    BY <1>1, <1>2, <1>3 DEF ConsentInv

\* A yes at the terminal: an approval that is there is used up at once.
LEMMA ConsentPrompted ==
    ASSUME NEW c, ConsentInv, consents' = [consents EXCEPT ![c] = @ + 1],
           approved' = approved \ {c}, UNCHANGED gated,
           runs' = [runs EXCEPT ![c] = IF c \in approved THEN @ + 1 ELSE @]
    PROVE  ConsentInv'
  <1>1. /\ gated \subseteq Calls
        /\ runs \in [Calls -> Nat] /\ consents \in [Calls -> Nat]
        /\ \A d \in gated : runs[d] <= consents[d]
        /\ \A d \in gated : d \in approved => runs[d] < consents[d]
    BY DEF ConsentInv
  <1>2. consents' \in [Calls -> Nat] /\ runs' \in [Calls -> Nat]
    <2>1. runs' = runs \/ runs' = [runs EXCEPT ![c] = @ + 1]
      <3>1. CASE c \in approved
        BY <3>1
      <3>2. CASE c \notin approved
        BY <1>1, <3>2
      <3> QED
        BY <3>1, <3>2
    <2>2. [runs EXCEPT ![c] = @ + 1] \in [Calls -> Nat]
      BY <1>1, Counted
    <2>3. consents' \in [Calls -> Nat]
      BY <1>1, Counted
    <2> QED
      BY <1>1, <2>1, <2>2, <2>3
  <1>3. ASSUME NEW d \in gated
        PROVE  runs'[d] <= consents'[d] /\ (d \in approved' => runs'[d] < consents'[d])
    <2>1. d \in Calls /\ runs[d] \in Nat /\ consents[d] \in Nat
      BY <1>1
    <2>2. CASE d = c
      <3>1. /\ consents'[d] = consents[d] + 1 /\ runs[d] <= consents[d] /\ d \notin approved'
            /\ runs'[d] = runs[d] \/ runs'[d] = runs[d] + 1
        BY <1>1, <2>1, <2>2
      <3> QED
        BY <2>1, <3>1
    <2>3. CASE d # c
      <3>1. consents'[d] = consents[d] /\ runs'[d] = runs[d] /\ (d \in approved' => d \in approved)
        BY <1>1, <2>1, <2>3
      <3> QED
        BY <1>1, <3>1
    <2> QED
      BY <2>2, <2>3
  <1> QED
    BY <1>1, <1>2, <1>3 DEF ConsentInv

LEMMA ConsentInductive == ConsentInv /\ [Next]_(vars) => ConsentInv'
  <1> SUFFICES ASSUME ConsentInv, [Next]_(vars) PROVE ConsentInv'
    OBVIOUS
  <1>1. CASE UNCHANGED vars
    BY <1>1, ConsentUntouched DEF vars
  <1>2. CASE Next
    <2>1. PICK t \in Turns :
            \/ Enter(t) \/ Fresh(t) \/ Clear(t) \/ Begin(t)
            \/ FlushCheck(t) \/ Flush(t)
            \/ CompactCheck(t) \/ Compact(t)
            \/ RespondText(t) \/ RespondCalls(t) \/ RespondError(t)
            \/ StreamEnds(t)
            \/ StartTool(t) \/ NeedApproval(t) \/ FinishTool(t)
            \/ Decide(t) \/ Prompt(t) \/ HttpApprove(t) \/ Resume(t)
            \/ Cancel(t)
      BY <1>2 DEF Next
    <2>2. CASE StartTool(t)
      BY <2>2, ConsentUsed
    <2>3. CASE HttpApprove(t)
      <3>1. PICK c : consents' = [consents EXCEPT ![c] = @ + 1] /\ approved' = approved \union {c}
        BY <2>3 DEF HttpApprove
      <3>2. UNCHANGED <<gated, runs>>
        BY <2>3 DEF HttpApprove
      <3> QED
        BY <3>1, <3>2, ConsentGiven
    <2>4. CASE Decide(t)
      <3>1. UNCHANGED <<gated, runs>>
        BY <2>4 DEF Decide
      <3>2. PICK c : \/ consents' = [consents EXCEPT ![c] = @ + 1] /\ approved' = approved \union {c}
                     \/ UNCHANGED <<approved, consents>>
        BY <2>4 DEF Decide
      <3> QED
        BY <3>1, <3>2, ConsentGiven, ConsentUntouched
    <2>5. CASE Prompt(t)
      <3>1. UNCHANGED gated
        BY <2>5 DEF Prompt
      <3>2. PICK c : \/ /\ consents' = [consents EXCEPT ![c] = @ + 1]
                        /\ approved' = approved \ {c}
                        /\ runs' = [runs EXCEPT ![c] = IF c \in approved THEN @ + 1 ELSE @]
                     \/ UNCHANGED <<consents, approved, runs>>
        BY <2>5 DEF Prompt
      <3> QED
        BY <3>1, <3>2, ConsentPrompted, ConsentUntouched
    <2>6. CASE ~(StartTool(t) \/ HttpApprove(t) \/ Decide(t) \/ Prompt(t))
      <3>1. UNCHANGED <<gated, runs, consents, approved>>
        BY <2>1, <2>6
           DEF Enter, Fresh, Clear, Begin, FlushCheck, Flush,
               CompactCheck, Compact, RespondText, RespondCalls,
               RespondError, StreamEnds, NeedApproval, FinishTool, Resume,
               Cancel, tools, consent
      <3> QED
        BY <3>1, ConsentUntouched
    <2> QED
      BY <2>2, <2>3, <2>4, <2>5, <2>6
  <1> QED
    BY <1>1, <1>2

\* A gated tool never runs without an approval of its own, whoever answers, however
\* turns of one chat overlap and take up each other's calls in continue_chat(), for
\* any number of turns and calls.
THEOREM ConsentForEveryRun == Spec => []ConsentConserved
  <1>1. ConsentInv => ConsentConserved
    <2> SUFFICES ASSUME ConsentInv, NEW c \in gated
                 PROVE  runs[c] + (IF c \in approved THEN 1 ELSE 0) <= consents[c]
      BY DEF ConsentConserved
    <2>1. runs[c] \in Nat /\ consents[c] \in Nat
      BY DEF ConsentInv
    <2>2. runs[c] <= consents[c] /\ (c \in approved => runs[c] < consents[c])
      BY DEF ConsentInv
    <2>3. CASE c \in approved
      BY <2>1, <2>2, <2>3
    <2>4. CASE c \notin approved
      BY <2>1, <2>2, <2>4
    <2> QED
      BY <2>3, <2>4
  <1> QED
    BY <1>1, ConsentStarts, ConsentInductive, PTL DEF Spec

-----------------------------------------------------------------------------
(* One memory flush per compaction cycle.                                  *)

Places == {"idle", "fresh", "begin", "check", "flush", "compact", "compacting", "llm", "calls",
           "tool", "approval", "resume", "done"}
InTurn(t) == pc[t] \notin {"idle", "done"}

\* Callers but ingress run one turn at a time.
Alone == \A t, u \in Turns : InTurn(t) /\ InTurn(u) => t = u

\* A flush since the last compaction is on record, and a turn that has decided to
\* flush decided so of the present cycle.
CycleInv ==
    /\ flushes = 0 \/ (flushes = 1 /\ compactions < flushedAt)
    /\ \A t \in Turns : pc[t] = "flush" => flushedAt <= compactions

FlushInv ==
    /\ pc \in [Turns -> Places]
    /\ compactions \in Nat /\ flushedAt \in Nat
    /\ caller # "ingress" => Alone /\ CycleInv

LEMMA FlushStarts == Init => FlushInv
  BY DEF Init, FlushInv, Alone, CycleInv, InTurn, Places

\* A step of a turn that neither flushes nor compacts, nor decides to flush.
LEMMA FlushUntouched ==
    ASSUME NEW t \in Turns, NEW s \in Places, FlushInv, pc' = [pc EXCEPT ![t] = s],
           s # "flush" \/ flushedAt <= compactions,
           caller = "ingress" \/ InTurn(t) \/ \A u \in Turns : ~InTurn(u),
           UNCHANGED <<caller, compactions, flushedAt, flushes>>
    PROVE  FlushInv'
  <1>1. pc' \in [Turns -> Places] /\ compactions' \in Nat /\ flushedAt' \in Nat
    BY DEF FlushInv
  <1>2. \A u \in Turns : pc'[u] = IF u = t THEN s ELSE pc[u]
    BY DEF FlushInv
  <1>3. ASSUME caller # "ingress" PROVE Alone' /\ CycleInv'
    <2>1. Alone /\ CycleInv
      BY <1>3 DEF FlushInv
    <2>2. \A u \in Turns : u # t /\ InTurn(u)' => InTurn(u)
      BY <1>2 DEF InTurn
    <2>3. \A u \in Turns : u # t => ~InTurn(u)
      BY <1>3, <2>1 DEF Alone
    <2>4. Alone'
      BY <2>2, <2>3 DEF Alone
    <2>5. CycleInv'
      BY <1>2, <2>1 DEF CycleInv
    <2> QED
      BY <2>4, <2>5
  <1> QED
    BY <1>1, <1>3 DEF FlushInv

\* A flush, a compaction or a new session, by the only turn there is.
LEMMA FlushCounted ==
    ASSUME NEW t \in Turns, NEW s \in Places, FlushInv, pc' = [pc EXCEPT ![t] = s],
           s # "flush", UNCHANGED caller,
           caller = "ingress" \/ InTurn(t) \/ \A u \in Turns : ~InTurn(u),
           compactions' \in Nat, flushedAt' \in Nat,
           caller # "ingress" => flushes' = 0 \/ (flushes' = 1 /\ compactions' < flushedAt')
    PROVE  FlushInv'
  <1>1. pc' \in [Turns -> Places]
    BY DEF FlushInv
  <1>2. \A u \in Turns : pc'[u] = IF u = t THEN s ELSE pc[u]
    BY DEF FlushInv
  <1>3. ASSUME caller # "ingress" PROVE Alone' /\ CycleInv'
    <2>1. Alone /\ CycleInv
      BY <1>3 DEF FlushInv
    <2>2. \A u \in Turns : u # t /\ InTurn(u)' => InTurn(u)
      BY <1>2 DEF InTurn
    <2>3. \A u \in Turns : u # t => ~InTurn(u)
      BY <1>3, <2>1 DEF Alone
    <2>4. Alone'
      BY <2>2, <2>3 DEF Alone
    <2>5. \A u \in Turns : pc'[u] # "flush"
      BY <1>2, <2>3 DEF InTurn
    <2>6. CycleInv'
      BY <1>3, <2>5 DEF CycleInv
    <2> QED
      BY <2>4, <2>6
  <1> QED
    BY <1>1, <1>3 DEF FlushInv

LEMMA NobodyElse ==
    ASSUME NEW t \in Turns, MayStart(t)
    PROVE  caller = "ingress" \/ \A u \in Turns : ~InTurn(u)
  BY DEF MayStart, InFlight, InTurn

LEMMA FlushStep ==
    ASSUME NEW t \in Turns, FlushInv,
           \/ Enter(t) \/ Begin(t) \/ FlushCheck(t) \/ CompactCheck(t)
           \/ RespondText(t) \/ RespondCalls(t) \/ RespondError(t)
           \/ StreamEnds(t)
           \/ StartTool(t) \/ NeedApproval(t) \/ FinishTool(t)
           \/ Decide(t) \/ Prompt(t) \/ HttpApprove(t) \/ Resume(t)
           \/ Cancel(t)
    PROVE  FlushInv'
  <1>1. CASE Enter(t)
    <2>1. PICK s \in {"fresh", "begin"} : pc' = [pc EXCEPT ![t] = s]
      BY <1>1 DEF Enter, Goto
    <2>2. caller = "ingress" /\ UNCHANGED <<caller, compactions, flushedAt, flushes>>
      BY <1>1 DEF Enter, session
    <2> QED
      BY <2>1, <2>2, FlushUntouched DEF Places
  <1>2. CASE Begin(t)
    <2>1. pc' = [pc EXCEPT ![t] = "check"]
      BY <1>2 DEF Begin, Goto
    <2>2. UNCHANGED <<caller, compactions, flushedAt, flushes>>
      BY <1>2 DEF Begin, AddMessage
    <2>3. caller = "ingress" \/ \A u \in Turns : ~InTurn(u)
      BY <1>2, NobodyElse DEF Begin
    <2> QED
      BY <2>1, <2>2, <2>3, FlushUntouched DEF Places
  <1>3. CASE FlushCheck(t)
    <2>1. PICK s \in {"flush", "compact"} :
            /\ pc' = [pc EXCEPT ![t] = s]
            /\ s # "flush" \/ flushedAt <= compactions
      BY <1>3 DEF FlushCheck, Goto, ShouldFlush
    <2>2. UNCHANGED <<caller, compactions, flushedAt, flushes>> /\ InTurn(t)
      BY <1>3 DEF FlushCheck, session, InTurn
    <2> QED
      BY <2>1, <2>2, FlushUntouched DEF Places
  <1>4. CASE CompactCheck(t) \/ RespondError(t) \/ StreamEnds(t)
    <2>1. PICK s \in {"compacting", "llm", "done"} : pc' = [pc EXCEPT ![t] = s]
      BY <1>4 DEF CompactCheck, RespondError, StreamEnds, Goto
    <2>2. UNCHANGED <<caller, compactions, flushedAt, flushes>> /\ InTurn(t)
      BY <1>4 DEF CompactCheck, RespondError, StreamEnds, session, InTurn
    <2> QED
      BY <2>1, <2>2, FlushUntouched DEF Places
  <1>5. CASE RespondText(t)
    <2>1. PICK s \in {"compact", "done"} : pc' = [pc EXCEPT ![t] = s]
      BY <1>5 DEF RespondText, Goto
    <2>2. UNCHANGED <<caller, compactions, flushedAt, flushes>> /\ InTurn(t)
      BY <1>5 DEF RespondText, AddMessage, session, InTurn
    <2> QED
      BY <2>1, <2>2, FlushUntouched DEF Places
  <1>6. CASE RespondCalls(t) \/ StartTool(t) \/ FinishTool(t)
    <2>1. PICK s \in {"calls", "tool", "llm"} : pc' = [pc EXCEPT ![t] = s]
      BY <1>6 DEF RespondCalls, StartTool, FinishTool, Goto
    <2>2. UNCHANGED <<caller, compactions, flushedAt, flushes>> /\ InTurn(t)
      BY <1>6 DEF RespondCalls, StartTool, FinishTool, AddMessage,
                  session, InTurn
    <2> QED
      BY <2>1, <2>2, FlushUntouched DEF Places
  <1>7. CASE NeedApproval(t) \/ Cancel(t)
    <2>1. PICK s \in {"approval", "done"} : pc' = [pc EXCEPT ![t] = s]
      BY <1>7 DEF NeedApproval, Cancel, Goto
    <2>2. UNCHANGED <<caller, compactions, flushedAt, flushes>> /\ InTurn(t)
      BY <1>7 DEF NeedApproval, Cancel, session, InTurn
    <2> QED
      BY <2>1, <2>2, FlushUntouched DEF Places
  <1>8. CASE Decide(t) \/ Prompt(t)
    <2>1. PICK s \in {"resume", "llm", "done"} : pc' = [pc EXCEPT ![t] = s]
      BY <1>8 DEF Decide, Prompt, Goto
    <2>2. UNCHANGED <<caller, compactions, flushedAt, flushes>> /\ InTurn(t)
      BY <1>8 DEF Decide, Prompt, AddMessage, session, InTurn
    <2> QED
      BY <2>1, <2>2, FlushUntouched DEF Places
  <1>9. CASE HttpApprove(t)
    <2>1. pc' = [pc EXCEPT ![t] = "resume"]
      BY <1>9 DEF HttpApprove, Goto
    <2>2. UNCHANGED <<caller, compactions, flushedAt, flushes>>
      BY <1>9 DEF HttpApprove, session
    <2>3. caller = "ingress" \/ \A u \in Turns : ~InTurn(u)
      BY <1>9, NobodyElse DEF HttpApprove
    <2> QED
      BY <2>1, <2>2, <2>3, FlushUntouched DEF Places
  <1>10. CASE Resume(t)
    <2>1. PICK s \in {"done", "llm", "calls"} : pc' = [pc EXCEPT ![t] = s]
      BY <1>10 DEF Resume, Goto
    <2>2. UNCHANGED <<caller, compactions, flushedAt, flushes>> /\ InTurn(t)
      BY <1>10 DEF Resume, session, InTurn
    <2> QED
      BY <2>1, <2>2, FlushUntouched DEF Places
  <1> QED
    BY <1>1, <1>2, <1>3, <1>4, <1>5, <1>6, <1>7, <1>8, <1>9, <1>10

LEMMA CycleStep ==
    ASSUME NEW t \in Turns, FlushInv,
           Fresh(t) \/ Clear(t) \/ Flush(t) \/ Compact(t)
    PROVE  FlushInv'
  <1>1. CASE Fresh(t) \/ Clear(t)
    <2>1. PICK s \in {"begin", "done"} : pc' = [pc EXCEPT ![t] = s]
      BY <1>1 DEF Fresh, Clear, Goto
    <2>2. /\ UNCHANGED caller /\ compactions' = 0 /\ flushedAt' = 0 /\ flushes' = 0
      BY <1>1 DEF Fresh, Clear, NewSession
    <2>3. caller = "ingress" \/ InTurn(t) \/ \A u \in Turns : ~InTurn(u)
      BY <1>1, NobodyElse DEF Fresh, Clear, InTurn
    <2> QED
      BY <2>1, <2>2, <2>3, FlushCounted DEF Places
  <1>2. CASE Flush(t)
    <2>1. pc[t] = "flush" /\ pc' = [pc EXCEPT ![t] = "llm"] /\ InTurn(t)
      BY <1>2 DEF Flush, Goto, InTurn
    <2>2. /\ UNCHANGED <<caller, compactions>>
          /\ flushedAt' = compactions + 1 /\ flushes' = flushes + 1
      BY <1>2 DEF Flush
    <2>3. compactions \in Nat /\ flushedAt \in Nat
      BY DEF FlushInv
    <2>4. ASSUME caller # "ingress" PROVE flushes = 0
      <3>1. flushedAt <= compactions
        BY <2>1, <2>4 DEF FlushInv, CycleInv
      <3>2. ~(compactions < flushedAt)
        BY <2>3, <3>1
      <3> QED
        BY <2>4, <3>2 DEF FlushInv, CycleInv
    <2>5. caller # "ingress" => flushes' = 0 \/ (flushes' = 1 /\ compactions' < flushedAt')
      BY <2>2, <2>3, <2>4
    <2>6. compactions' \in Nat /\ flushedAt' \in Nat
      BY <2>2, <2>3
    <2> QED
      BY <2>1, <2>2, <2>5, <2>6, FlushCounted DEF Places
  <1>3. CASE Compact(t)
    <2>1. PICK s \in {"llm", "done"} : pc' = [pc EXCEPT ![t] = s]
      BY <1>3 DEF Compact, Goto
    <2>2. UNCHANGED <<caller, flushedAt>> /\ InTurn(t)
      BY <1>3 DEF Compact, InTurn
    <2>3. \/ UNCHANGED <<compactions, flushes>>
          \/ compactions' = compactions + 1 /\ flushes' = 0
      BY <1>3 DEF Compact
    <2>4. CASE UNCHANGED <<compactions, flushes>>
      BY <2>1, <2>2, <2>4, FlushUntouched DEF Places
    <2>5. CASE compactions' = compactions + 1 /\ flushes' = 0
      <3>1. compactions' \in Nat /\ flushedAt' \in Nat
        BY <2>2, <2>5 DEF FlushInv
      <3> QED
        BY <2>1, <2>2, <2>5, <3>1, FlushCounted DEF Places
    <2> QED
      BY <2>3, <2>4, <2>5
  <1> QED
    BY <1>1, <1>2, <1>3

LEMMA FlushInductive == FlushInv /\ [Next]_(vars) => FlushInv'
  <1> SUFFICES ASSUME FlushInv, [Next]_(vars) PROVE FlushInv'
    OBVIOUS
  <1>1. CASE UNCHANGED vars
    BY <1>1 DEF vars, FlushInv, Alone, CycleInv, InTurn
  <1>2. CASE Next
    BY <1>2, FlushStep, CycleStep DEF Next
  <1> QED
    BY <1>1, <1>2

\* memory_flush_compaction_count keeps its promise: for a caller that has the session
\* to itself, one flush prompt per compaction cycle, for any limits and any number of
\* turns, new sessions and compactions.
THEOREM OneFlushPerCycle == Spec => []FlushOncePerCycle
  <1>1. FlushInv => FlushOncePerCycle
    BY DEF FlushInv, CycleInv, FlushOncePerCycle
  <1> QED
    BY <1>1, FlushStarts, FlushInductive, PTL DEF Spec

-----------------------------------------------------------------------------
(* What Filter takes.                                                      *)

LEMMA LeastNumber ==
    ASSUME NEW T \in SUBSET Nat, T # {}
    PROVE  \E m \in T : \A k \in T : m <= k
  <1> DEFINE R == {ss \in Nat \X Nat : ss[1] < ss[2]}
  <1>1. IsWellFoundedOn(R, Nat)
    BY NatLessThanWellFounded DEF OpToRel
  <1> HIDE DEF R
  <1>2. \E m \in T : \A k \in T : ~ (<<k, m>> \in R)
    BY <1>1, WFMin, Zenon
  <1>3. PICK m \in T : \A k \in T : ~ (<<k, m>> \in R)
    BY <1>2
  <1>4. \A k \in T : ~ (k < m)
    BY <1>3 DEF R
  <1> QED
    BY <1>3, <1>4

LEMMA GreatestNumber ==
    ASSUME NEW j \in Nat, NEW T \in SUBSET (1..j), T # {}
    PROVE  \E m \in T : \A k \in T : k <= m
  <1> DEFINE U == {u \in Nat : \A k \in T : k <= u}
  <1>1. U \in SUBSET Nat /\ j \in U
    OBVIOUS
  <1>2. PICK u \in U : \A v \in U : u <= v
    BY <1>1, LeastNumber
  <1>3. SUFFICES ASSUME u \notin T
                 PROVE  FALSE
    BY <1>2
  <1>4. PICK t \in T : TRUE
    OBVIOUS
  <1>5. u - 1 \in Nat /\ \A k \in T : k <= u - 1
    BY <1>2, <1>3, <1>4
  <1>6. u - 1 \in U
    BY <1>5
  <1> QED
    BY <1>2, <1>6

\* What Filter has taken of the first k elements, if f[k - 1] of those before.
OneMore(s, S, f, k) ==
    IF k = 0 THEN <<>>
    ELSE IF s[k] \in S THEN Append(f[k - 1], s[k]) ELSE f[k - 1]

\* f says what Filter takes of each of the first n elements.
Takes(s, S, n, f) == f = [k \in 0..n |-> OneMore(s, S, f, k)]

LEMMA TakesExists ==
    ASSUME NEW s, NEW S, NEW n \in Nat
    PROVE  \E f : Takes(s, S, n, f)
  <1> DEFINE T == {m \in Nat : ~ \E f : Takes(s, S, m, f)}
  <1>1. SUFFICES T = {}
    OBVIOUS
  <1>2. SUFFICES ASSUME T # {}
                 PROVE  FALSE
    OBVIOUS
  <1>3. T \in SUBSET Nat
    OBVIOUS
  <1>4. PICK m \in T : \A k \in T : m <= k
    BY <1>2, <1>3, LeastNumber
  <1>5. CASE m = 0
    <2> DEFINE g == [k \in 0..0 |-> <<>>]
    <2>1. Takes(s, S, 0, g)
      BY DEF Takes, OneMore
    <2> QED
      BY <1>5, <2>1
  <1>6. CASE m # 0
    <2>1. m - 1 \in Nat /\ m - 1 \notin T
      BY <1>4, <1>6
    <2>2. PICK f : Takes(s, S, m - 1, f)
      BY <2>1
    <2> DEFINE g == [k \in 0..m |-> IF k = m THEN OneMore(s, S, f, m) ELSE f[k]]
    <2>3. \A k \in 0..m : g[k] = OneMore(s, S, g, k)
      <3> SUFFICES ASSUME NEW k \in 0..m
                   PROVE  g[k] = OneMore(s, S, g, k)
        OBVIOUS
      <3>1. \A j \in 0..(m - 1) : f[j] = OneMore(s, S, f, j)
        BY <2>2 DEF Takes
      <3>2. \A j \in 0..(m - 1) : g[j] = f[j]
        BY <2>1
      <3>3. g[k] = OneMore(s, S, f, k)
        BY <3>1
      <3>4. CASE k = 0
        BY <3>3, <3>4 DEF OneMore
      <3>5. CASE k # 0
        <4>1. g[k - 1] = f[k - 1]
          BY <3>2, <3>5
        <4> HIDE DEF g
        <4> QED
          BY <3>3, <3>5, <4>1 DEF OneMore
      <3> QED
        BY <3>4, <3>5
    <2>4. Takes(s, S, m, g)
      BY <2>3 DEF Takes
    <2> QED
      BY <2>4
  <1> QED
    BY <1>5, <1>6

LEMMA FilterIs ==
    ASSUME NEW s, Len(s) \in Nat, NEW S
    PROVE  \E f : /\ Filter(s, S) = f[Len(s)]
                  /\ \A k \in 0..Len(s) : f[k] = OneMore(s, S, f, k)
  <1> DEFINE Told(f) == [n \in 0..Len(s) |->
                 IF n = 0 THEN <<>>
                 ELSE IF s[n] \in S THEN Append(f[n - 1], s[n]) ELSE f[n - 1]]
             taken == CHOOSE f : f = Told(f)
  <1>1. Filter(s, S) = taken[Len(s)]
    BY DEF Filter
  <1>2. \A f : f = Told(f) <=> Takes(s, S, Len(s), f)
    BY DEF Takes, OneMore
  <1>3. \E f : Takes(s, S, Len(s), f)
    BY TakesExists
  <1>4. taken = Told(taken)
    <2> HIDE DEF Told
    <2> QED
      BY <1>2, <1>3, Zenon
  <1> HIDE DEF taken
  <1>5. \A k \in 0..Len(s) : taken[k] = OneMore(s, S, taken, k)
    BY <1>4 DEF OneMore
  <1> QED
    BY <1>1, <1>5, Zenon

LEMMA FilterSeq ==
    ASSUME NEW E, NEW s \in Seq(E), NEW S
    PROVE  Filter(s, S) \in Seq(E)
  <1>1. PICK f : /\ Filter(s, S) = f[Len(s)]
                 /\ \A k \in 0..Len(s) : f[k] = OneMore(s, S, f, k)
    BY FilterIs
  <1> DEFINE n == Len(s)
             T == {k \in Nat : k <= n /\ f[k] \notin Seq(E)}
  <1>2. n \in Nat /\ \A k \in 1..n : s[k] \in E
    OBVIOUS
  <1>3. SUFFICES ASSUME T # {} PROVE FALSE
    BY <1>1, <1>2
  <1>4. PICK m \in T : \A k \in T : m <= k
    <2>1. T \in SUBSET Nat
      OBVIOUS
    <2> QED
      BY <1>3, <2>1, LeastNumber
  <1>5. f[m] = OneMore(s, S, f, m)
    BY <1>1, <1>4
  <1>6. CASE m = 0
    <2>1. f[m] = <<>>
      BY <1>5, <1>6 DEF OneMore
    <2> QED
      BY <1>4, <2>1, EmptySeq
  <1>7. CASE m # 0
    <2>1. f[m - 1] \in Seq(E)
      BY <1>4, <1>7
    <2>2. s[m] \in E
      BY <1>2, <1>4, <1>7
    <2>3. Append(f[m - 1], s[m]) \in Seq(E)
      BY <2>1, <2>2
    <2>4. f[m] = Append(f[m - 1], s[m]) \/ f[m] = f[m - 1]
      BY <1>5, <1>7 DEF OneMore
    <2> QED
      BY <1>4, <2>1, <2>3, <2>4
  <1> QED
    BY <1>6, <1>7

\* If the elements in S stand together, Filter takes that stretch.
LEMMA FilterStretch ==
    ASSUME NEW E, NEW s \in Seq(E), NEW S, NEW a \in Nat, NEW b \in Nat, a <= b, b <= Len(s),
           \A k \in 1..Len(s) : s[k] \in S <=> a < k /\ k <= b
    PROVE  Filter(s, S) = SubSeq(s, a + 1, b)
  <1>1. PICK f : /\ Filter(s, S) = f[Len(s)]
                 /\ \A k \in 0..Len(s) : f[k] = OneMore(s, S, f, k)
    BY FilterIs
  <1> DEFINE n == Len(s)
             Upto(k) == IF k <= b THEN k ELSE b
             T == {k \in Nat : k <= n /\ f[k] # SubSeq(s, a + 1, Upto(k))}
  <1>2. n \in Nat /\ \A k \in 1..n : s[k] \in E
    OBVIOUS
  <1>3. SUFFICES ASSUME T # {} PROVE FALSE
    <2>1. n \notin T => f[n] = SubSeq(s, a + 1, Upto(n))
      BY <1>2
    <2>2. Upto(n) = b
      BY <1>2
    <2> QED
      BY <1>1, <2>1, <2>2
  <1>4. PICK m \in T : \A k \in T : m <= k
    <2>1. T \in SUBSET Nat
      OBVIOUS
    <2> QED
      BY <1>3, <2>1, LeastNumber
  <1>5. f[m] = OneMore(s, S, f, m) /\ m \in Nat /\ m <= n /\ f[m] # SubSeq(s, a + 1, Upto(m))
    BY <1>1, <1>4
  <1>6. CASE m = 0
    <2>1. f[m] = <<>> /\ Upto(m) = 0
      BY <1>5, <1>6 DEF OneMore
    <2>2. SubSeq(s, a + 1, 0) = <<>>
      BY SubSeqEmpty
    <2> QED
      BY <1>5, <2>1, <2>2
  <1>7. CASE m # 0
    <2>1. m - 1 \in Nat /\ m - 1 \notin T /\ m - 1 <= n
      BY <1>4, <1>5, <1>7, <1>2
    <2>2. f[m - 1] = SubSeq(s, a + 1, Upto(m - 1))
      BY <2>1
    <2>3. f[m] = IF s[m] \in S THEN Append(f[m - 1], s[m]) ELSE f[m - 1]
      BY <1>5, <1>7 DEF OneMore
    <2>4. s[m] \in S <=> a < m /\ m <= b
      BY <1>2, <1>5, <1>7
    <2>5. CASE m <= a
      <3>1. Upto(m) = m /\ Upto(m - 1) = m - 1 /\ s[m] \notin S
        BY <1>5, <2>4, <2>5
      <3>2. SubSeq(s, a + 1, m) = <<>> /\ SubSeq(s, a + 1, m - 1) = <<>>
        BY <1>5, <2>5, SubSeqEmpty
      <3> QED
        BY <1>5, <2>2, <2>3, <3>1, <3>2
    <2>6. CASE b < m
      <3>1. Upto(m) = b /\ Upto(m - 1) = b /\ s[m] \notin S
        BY <1>5, <2>4, <2>6
      <3> QED
        BY <1>5, <2>2, <2>3, <3>1
    <2>7. CASE a < m /\ m <= b
      <3>1. Upto(m) = m /\ Upto(m - 1) = m - 1 /\ s[m] \in S
        BY <1>5, <2>4, <2>7
      <3>2. f[m] = Append(SubSeq(s, a + 1, m - 1), s[m])
        BY <2>2, <2>3, <3>1
      <3>3. a + 1 \in 1..Len(s) /\ m \in (a + 1)..Len(s)
        BY <1>5, <2>7
      <3>4. SubSeq(s, a + 1, m) = SubSeq(s, a + 1, m - 1) \o <<s[m]>>
        BY <3>3, SubSeqRecursiveSecond
      <3>5. SubSeq(s, a + 1, m - 1) \in Seq(E)
        <4>1. \A i \in (a + 1)..(m - 1) : s[i] \in E
          BY <1>2, <3>3
        <4>2. a + 1 \in Int /\ m - 1 \in Int
          BY <1>5
        <4> HIDE DEF n, Upto, T
        <4> QED
          BY <4>1, <4>2, SubSeqProperties
      <3>6. s[m] \in E
        BY <1>2, <3>3
      <3>7. Append(SubSeq(s, a + 1, m - 1), s[m]) = SubSeq(s, a + 1, m - 1) \o <<s[m]>>
        BY <3>5, <3>6, AppendIsConcat
      <3> QED
        BY <1>5, <3>1, <3>2, <3>4, <3>7
    <2> QED
      BY <1>5, <2>5, <2>6, <2>7
  <1> QED
    BY <1>6, <1>7

-----------------------------------------------------------------------------
(* Histories: what AddMessage and a cut do to calls and their results.     *)

Message == [kind : Kinds, calls : Seq(Calls)]

\* Call c has a result behind message i.
HasResult(h, i, c) ==
    \E j \in DOMAIN h : i < j /\ h[j].kind = "result" /\ h[j].calls[1] = c

\* Message m is the last one with calls.
LastCalls(h, m) ==
    /\ m \in DOMAIN h /\ h[m].kind = "calls"
    /\ \A j \in DOMAIN h : m < j => h[j].kind # "calls"

\* Of the calls of message m the first n have results.
DoneUpTo(h, m, n) ==
    \A k \in DOMAIN h[m].calls : HasResult(h, m, h[m].calls[k]) <=> k <= n

\* Calls and results carry calls made so far, in their order; nothing else does.
Shapes(h, u) ==
    \A i \in DOMAIN h :
        /\ h[i].kind = "result" => Len(h[i].calls) = 1
        /\ h[i].kind \notin {"calls", "result"} => h[i].calls = <<>>
        /\ \A k \in DOMAIN h[i].calls : h[i].calls[k] <= u
        /\ \A k, l \in DOMAIN h[i].calls : k < l => h[i].calls[k] < h[i].calls[l]

\* The ids of a message with calls are greater than all ids before it.
Later(h) ==
    \A i, j \in DOMAIN h :
        i < j /\ h[j].kind = "calls" =>
            \A k \in DOMAIN h[i].calls, l \in DOMAIN h[j].calls : h[i].calls[k] < h[j].calls[l]

\* A result belongs to the nearest message with calls before it, if there is one.
Nearest(h) ==
    \A i, j \in DOMAIN h :
        j < i /\ h[i].kind = "result" /\ h[j].kind = "calls" =>
            \/ \E k \in DOMAIN h : j < k /\ k < i /\ h[k].kind = "calls"
            \/ \E k \in DOMAIN h[j].calls : h[i].calls[1] = h[j].calls[k]

InOrder(h) ==
    \A i \in DOMAIN h :
        h[i].kind = "calls" => \E n \in 0..Len(h[i].calls) : DoneUpTo(h, i, n)

Once(h) ==
    \A i, j \in DOMAIN h :
        h[i].kind = "result" /\ h[j].kind = "result" /\ h[i].calls[1] = h[j].calls[1] => i = j

SummariesFirst(h) ==
    \A i, j \in DOMAIN h : i < j /\ h[j].kind = "summary" => h[i].kind = "summary"

HistOK(h, u) ==
    /\ h \in Seq(Message)
    /\ Shapes(h, u) /\ Later(h) /\ Nearest(h) /\ InOrder(h) /\ Once(h) /\ SummariesFirst(h)

\* Every call c of the session has its result.
Closed(h, c) ==
    \A i \in DOMAIN h : h[i].kind = "calls" =>
        \A k \in DOMAIN h[i].calls : h[i].calls[k] = c => HasResult(h, i, c)

LEMMA HistEmpty == ASSUME NEW u PROVE HistOK(<<>>, u) /\ \A c : Closed(<<>>, c)
  <1>1. DOMAIN <<>> = {} /\ <<>> \in Seq(Message)
    BY EmptySeq
  <1> QED
    BY <1>1 DEF HistOK, Shapes, Later, Nearest, InOrder, Once, SummariesFirst, Closed

\* g is h with message m behind it.
Extends(g, h, m) ==
    /\ h \in Seq(Message) /\ g \in Seq(Message) /\ m \in Message
    /\ Len(h) \in Nat /\ DOMAIN h = 1..Len(h) /\ DOMAIN g = 1..(Len(h) + 1)
    /\ g[Len(h) + 1] = m
    /\ \A i \in DOMAIN h : i \in DOMAIN g /\ g[i] = h[i] /\ i \in Nat /\ i <= Len(h)
    /\ \A i \in DOMAIN g : i \in DOMAIN h \/ i = Len(h) + 1

LEMMA AppendExtends ==
    ASSUME NEW h \in Seq(Message), NEW m \in Message
    PROVE  Extends(Append(h, m), h, m)
  <1> DEFINE g == Append(h, m)
  <1>1. g \in Seq(Message) /\ Len(g) = Len(h) + 1 /\ g[Len(h) + 1] = m
        /\ \A i \in 1..Len(h) : g[i] = h[i]
    BY AppendProperties
  <1>2. Len(h) \in Nat /\ DOMAIN h = 1..Len(h) /\ DOMAIN g = 1..Len(g)
    BY <1>1, LenProperties
  <1> HIDE DEF g
  <1>3. \A i \in DOMAIN h : i \in DOMAIN g /\ g[i] = h[i] /\ i \in Nat /\ i <= Len(h)
    BY <1>1, <1>2
  <1>4. \A i \in DOMAIN g : i \in DOMAIN h \/ i = Len(h) + 1
    BY <1>1, <1>2
  <1>5. DOMAIN g = 1..(Len(h) + 1)
    BY <1>1, <1>2
  <1>6. Extends(g, h, m)
    BY <1>1, <1>2, <1>3, <1>4, <1>5 DEF Extends
  <1> QED
    BY <1>6 DEF g

\* A message that is no result gives none; a result gives its own.
LEMMA ResultsExtended ==
    ASSUME NEW g, NEW h, NEW m, Extends(g, h, m), NEW i \in DOMAIN h, NEW c
    PROVE  HasResult(g, i, c) <=>
               HasResult(h, i, c) \/ (m.kind = "result" /\ m.calls[1] = c)
  <1> DEFINE n == Len(h)
  <1>1. /\ n \in Nat /\ i \in Nat /\ i < n + 1 /\ n + 1 \in DOMAIN g /\ g[n + 1] = m
        /\ \A j \in DOMAIN h : j \in DOMAIN g /\ g[j] = h[j]
        /\ \A j \in DOMAIN g : j \in DOMAIN h \/ j = n + 1
    BY DEF Extends
  <1> HIDE DEF n
  <1>2. ASSUME HasResult(g, i, c)
        PROVE  HasResult(h, i, c) \/ (m.kind = "result" /\ m.calls[1] = c)
    <2>1. PICK j \in DOMAIN g : i < j /\ g[j].kind = "result" /\ g[j].calls[1] = c
      BY <1>2 DEF HasResult
    <2> QED
      BY <1>1, <2>1 DEF HasResult
  <1>3. ASSUME HasResult(h, i, c) PROVE HasResult(g, i, c)
    <2>1. PICK j \in DOMAIN h : i < j /\ h[j].kind = "result" /\ h[j].calls[1] = c
      BY <1>3 DEF HasResult
    <2> QED
      BY <1>1, <2>1 DEF HasResult
  <1>4. ASSUME m.kind = "result" /\ m.calls[1] = c PROVE HasResult(g, i, c)
    BY <1>1, <1>4 DEF HasResult
  <1> QED
    BY <1>2, <1>3, <1>4

\* Ids are numbers.
LEMMA IdsAreNumbers ==
    ASSUME NEW h \in Seq(Message), NEW i \in DOMAIN h
    PROVE  /\ h[i].calls \in Seq(Calls) /\ h[i].kind \in Kinds
           /\ Len(h[i].calls) \in Nat /\ DOMAIN h[i].calls = 1..Len(h[i].calls)
           /\ \A k \in DOMAIN h[i].calls : h[i].calls[k] \in Calls
  <1>1. h[i] \in Message
    <2>1. i \in 1..Len(h)
      BY LenProperties
    <2> QED
      BY <2>1, ElementOfSeq
  <1>2. h[i].calls \in Seq(Calls) /\ h[i].kind \in Kinds
    BY <1>1 DEF Message
  <1>3. Len(h[i].calls) \in Nat /\ DOMAIN h[i].calls = 1..Len(h[i].calls)
    BY <1>2, LenProperties
  <1>4. \A k \in 1..Len(h[i].calls) : h[i].calls[k] \in Calls
    BY <1>2, ElementOfSeq
  <1> QED
    BY <1>2, <1>3, <1>4

\* The parts of HistOK that only look at where messages stand.
LEMMA PlacesExtended ==
    ASSUME NEW g, NEW h, NEW m, NEW u, NEW v, Extends(g, h, m), u \in Nat, v \in Nat, u <= v,
           HistOK(h, u), m.kind # "summary",
           m.kind = "result" => Len(m.calls) = 1,
           m.kind \notin {"calls", "result"} => m.calls = <<>>,
           \A k \in DOMAIN m.calls : m.calls[k] <= v,
           \A k, l \in DOMAIN m.calls : k < l => m.calls[k] < m.calls[l]
    PROVE  Shapes(g, v) /\ SummariesFirst(g)
  <1> DEFINE n == Len(h)
  <1>1. /\ n \in Nat /\ n + 1 \in DOMAIN g /\ g[n + 1] = m
        /\ \A j \in DOMAIN h : j \in DOMAIN g /\ g[j] = h[j] /\ j \in Nat /\ j <= n
        /\ \A j \in DOMAIN g : j \in DOMAIN h \/ j = n + 1
    BY DEF Extends
  <1> HIDE DEF n
  <1>2. h \in Seq(Message) /\ Shapes(h, u) /\ SummariesFirst(h)
    BY DEF HistOK
  <1>3. SummariesFirst(g)
    BY <1>1, <1>2 DEF SummariesFirst
  <1>4. ASSUME NEW i \in DOMAIN g
        PROVE  /\ g[i].kind = "result" => Len(g[i].calls) = 1
               /\ g[i].kind \notin {"calls", "result"} => g[i].calls = <<>>
               /\ \A k \in DOMAIN g[i].calls : g[i].calls[k] <= v
               /\ \A k, l \in DOMAIN g[i].calls : k < l => g[i].calls[k] < g[i].calls[l]
    <2>1. CASE i = n + 1
      BY <1>1, <2>1
    <2>2. CASE i \in DOMAIN h
      <3>1. g[i] = h[i]
        BY <1>1, <2>2
      <3>2. \A k \in DOMAIN h[i].calls : h[i].calls[k] \in Nat /\ h[i].calls[k] <= u
        BY <1>2, <2>2, IdsAreNumbers DEF Shapes, Calls
      <3>3. \A k \in DOMAIN h[i].calls : h[i].calls[k] <= v
        BY <3>2
      <3> QED
        BY <1>2, <2>2, <3>1, <3>3 DEF Shapes
    <2> QED
      BY <1>1, <2>1, <2>2
  <1> QED
    BY <1>3, <1>4 DEF Shapes

\* A user's message or a text.
LEMMA PlainAppended ==
    ASSUME NEW g, NEW h, NEW m, NEW u \in Nat, Extends(g, h, m), HistOK(h, u),
           m.kind \in {"user", "text"}, m.calls = <<>>
    PROVE  HistOK(g, u) /\ \A c : Closed(h, c) => Closed(g, c)
  <1> DEFINE n == Len(h)
  <1>1. /\ n \in Nat /\ n + 1 \in DOMAIN g /\ g[n + 1] = m
        /\ \A j \in DOMAIN h : j \in DOMAIN g /\ g[j] = h[j] /\ j \in Nat /\ j <= n
        /\ \A j \in DOMAIN g : j \in DOMAIN h \/ j = n + 1
        /\ g \in Seq(Message)
    BY DEF Extends
  <1> HIDE DEF n
  <1>2. /\ Later(h) /\ Nearest(h) /\ InOrder(h) /\ Once(h)
    BY DEF HistOK
  <1>3. m.kind \notin {"calls", "result", "summary"} /\ DOMAIN m.calls = {}
    BY EmptySeq
  <1>4. Shapes(g, u) /\ SummariesFirst(g)
    <2>1. u <= u /\ m.kind # "summary" /\ m.kind # "result"
      BY <1>3
    <2>2. /\ \A k \in DOMAIN m.calls : m.calls[k] <= u
          /\ \A k, l \in DOMAIN m.calls : k < l => m.calls[k] < m.calls[l]
      BY <1>3
    <2> QED
      BY <2>1, <2>2, PlacesExtended
  <1>5. \A i \in DOMAIN h : \A c : HasResult(g, i, c) <=> HasResult(h, i, c)
    BY <1>3, ResultsExtended
  <1>6. Later(g)
    BY <1>1, <1>2, <1>3 DEF Later
  <1>7. Nearest(g)
    <2> SUFFICES ASSUME NEW i \in DOMAIN g, NEW j \in DOMAIN g, j < i, g[i].kind = "result",
                        g[j].kind = "calls",
                        ~ \E k \in DOMAIN g : j < k /\ k < i /\ g[k].kind = "calls"
                 PROVE  \E k \in DOMAIN g[j].calls : g[i].calls[1] = g[j].calls[k]
      BY DEF Nearest
    <2>1. i \in DOMAIN h /\ j \in DOMAIN h /\ g[i] = h[i] /\ g[j] = h[j]
      BY <1>1, <1>3
    <2>2. ~ \E k \in DOMAIN h : j < k /\ k < i /\ h[k].kind = "calls"
      BY <1>1
    <2> QED
      BY <1>2, <2>1, <2>2 DEF Nearest
  <1>8. InOrder(g)
    <2> SUFFICES ASSUME NEW i \in DOMAIN g, g[i].kind = "calls"
                 PROVE  \E l \in 0..Len(g[i].calls) : DoneUpTo(g, i, l)
      BY DEF InOrder
    <2>1. i \in DOMAIN h /\ g[i] = h[i]
      BY <1>1, <1>3
    <2>2. PICK l \in 0..Len(h[i].calls) : DoneUpTo(h, i, l)
      BY <1>2, <2>1 DEF InOrder
    <2>3. DoneUpTo(g, i, l)
      BY <1>5, <2>1, <2>2 DEF DoneUpTo
    <2> QED
      BY <2>1, <2>3
  <1>9. Once(g)
    BY <1>1, <1>2, <1>3 DEF Once
  <1>10. ASSUME NEW c, Closed(h, c) PROVE Closed(g, c)
    <2> SUFFICES ASSUME NEW i \in DOMAIN g, g[i].kind = "calls",
                        NEW k \in DOMAIN g[i].calls, g[i].calls[k] = c
                 PROVE  HasResult(g, i, c)
      BY DEF Closed
    <2>1. i \in DOMAIN h /\ g[i] = h[i]
      BY <1>1, <1>3
    <2>2. HasResult(h, i, c)
      BY <1>10, <2>1 DEF Closed
    <2> QED
      BY <1>5, <2>1, <2>2
  <1> QED
    BY <1>1, <1>4, <1>6, <1>7, <1>8, <1>9, <1>10 DEF HistOK

\* A message with calls: its ids are new, so none of them has a result.
LEMMA CallsAppended ==
    ASSUME NEW g, NEW h, NEW m, NEW u \in Nat, NEW v \in Nat, u <= v,
           Extends(g, h, m), HistOK(h, u), m.kind = "calls",
           \A k \in DOMAIN m.calls : u < m.calls[k] /\ m.calls[k] <= v,
           \A k, l \in DOMAIN m.calls : k < l => m.calls[k] < m.calls[l]
    PROVE  /\ HistOK(g, v)
           /\ LastCalls(g, Len(h) + 1) /\ DoneUpTo(g, Len(h) + 1, 0)
           /\ \A c : Closed(h, c) /\ c \in Calls /\ c <= u => Closed(g, c)
  <1> DEFINE n == Len(h)
  <1>1. /\ n \in Nat /\ n + 1 \in DOMAIN g /\ g[n + 1] = m
        /\ \A j \in DOMAIN h : j \in DOMAIN g /\ g[j] = h[j] /\ j \in Nat /\ j <= n
        /\ \A j \in DOMAIN g : j \in DOMAIN h \/ j = n + 1
        /\ g \in Seq(Message) /\ h \in Seq(Message)
    BY DEF Extends
  <1>2. /\ Later(h) /\ Nearest(h) /\ InOrder(h) /\ Once(h) /\ Shapes(h, u)
    BY DEF HistOK
  <1>3. g[n + 1].calls = m.calls /\ g[n + 1].kind = "calls"
    BY <1>1
  <1> HIDE DEF n
  <1>4. /\ \A k \in DOMAIN m.calls : m.calls[k] \in Calls /\ k \in Nat /\ 1 <= k
    BY <1>1, <1>3, IdsAreNumbers
  <1>5. Shapes(g, v) /\ SummariesFirst(g)
    BY PlacesExtended
  <1>6. \A i \in DOMAIN h : \A c : HasResult(g, i, c) <=> HasResult(h, i, c)
    BY ResultsExtended
  <1>7. ASSUME NEW i \in DOMAIN h, NEW k \in DOMAIN h[i].calls, NEW l \in DOMAIN m.calls
        PROVE  h[i].calls[k] < m.calls[l]
    <2>1. h \in Seq(Message)
      BY <1>1
    <2>2. h[i].calls[k] \in Calls
      BY <2>1, IdsAreNumbers, Zenon
    <2>3. h[i].calls[k] <= u
      BY <1>2 DEF Shapes
    <2>4. m.calls[l] \in Calls /\ u < m.calls[l]
      BY <1>4
    <2> QED
      BY <2>2, <2>3, <2>4 DEF Calls
  <1>8. Later(g)
    <2> SUFFICES ASSUME NEW i \in DOMAIN g, NEW j \in DOMAIN g, i < j, g[j].kind = "calls",
                        NEW k \in DOMAIN g[i].calls, NEW l \in DOMAIN g[j].calls
                 PROVE  g[i].calls[k] < g[j].calls[l]
      BY DEF Later
    <2>1. i \in DOMAIN h /\ g[i] = h[i]
      BY <1>1
    <2>2. CASE j \in DOMAIN h
      BY <1>1, <1>2, <2>1, <2>2 DEF Later
    <2>3. CASE j = n + 1
      BY <1>1, <1>7, <2>1, <2>3
    <2> QED
      BY <1>1, <2>2, <2>3
  <1>9. Nearest(g)
    <2> SUFFICES ASSUME NEW i \in DOMAIN g, NEW j \in DOMAIN g, j < i, g[i].kind = "result",
                        g[j].kind = "calls",
                        ~ \E k \in DOMAIN g : j < k /\ k < i /\ g[k].kind = "calls"
                 PROVE  \E k \in DOMAIN g[j].calls : g[i].calls[1] = g[j].calls[k]
      BY DEF Nearest
    <2>1. i \in DOMAIN h /\ g[i] = h[i]
      BY <1>1
    <2>2. j \in DOMAIN h /\ g[j] = h[j]
      BY <1>1, <2>1
    <2>3. ~ \E k \in DOMAIN h : j < k /\ k < i /\ h[k].kind = "calls"
      BY <1>1
    <2> QED
      BY <1>2, <2>1, <2>2, <2>3 DEF Nearest
  <1>10. \A k \in DOMAIN m.calls : ~ HasResult(g, n + 1, m.calls[k])
    BY <1>1 DEF HasResult
  <1>11. DoneUpTo(g, n + 1, 0)
    <2>1. \A k \in DOMAIN m.calls : ~(k <= 0)
      BY <1>4
    <2> QED
      BY <1>3, <1>10, <2>1 DEF DoneUpTo
  <1>12. InOrder(g)
    <2> SUFFICES ASSUME NEW i \in DOMAIN g, g[i].kind = "calls"
                 PROVE  \E l \in 0..Len(g[i].calls) : DoneUpTo(g, i, l)
      BY DEF InOrder
    <2>1. CASE i = n + 1
      <3>1. 0 \in 0..Len(g[i].calls)
        BY <1>1, IdsAreNumbers
      <3> QED
        BY <1>11, <2>1, <3>1
    <2>2. CASE i \in DOMAIN h
      <3>1. g[i] = h[i]
        BY <1>1, <2>2
      <3>2. PICK l \in 0..Len(h[i].calls) : DoneUpTo(h, i, l)
        BY <1>2, <2>2, <3>1 DEF InOrder
      <3>3. DoneUpTo(g, i, l)
        BY <1>6, <2>2, <3>1, <3>2 DEF DoneUpTo
      <3> QED
        BY <3>1, <3>3
    <2> QED
      BY <1>1, <2>1, <2>2
  <1>13. Once(g)
    BY <1>1, <1>2 DEF Once
  <1>14. LastCalls(g, n + 1)
    BY <1>1 DEF LastCalls
  <1>15. ASSUME NEW c, Closed(h, c), c \in Calls, c <= u PROVE Closed(g, c)
    <2> SUFFICES ASSUME NEW i \in DOMAIN g, g[i].kind = "calls",
                        NEW k \in DOMAIN g[i].calls, g[i].calls[k] = c
                 PROVE  HasResult(g, i, c)
      BY DEF Closed
    <2>1. i \in DOMAIN h
      <3>1. CASE i = n + 1
        <4>1. u < c /\ c \in Nat
          BY <1>3, <1>15, <3>1 DEF Calls
        <4> QED
          BY <1>15, <4>1
      <3> QED
        BY <1>1, <3>1
    <2>2. g[i] = h[i]
      BY <1>1, <2>1
    <2>3. HasResult(h, i, c)
      BY <1>15, <2>1, <2>2 DEF Closed
    <2> QED
      BY <1>6, <2>1, <2>3
  <1>16. HistOK(g, v)
    BY <1>1, <1>5, <1>8, <1>9, <1>12, <1>13 DEF HistOK
  <1> QED
    BY <1>11, <1>14, <1>15, <1>16 DEF n

\* The result of the first call of the last message with calls that has none.
LEMMA ResultAppended ==
    ASSUME NEW g, NEW h, NEW m, NEW u \in Nat, NEW p, NEW q \in Nat,
           Extends(g, h, m), HistOK(h, u), LastCalls(h, p), DoneUpTo(h, p, q),
           q < Len(h[p].calls), m.kind = "result", m.calls = <<h[p].calls[q + 1]>>
    PROVE  /\ HistOK(g, u)
           /\ LastCalls(g, p) /\ g[p] = h[p] /\ DoneUpTo(g, p, q + 1)
           /\ \A c : Closed(h, c) => Closed(g, c)
           /\ Closed(g, h[p].calls[q + 1])
  <1> DEFINE n == Len(h)
             d == h[p].calls[q + 1]
  <1>1. /\ n \in Nat /\ n + 1 \in DOMAIN g /\ g[n + 1] = m
        /\ \A j \in DOMAIN h : j \in DOMAIN g /\ g[j] = h[j] /\ j \in Nat /\ j <= n
        /\ \A j \in DOMAIN g : j \in DOMAIN h \/ j = n + 1
        /\ g \in Seq(Message) /\ h \in Seq(Message)
    BY DEF Extends
  <1> HIDE DEF n
  <1>2. /\ Later(h) /\ Nearest(h) /\ InOrder(h) /\ Once(h) /\ Shapes(h, u)
    BY DEF HistOK
  <1>3. p \in DOMAIN h /\ h[p].kind = "calls" /\ \A j \in DOMAIN h : p < j => h[j].kind # "calls"
    BY DEF LastCalls
  <1>4. /\ q + 1 \in DOMAIN h[p].calls /\ DOMAIN h[p].calls = 1..Len(h[p].calls)
        /\ Len(h[p].calls) \in Nat
        /\ \A k \in DOMAIN h[p].calls : h[p].calls[k] \in Calls
    BY <1>1, <1>3, IdsAreNumbers
  <1>5. d \in Calls /\ d <= u
    BY <1>2, <1>3, <1>4 DEF Shapes
  <1>6. m.calls[1] = d /\ Len(m.calls) = 1 /\ DOMAIN m.calls = {1}
    OBVIOUS
  <1>7. Shapes(g, u) /\ SummariesFirst(g)
    <2>1. \A k \in DOMAIN m.calls : m.calls[k] <= u
      BY <1>5, <1>6
    <2>2. \A k, l \in DOMAIN m.calls : k < l => m.calls[k] < m.calls[l]
      BY <1>6
    <2>3. u <= u /\ m.kind # "summary" /\ m.kind \in {"calls", "result"}
      OBVIOUS
    <2> QED
      BY <1>6, <2>1, <2>2, <2>3, PlacesExtended
  <1>8. \A i \in DOMAIN h : \A c : HasResult(g, i, c) <=> HasResult(h, i, c) \/ d = c
    BY <1>6, ResultsExtended
  <1>9. ASSUME NEW k \in DOMAIN h[p].calls, NEW l \in DOMAIN h[p].calls,
               h[p].calls[k] = h[p].calls[l]
        PROVE  k = l
    <2>1. ~(k < l) /\ ~(l < k)
      <3>1. h[p].calls[k] \in Nat /\ h[p].calls[l] \in Nat
        BY <1>4, SMTT(30) DEF Calls
      <3>2. \A i, j \in DOMAIN h[p].calls : i < j => h[p].calls[i] < h[p].calls[j]
        BY <1>2, <1>3 DEF Shapes
      <3> QED
        BY <1>9, <3>1, <3>2
    <2> QED
      BY <1>4, <2>1
  \* No other message has call d.
  <1>10. ASSUME NEW i \in DOMAIN h, i # p, h[i].kind = "calls", NEW k \in DOMAIN h[i].calls
         PROVE  h[i].calls[k] # d
    <2>1. i < p
      BY <1>1, <1>3, <1>10
    <2>2. h[i].calls[k] < d
      BY <1>2, <1>3, <1>4, <2>1 DEF Later
    <2>3. h[i].calls[k] \in Calls
      BY <1>1, IdsAreNumbers
    <2>4. h[i].calls[k] \in Nat /\ d \in Nat
      <3> HIDE DEF d
      <3> QED
        BY <1>5, <2>3 DEF Calls
    <2> QED
      BY <2>2, <2>4
  <1> HIDE DEF d
  <1>11. Later(g)
    <2> SUFFICES ASSUME NEW i \in DOMAIN g, NEW j \in DOMAIN g, i < j, g[j].kind = "calls",
                        NEW k \in DOMAIN g[i].calls, NEW l \in DOMAIN g[j].calls
                 PROVE  g[i].calls[k] < g[j].calls[l]
      BY DEF Later
    <2>1. j \in DOMAIN h /\ g[j] = h[j]
      BY <1>1
    <2>2. i \in DOMAIN h /\ g[i] = h[i]
      BY <1>1, <2>1
    <2> QED
      BY <1>2, <2>1, <2>2 DEF Later
  <1>12. Nearest(g)
    <2> SUFFICES ASSUME NEW i \in DOMAIN g, NEW j \in DOMAIN g, j < i, g[i].kind = "result",
                        g[j].kind = "calls",
                        ~ \E k \in DOMAIN g : j < k /\ k < i /\ g[k].kind = "calls"
                 PROVE  \E k \in DOMAIN g[j].calls : g[i].calls[1] = g[j].calls[k]
      BY DEF Nearest
    <2>1. j \in DOMAIN h /\ g[j] = h[j]
      BY <1>1
    <2>2. CASE i \in DOMAIN h
      <3>1. g[i] = h[i]
        BY <1>1, <2>2
      <3>2. ~ \E k \in DOMAIN h : j < k /\ k < i /\ h[k].kind = "calls"
        BY <1>1
      <3> QED
        BY <1>2, <2>1, <2>2, <3>1, <3>2 DEF Nearest
    <2>3. CASE i = n + 1
      <3>1. p \in DOMAIN g /\ g[p].kind = "calls" /\ p < i
        BY <1>1, <1>3, <2>3
      <3>2. ~(j < p)
        BY <3>1
      <3>3. j = p
        BY <1>1, <1>3, <2>1, <3>2
      <3>4. g[i].calls[1] = g[p].calls[q + 1] /\ q + 1 \in DOMAIN g[p].calls
        BY <1>1, <1>3, <1>4, <1>6, <2>3 DEF d
      <3> QED
        BY <3>3, <3>4
    <2> QED
      BY <1>1, <2>2, <2>3
  <1>13. DoneUpTo(g, p, q + 1)
    <2> SUFFICES ASSUME NEW k \in DOMAIN h[p].calls
                 PROVE  HasResult(g, p, h[p].calls[k]) <=> k <= q + 1
      BY <1>1, <1>3 DEF DoneUpTo
    <2>1. HasResult(g, p, h[p].calls[k]) <=> HasResult(h, p, h[p].calls[k]) \/ d = h[p].calls[k]
      BY <1>3, <1>8
    <2>2. HasResult(h, p, h[p].calls[k]) <=> k <= q
      BY DEF DoneUpTo
    <2>3. d = h[p].calls[k] <=> k = q + 1
      BY <1>4, <1>9 DEF d
    <2>4. k \in Nat
      BY <1>4
    <2>5. k <= q + 1 <=> k <= q \/ k = q + 1
      BY <2>4
    <2> QED
      BY <2>1, <2>2, <2>3, <2>5
  <1>14. InOrder(g)
    <2> SUFFICES ASSUME NEW i \in DOMAIN g, g[i].kind = "calls"
                 PROVE  \E l \in 0..Len(g[i].calls) : DoneUpTo(g, i, l)
      BY DEF InOrder
    <2>1. i \in DOMAIN h /\ g[i] = h[i]
      BY <1>1
    <2>2. CASE i = p
      <3>1. q + 1 \in 0..Len(g[i].calls)
        BY <1>4, <2>1, <2>2
      <3> QED
        BY <1>13, <2>2, <3>1
    <2>3. CASE i # p
      <3>1. PICK l \in 0..Len(h[i].calls) : DoneUpTo(h, i, l)
        BY <1>2, <2>1 DEF InOrder
      <3>2. \A k \in DOMAIN h[i].calls : h[i].calls[k] # d
        BY <1>10, <2>1, <2>3
      <3>3. DoneUpTo(g, i, l)
        BY <1>8, <2>1, <3>1, <3>2 DEF DoneUpTo
      <3> QED
        BY <2>1, <3>1, <3>3
    <2> QED
      BY <2>2, <2>3
  \* No result before was d's.
  <1>15. ASSUME NEW i \in DOMAIN h, h[i].kind = "result" PROVE h[i].calls[1] # d
    <2>1. 1 \in DOMAIN h[i].calls /\ h[i].calls[1] \in Nat /\ d \in Nat
      <3>1. Len(h[i].calls) = 1
        BY <1>2, <1>15 DEF Shapes
      <3>2. DOMAIN h[i].calls = 1..Len(h[i].calls) /\ \A k \in DOMAIN h[i].calls : h[i].calls[k] \in Calls
        BY <1>1, IdsAreNumbers
      <3>3. 1 \in DOMAIN h[i].calls
        BY <3>1, <3>2
      <3> QED
        BY <1>5, <3>2, <3>3 DEF Calls
    <2>2. CASE i < p
      <3>1. h[i].calls[1] < d
        BY <1>2, <1>3, <1>4, <2>1, <2>2 DEF Later, d
      <3> QED
        BY <2>1, <3>1
    <2>3. CASE p < i
      <3>1. ~ HasResult(h, p, d)
        <4>1. HasResult(h, p, h[p].calls[q + 1]) <=> q + 1 <= q
          BY <1>4 DEF DoneUpTo
        <4> QED
          BY <4>1 DEF d
      <3> QED
        BY <1>15, <2>3, <3>1 DEF HasResult
    <2>4. i # p
      BY <1>3, <1>15
    <2> QED
      BY <1>1, <1>3, <2>2, <2>3, <2>4
  <1>16. Once(g)
    <2> SUFFICES ASSUME NEW i \in DOMAIN g, NEW j \in DOMAIN g, g[i].kind = "result",
                        g[j].kind = "result", g[i].calls[1] = g[j].calls[1]
                 PROVE  i = j
      BY DEF Once
    <2>1. CASE i \in DOMAIN h /\ j \in DOMAIN h
      BY <1>1, <1>2, <2>1 DEF Once
    <2>2. CASE i = n + 1 /\ j \in DOMAIN h
      BY <1>1, <1>6, <1>15, <2>2
    <2>3. CASE j = n + 1 /\ i \in DOMAIN h
      BY <1>1, <1>6, <1>15, <2>3
    <2> QED
      BY <1>1, <2>1, <2>2, <2>3
  <1>17. LastCalls(g, p) /\ g[p] = h[p]
    BY <1>1, <1>3 DEF LastCalls
  <1>18. ASSUME NEW c, Closed(h, c) \/ c = d PROVE Closed(g, c)
    <2> SUFFICES ASSUME NEW i \in DOMAIN g, g[i].kind = "calls",
                        NEW k \in DOMAIN g[i].calls, g[i].calls[k] = c
                 PROVE  HasResult(g, i, c)
      BY DEF Closed
    <2>1. i \in DOMAIN h /\ g[i] = h[i]
      BY <1>1
    <2>2. HasResult(h, i, c) \/ c = d
      BY <1>18, <2>1 DEF Closed
    <2> QED
      BY <1>8, <2>1, <2>2
  <1>19. HistOK(g, u)
    BY <1>1, <1>7, <1>11, <1>12, <1>14, <1>16 DEF HistOK
  <1> QED
    BY <1>13, <1>17, <1>18, <1>19 DEF d

\* g keeps all of h from message e + 1 on, behind q summaries.
CutOf(g, h, q, e) ==
    /\ h \in Seq(Message) /\ g \in Seq(Message)
    /\ q \in Nat /\ e \in Nat /\ e <= Len(h) /\ Len(g) = q + Len(h) - e
    /\ \A k \in 1..q : g[k] = Msg("summary", <<>>)
    /\ \A k \in (q + 1)..Len(g) : g[k] = h[k - q + e]

LEMMA CutKeeps ==
    ASSUME NEW g, NEW h, NEW q, NEW e, NEW u \in Nat, CutOf(g, h, q, e), HistOK(h, u)
    PROVE  HistOK(g, u) /\ \A c : Closed(h, c) => Closed(g, c)
  <1> DEFINE n == Len(h)
             l == Len(g)
  <1>1. /\ g \in Seq(Message) /\ h \in Seq(Message)
        /\ n \in Nat /\ l \in Nat /\ DOMAIN g = 1..l /\ DOMAIN h = 1..n
        /\ q \in Nat /\ e \in Nat /\ e <= n /\ l = q + n - e
        /\ \A k \in 1..q : g[k] = Msg("summary", <<>>)
        /\ \A k \in (q + 1)..l : g[k] = h[k - q + e]
    BY LenProperties DEF CutOf
  <1>2. Later(h) /\ Nearest(h) /\ InOrder(h) /\ Once(h) /\ Shapes(h, u) /\ SummariesFirst(h)
    BY DEF HistOK
  <1> HIDE DEF n, l
  <1> DEFINE Old(k) == k - q + e
  <1>3. \A k \in DOMAIN g : \/ k <= q /\ g[k].kind = "summary" /\ g[k].calls = <<>>
                            \/ q < k /\ Old(k) \in DOMAIN h /\ g[k] = h[Old(k)]
    BY <1>1 DEF Msg
  <1>4. \A j \in DOMAIN h : e < j => j - e + q \in DOMAIN g /\ Old(j - e + q) = j /\ q < j - e + q
    BY <1>1
  <1>5. \A j, k \in DOMAIN g : j < k <=> Old(j) < Old(k)
    BY <1>1
  <1>6. \A j, k \in DOMAIN g : Old(j) = Old(k) => j = k
    BY <1>1
  <1>7. \A k \in DOMAIN g : q < k => e < Old(k)
    BY <1>1
  <1>8. DOMAIN g \subseteq Nat /\ DOMAIN h \subseteq Nat
    BY <1>1
  <1> HIDE DEF Old
  <1>9. DOMAIN <<>> = {}
    BY EmptySeq
  <1>10. \A k \in DOMAIN g : g[k].kind # "summary" => q < k /\ Old(k) \in DOMAIN h /\ g[k] = h[Old(k)]
    BY <1>3
  <1>11. ASSUME NEW i \in DOMAIN g, q < i, NEW c
         PROVE  HasResult(g, i, c) <=> HasResult(h, Old(i), c)
    <2>1. ASSUME HasResult(g, i, c) PROVE HasResult(h, Old(i), c)
      <3>1. PICK j \in DOMAIN g : i < j /\ g[j].kind = "result" /\ g[j].calls[1] = c
        BY <2>1 DEF HasResult
      <3>2. Old(j) \in DOMAIN h /\ g[j] = h[Old(j)] /\ Old(i) < Old(j)
        BY <1>5, <1>10, <3>1
      <3> QED
        BY <3>1, <3>2 DEF HasResult
    <2>2. ASSUME HasResult(h, Old(i), c) PROVE HasResult(g, i, c)
      <3>1. PICK j \in DOMAIN h : Old(i) < j /\ h[j].kind = "result" /\ h[j].calls[1] = c
        BY <2>2 DEF HasResult
      <3>2. e < j
        <4>1. e < Old(i) /\ e \in Nat /\ j \in Nat /\ Old(i) \in DOMAIN h
          BY <1>1, <1>3, <1>7, <1>8, <1>11
        <4>2. Old(i) \in Nat
          BY <1>8, <4>1
        <4> QED
          BY <3>1, <4>1, <4>2
      <3>3. PICK k \in DOMAIN g : Old(k) = j /\ q < k
        BY <1>4, <3>2
      <3>4. k \in Nat /\ q \in Nat
        BY <1>1, <1>8
      <3>5. g[k] = h[j] /\ i < k
        BY <1>3, <1>5, <3>1, <3>3, <3>4
      <3> QED
        BY <3>1, <3>5 DEF HasResult
    <2> QED
      BY <2>1, <2>2
  <1>12. Shapes(g, u)
    <2> SUFFICES ASSUME NEW i \in DOMAIN g
                 PROVE /\ g[i].kind = "result" => Len(g[i].calls) = 1
                       /\ g[i].kind \notin {"calls", "result"} => g[i].calls = <<>>
                       /\ \A k \in DOMAIN g[i].calls : g[i].calls[k] <= u
                       /\ \A k, j \in DOMAIN g[i].calls : k < j => g[i].calls[k] < g[i].calls[j]
      BY DEF Shapes
    <2>1. CASE g[i].kind = "summary" /\ g[i].calls = <<>>
      BY <1>9, <2>1
    <2>2. CASE Old(i) \in DOMAIN h /\ g[i] = h[Old(i)]
      BY <1>2, <2>2 DEF Shapes
    <2> QED
      BY <1>3, <2>1, <2>2
  <1>13. Later(g)
    <2> SUFFICES ASSUME NEW i \in DOMAIN g, NEW j \in DOMAIN g, i < j, g[j].kind = "calls",
                        NEW k \in DOMAIN g[i].calls, NEW m \in DOMAIN g[j].calls
                 PROVE  g[i].calls[k] < g[j].calls[m]
      BY DEF Later
    <2>1. Old(i) \in DOMAIN h /\ g[i] = h[Old(i)]
      BY <1>3, <1>9
    <2>2. Old(j) \in DOMAIN h /\ g[j] = h[Old(j)]
      BY <1>10
    <2>3. Old(i) < Old(j)
      BY <1>5
    <2> QED
      BY <1>2, <2>1, <2>2, <2>3 DEF Later
  <1>14. Nearest(g)
    <2> SUFFICES ASSUME NEW i \in DOMAIN g, NEW j \in DOMAIN g, j < i, g[i].kind = "result",
                        g[j].kind = "calls",
                        ~ \E k \in DOMAIN g : j < k /\ k < i /\ g[k].kind = "calls"
                 PROVE  \E k \in DOMAIN g[j].calls : g[i].calls[1] = g[j].calls[k]
      BY DEF Nearest
    <2>1. /\ Old(i) \in DOMAIN h /\ g[i] = h[Old(i)]
          /\ Old(j) \in DOMAIN h /\ g[j] = h[Old(j)] /\ q < j
      BY <1>10
    <2>2. Old(j) < Old(i)
      BY <1>5
    <2>3. ASSUME NEW k \in DOMAIN h, Old(j) < k, k < Old(i), h[k].kind = "calls" PROVE FALSE
      <3>1. e < k
        <4>1. e < Old(j) /\ e \in Nat /\ k \in Nat /\ Old(j) \in Nat
          BY <1>1, <1>7, <1>8, <2>1
        <4> QED
          BY <2>3, <4>1
      <3>2. PICK b \in DOMAIN g : Old(b) = k /\ q < b
        BY <1>4, <3>1
      <3>3. b \in Nat /\ q \in Nat
        BY <1>1, <1>8
      <3>4. g[b] = h[k] /\ j < b /\ b < i
        BY <1>3, <1>5, <2>3, <3>2, <3>3
      <3> QED
        BY <2>3, <3>4
    <2> QED
      BY <1>2, <2>1, <2>2, <2>3 DEF Nearest
  <1>15. InOrder(g)
    <2> SUFFICES ASSUME NEW i \in DOMAIN g, g[i].kind = "calls"
                 PROVE  \E m \in 0..Len(g[i].calls) : DoneUpTo(g, i, m)
      BY DEF InOrder
    <2>1. Old(i) \in DOMAIN h /\ g[i] = h[Old(i)] /\ q < i
      BY <1>10
    <2>2. PICK m \in 0..Len(h[Old(i)].calls) : DoneUpTo(h, Old(i), m)
      BY <1>2, <2>1 DEF InOrder
    <2>3. DoneUpTo(g, i, m)
      BY <1>11, <2>1, <2>2 DEF DoneUpTo
    <2> QED
      BY <2>1, <2>2, <2>3
  <1>16. Once(g)
    <2> SUFFICES ASSUME NEW i \in DOMAIN g, NEW j \in DOMAIN g, g[i].kind = "result",
                        g[j].kind = "result", g[i].calls[1] = g[j].calls[1]
                 PROVE  i = j
      BY DEF Once
    <2>1. /\ Old(i) \in DOMAIN h /\ g[i] = h[Old(i)]
          /\ Old(j) \in DOMAIN h /\ g[j] = h[Old(j)]
      BY <1>10
    <2>2. Old(i) = Old(j)
      BY <1>2, <2>1 DEF Once
    <2> QED
      BY <1>6, <2>2
  <1>17. SummariesFirst(g)
    <2> SUFFICES ASSUME NEW i \in DOMAIN g, NEW j \in DOMAIN g, i < j, g[j].kind = "summary"
                 PROVE  g[i].kind = "summary"
      BY DEF SummariesFirst
    <2>1. i \in Nat /\ j \in Nat /\ q \in Nat
      BY <1>1, <1>8
    <2>2. CASE i <= q
      BY <1>3, <2>1, <2>2
    <2>3. CASE q < i
      <3>1. q < j
        BY <2>1, <2>3
      <3>2. /\ Old(i) \in DOMAIN h /\ g[i] = h[Old(i)]
            /\ Old(j) \in DOMAIN h /\ g[j] = h[Old(j)]
        BY <1>3, <2>1, <2>3, <3>1
      <3>3. Old(i) < Old(j)
        BY <1>5
      <3> QED
        BY <1>2, <3>2, <3>3 DEF SummariesFirst
    <2> QED
      BY <2>1, <2>2, <2>3
  <1>18. ASSUME NEW c, Closed(h, c) PROVE Closed(g, c)
    <2> SUFFICES ASSUME NEW i \in DOMAIN g, g[i].kind = "calls",
                        NEW k \in DOMAIN g[i].calls, g[i].calls[k] = c
                 PROVE  HasResult(g, i, c)
      BY DEF Closed
    <2>1. Old(i) \in DOMAIN h /\ g[i] = h[Old(i)] /\ q < i
      BY <1>10
    <2>2. HasResult(h, Old(i), c)
      BY <1>18, <2>1 DEF Closed
    <2> QED
      BY <1>11, <2>1, <2>2
  <1> QED
    BY <1>1, <1>12, <1>13, <1>14, <1>15, <1>16, <1>17, <1>18 DEF HistOK

\* What compact_native and truncate_history leave is such a cut.
LEMMA CompactedCuts ==
    ASSUME hist \in Seq(Message), Len(hist) >= KeepCount
    PROVE  CutOf(Compacted, hist, 1, Len(hist) - KeepCount)
  <1> DEFINE n == Len(hist)
             e == n - KeepCount
             m == Msg("summary", <<>>)
             tail == SubSeq(hist, e + 1, n)
  <1>1. n \in Nat /\ e \in Nat /\ n - e = 4 /\ e + 1 \in Int /\ n \in Int /\ e <= n
    BY LenProperties DEF KeepCount
  <1>2. \A i \in (e + 1)..n : hist[i] \in Message
    <2>1. \A i \in (e + 1)..n : i \in 1..n
      BY <1>1
    <2> QED
      BY <2>1, ElementOfSeq
  <1>3. <<m>> \in Seq(Message) /\ Len(<<m>>) = 1 /\ <<m>>[1] = m
    <2>1. m \in Message
      BY EmptySeq DEF Message, Msg, Kinds
    <2> QED
      BY <2>1
  <1>4. Compacted = <<m>> \o tail
    BY DEF Compacted
  <1> HIDE DEF e, n, m
  <1>5. /\ tail \in Seq(Message) /\ Len(tail) = (IF e + 1 <= n THEN n - (e + 1) + 1 ELSE 0)
        /\ \A i \in 1..(n - (e + 1) + 1) : tail[i] = hist[e + 1 + i - 1]
    BY <1>1, <1>2, SubSeqProperties
  <1> HIDE DEF tail
  <1>6. Len(tail) = n - e /\ \A i \in 1..Len(tail) : tail[i] = hist[e + i]
    BY <1>1, <1>5
  <1>7. /\ Compacted \in Seq(Message) /\ Len(Compacted) = 1 + Len(tail)
        /\ \A i \in 1..(1 + Len(tail)) :
              Compacted[i] = IF i <= 1 THEN <<m>>[i] ELSE tail[i - 1]
    BY <1>3, <1>4, <1>5, ConcatProperties
  <1>8. Len(Compacted) = 1 + n - e
    BY <1>1, <1>6, <1>7
  <1>9. \A k \in 1..1 : Compacted[k] = m
    <2>1. 1 \in 1..(1 + Len(tail))
      BY <1>1, <1>6
    <2> QED
      BY <1>3, <1>7, <2>1
  <1>10. ASSUME NEW k \in (1 + 1)..Len(Compacted) PROVE Compacted[k] = hist[k - 1 + e]
    <2>1. k \in 1..(1 + Len(tail)) /\ ~(k <= 1) /\ k - 1 \in 1..Len(tail) /\ e + (k - 1) = k - 1 + e
      BY <1>1, <1>6, <1>8
    <2> QED
      BY <1>6, <1>7, <2>1
  <1>11. CutOf(Compacted, hist, 1, e)
    BY <1>1, <1>7, <1>8, <1>9, <1>10 DEF CutOf, m, n
  <1> QED
    BY <1>11 DEF e, n

LEMMA TruncatedCuts ==
    ASSUME NEW u, HistOK(hist, u)
    PROVE  \E q, e : CutOf(Truncated, hist, q, e)
  <1> DEFINE n == Len(hist)
             at == {i \in 1..n : hist[i].kind = "summary"}
  <1>1. hist \in Seq(Message) /\ n \in Nat /\ DOMAIN hist = 1..n
    BY LenProperties DEF HistOK
  <1>2. PICK q \in Nat : q <= n /\ \A k \in 1..n : hist[k].kind = "summary" <=> k <= q
    <2>1. CASE at = {}
      <3>1. \A k \in 1..n : hist[k].kind = "summary" <=> k <= 0
        BY <1>1, <2>1
      <3> QED
        BY <1>1, <3>1
    <2>2. CASE at # {}
      <3>1. at \in SUBSET (1..n)
        OBVIOUS
      <3>2. PICK m \in at : \A k \in at : k <= m
        BY <1>1, <2>2, <3>1, GreatestNumber
      <3>3. m \in 1..n /\ hist[m].kind = "summary"
        BY <3>2
      <3>4. ASSUME NEW k \in 1..n PROVE hist[k].kind = "summary" <=> k <= m
        <4>1. k < m => hist[k].kind = "summary"
          BY <1>1, <3>3 DEF HistOK, SummariesFirst
        <4>2. hist[k].kind = "summary" => k <= m
          BY <3>2
        <4>3. k <= m <=> k < m \/ k = m
          BY <3>3
        <4> QED
          BY <3>3, <4>1, <4>2, <4>3
      <3>5. m \in Nat /\ m <= n
        BY <3>3
      <3> QED
        BY <3>4, <3>5
    <2> QED
      BY <2>1, <2>2
  <1>3. \A k \in 1..n : /\ hist[k] \in Summaries <=> k <= q
                        /\ hist[k] \in Range(hist) \ Summaries <=> q < k
    <2>1. \A k \in 1..n : hist[k] \in Range(hist)
      BY <1>1 DEF Range
    <2>2. \A k \in 1..n : hist[k] \in Summaries <=> hist[k].kind = "summary"
      BY <2>1 DEF Summaries
    <2>3. \A k \in 1..n : k <= q <=> ~(q < k)
      BY <1>1
    <2> QED
      BY <1>2, <2>1, <2>2, <2>3
  <1> DEFINE sums == SubSeq(hist, 1, q)
             other == SubSeq(hist, q + 1, n)
  <1>4. Filter(hist, Summaries) = sums
    <2>1. \A k \in 1..Len(hist) : hist[k] \in Summaries <=> 0 < k /\ k <= q
      BY <1>1, <1>3
    <2>2. Filter(hist, Summaries) = SubSeq(hist, 0 + 1, q)
      <3>1. 0 \in Nat /\ q \in Nat /\ 0 <= q /\ q <= Len(hist)
        BY <1>2
      <3> QED
        BY <1>1, <2>1, <3>1, FilterStretch, Zenon
    <2> QED
      BY <2>2
  <1>5. Filter(hist, Range(hist) \ Summaries) = other
    <2>1. \A k \in 1..Len(hist) : hist[k] \in Range(hist) \ Summaries <=> q < k /\ k <= n
      BY <1>1, <1>3
    <2>2. n \in Nat /\ q \in Nat /\ q <= n /\ n <= Len(hist)
      BY <1>1, <1>2
    <2> QED
      BY <1>1, <2>1, <2>2, FilterStretch, Zenon
  <1>6. \A i \in 1..n : hist[i] \in Message
    BY <1>1, ElementOfSeq
  <1>7. sums \in Seq(Message) /\ Len(sums) = q /\ \A k \in 1..q : sums[k] = hist[k]
    <2>1. \A i \in 1..q : hist[i] \in Message
      BY <1>1, <1>2, <1>6
    <2>2. 1 \in Int /\ q \in Int
      BY <1>2
    <2> HIDE DEF n
    <2>3. /\ sums \in Seq(Message) /\ Len(sums) = (IF 1 <= q THEN q - 1 + 1 ELSE 0)
          /\ \A i \in 1..(q - 1 + 1) : sums[i] = hist[1 + i - 1]
      BY <2>1, <2>2, SubSeqProperties
    <2> HIDE DEF sums
    <2> QED
      BY <1>2, <2>3
  <1>8. other \in Seq(Message) /\ Len(other) = n - q /\ \A k \in 1..(n - q) : other[k] = hist[q + k]
    <2>1. \A i \in (q + 1)..n : hist[i] \in Message
      BY <1>1, <1>2, <1>6
    <2>2. q + 1 \in Int /\ n \in Int
      BY <1>1, <1>2
    <2> HIDE DEF n
    <2>3. /\ other \in Seq(Message) /\ Len(other) = (IF q + 1 <= n THEN n - (q + 1) + 1 ELSE 0)
          /\ \A i \in 1..(n - (q + 1) + 1) : other[i] = hist[q + 1 + i - 1]
      BY <2>1, <2>2, SubSeqProperties
    <2> HIDE DEF other
    <2> QED
      BY <1>1, <1>2, <2>3
  <1> DEFINE drop == IF Len(other) > KeepLast THEN Len(other) - KeepLast ELSE 0
             kept == SubSeq(other, drop + 1, Len(other))
  <1>9. Truncated = sums \o kept
    BY <1>4, <1>5 DEF Truncated
  <1> HIDE DEF n, at, sums, other
  <1>10. drop \in Nat /\ drop <= n - q
    BY <1>1, <1>2, <1>8, LimitsAssumption
  <1> HIDE DEF drop
  <1>11. /\ kept \in Seq(Message) /\ Len(kept) = n - q - drop
         /\ \A k \in 1..(n - q - drop) : kept[k] = hist[q + drop + k]
    <2>1. \A i \in (drop + 1)..Len(other) : other[i] \in Message
      <3>1. \A i \in (drop + 1)..Len(other) : i \in 1..(n - q) /\ q + i \in 1..n
        BY <1>1, <1>2, <1>8, <1>10
      <3> QED
        BY <1>6, <1>8, <3>1
    <2>2. drop + 1 \in Int /\ Len(other) \in Int
      BY <1>1, <1>2, <1>8, <1>10
    <2>3. /\ kept \in Seq(Message)
          /\ Len(kept) = (IF drop + 1 <= Len(other) THEN Len(other) - (drop + 1) + 1 ELSE 0)
          /\ \A i \in 1..(Len(other) - (drop + 1) + 1) : kept[i] = other[drop + 1 + i - 1]
      BY <2>1, <2>2, SubSeqProperties
    <2> HIDE DEF kept
    <2>4. Len(kept) = n - q - drop
      BY <1>1, <1>2, <1>8, <1>10, <2>3
    <2>5. ASSUME NEW k \in 1..(n - q - drop) PROVE kept[k] = hist[q + drop + k]
      <3>1. /\ k \in 1..(Len(other) - (drop + 1) + 1) /\ drop + 1 + k - 1 = drop + k
            /\ drop + k \in 1..(n - q) /\ q + (drop + k) = q + drop + k
        BY <1>1, <1>2, <1>8, <1>10
      <3> QED
        BY <1>8, <2>3, <3>1
    <2> QED
      BY <2>3, <2>4, <2>5
  <1> HIDE DEF kept
  <1>12. /\ Truncated \in Seq(Message) /\ Len(Truncated) = q + (n - q - drop)
         /\ \A i \in 1..(q + (n - q - drop)) :
               Truncated[i] = IF i <= q THEN sums[i] ELSE kept[i - q]
    <2>1. /\ sums \o kept \in Seq(Message) /\ Len(sums \o kept) = Len(sums) + Len(kept)
          /\ \A i \in 1..(Len(sums) + Len(kept)) :
               (sums \o kept)[i] = IF i <= Len(sums) THEN sums[i] ELSE kept[i - Len(sums)]
      BY <1>7, <1>11, ConcatProperties
    <2> QED
      BY <1>7, <1>9, <1>11, <2>1
  <1>13. ASSUME NEW k \in 1..q PROVE Truncated[k] = Msg("summary", <<>>)
    <2>1. k \in 1..n /\ k <= q /\ k \in 1..(q + (n - q - drop))
      BY <1>1, <1>2, <1>10
    <2>2. Truncated[k] = hist[k]
      BY <1>7, <1>12, <2>1
    <2>3. hist[k] \in Message /\ hist[k].kind = "summary"
      BY <1>2, <1>6, <2>1
    <2>4. hist[k].calls = <<>>
      <3>1. Shapes(hist, u) /\ k \in DOMAIN hist
        BY <1>1, <2>1 DEF HistOK
      <3> QED
        BY <2>3, <3>1 DEF Shapes
    <2>5. hist[k] = [kind |-> hist[k].kind, calls |-> hist[k].calls]
      BY <2>3 DEF Message
    <2> QED
      BY <2>2, <2>3, <2>4, <2>5 DEF Msg
  <1>14. ASSUME NEW k \in (q + 1)..Len(Truncated) PROVE Truncated[k] = hist[k - q + (q + drop)]
    <2>1. /\ k \in 1..(q + (n - q - drop)) /\ ~(k <= q) /\ k - q \in 1..(n - q - drop)
          /\ q + drop + (k - q) = k - q + (q + drop)
      BY <1>1, <1>2, <1>10, <1>12
    <2> QED
      BY <1>11, <1>12, <2>1
  <1>15. q + drop \in Nat /\ q + drop <= n /\ Len(Truncated) = q + n - (q + drop)
    BY <1>1, <1>2, <1>10, <1>12
  <1>16. CutOf(Truncated, hist, q, q + drop)
    BY <1>1, <1>2, <1>12, <1>13, <1>14, <1>15 DEF CutOf, n
  <1> QED
    BY <1>16

-----------------------------------------------------------------------------
(* Types.                                                                  *)

\* A turn there is among its calls, and has one to look at.
Busy == {"calls", "tool", "approval"}

Lists ==
    /\ hist \in Seq(Message)
    /\ todo \in [Turns -> Seq(Calls)]
    /\ used \in 0..MaxCalls
    /\ \A t \in Turns : pc[t] \in Busy => todo[t] # <<>>

LEMMA MessageAdded ==
    ASSUME hist \in Seq(Message), NEW k \in Kinds, NEW s \in Seq(Calls)
    PROVE  Append(hist, Msg(k, s)) \in Seq(Message)
  <1>1. Msg(k, s) \in Message
    BY DEF Msg, Message
  <1> QED
    BY <1>1, AppendProperties

LEMMA FirstCall ==
    ASSUME NEW t \in Turns, Lists, pc[t] \in Busy
    PROVE  /\ todo[t] \in Seq(Calls) /\ todo[t] # <<>> /\ Head(todo[t]) \in Calls
           /\ Tail(todo[t]) \in Seq(Calls) /\ Len(Tail(todo[t])) = Len(todo[t]) - 1
           /\ Len(todo[t]) \in Nat /\ <<Head(todo[t])>> \in Seq(Calls)
  <1>1. todo[t] \in Seq(Calls) /\ todo[t] # <<>>
    BY DEF Lists
  <1>2. /\ Head(todo[t]) \in Calls /\ Tail(todo[t]) \in Seq(Calls)
        /\ Len(Tail(todo[t])) = Len(todo[t]) - 1
    BY <1>1, HeadTailProperties
  <1>3. Len(todo[t]) \in Nat
    BY <1>1, LenProperties
  <1>4. <<Head(todo[t])>> \in Seq(Calls)
    BY <1>2
  <1> QED
    BY <1>1, <1>2, <1>3, <1>4

LEMMA ListsStep ==
    ASSUME NEW t \in Turns, NEW s, NEW w \in Seq(Calls), FlushInv, Lists,
           pc' = [pc EXCEPT ![t] = s], todo' = [todo EXCEPT ![t] = w],
           s \in Busy => w # <<>>, hist' \in Seq(Message), used' \in 0..MaxCalls
    PROVE  Lists'
  <1>1. pc \in [Turns -> Places] /\ todo \in [Turns -> Seq(Calls)]
    BY DEF FlushInv, Lists
  <1>2. todo' \in [Turns -> Seq(Calls)]
    BY <1>1
  <1>3. \A u \in Turns : pc'[u] = (IF u = t THEN s ELSE pc[u]) /\ todo'[u] = IF u = t THEN w ELSE todo[u]
    BY <1>1
  <1>4. \A u \in Turns : pc'[u] \in Busy => todo'[u] # <<>>
    BY <1>3 DEF Lists
  <1> QED
    BY <1>2, <1>4 DEF Lists

\* The calls a turn has are left alone.
LEMMA ListsKept ==
    ASSUME NEW t \in Turns, NEW s, FlushInv, Lists, pc' = [pc EXCEPT ![t] = s],
           s \notin Busy \/ pc[t] \in Busy,
           hist' \in Seq(Message), UNCHANGED <<todo, used>>
    PROVE  Lists'
  <1>1. todo' = [todo EXCEPT ![t] = todo[t]] /\ todo[t] \in Seq(Calls)
    BY DEF Lists
  <1>2. s \in Busy => todo[t] # <<>>
    BY DEF Lists
  <1>3. used' \in 0..MaxCalls
    BY DEF Lists
  <1> QED
    BY <1>1, <1>2, <1>3, ListsStep

LEMMA TruncatedType == ASSUME hist \in Seq(Message) PROVE Truncated \in Seq(Message)
  <1> DEFINE other == Filter(hist, Range(hist) \ Summaries)
             drop == IF Len(other) > KeepLast THEN Len(other) - KeepLast ELSE 0
  <1>1. Filter(hist, Summaries) \in Seq(Message) /\ other \in Seq(Message)
    BY FilterSeq
  <1>2. Truncated = Filter(hist, Summaries) \o SubSeq(other, drop + 1, Len(other))
    BY DEF Truncated
  <1> HIDE DEF other
  <1>3. Len(other) \in Nat /\ \A i \in 1..Len(other) : other[i] \in Message
    BY <1>1, LenProperties, ElementOfSeq
  <1>4. drop \in Nat
    BY <1>3, LimitsAssumption
  <1> HIDE DEF drop
  <1>5. \A i \in (drop + 1)..Len(other) : other[i] \in Message
    BY <1>3, <1>4
  <1>6. drop + 1 \in Int /\ Len(other) \in Int
    BY <1>3, <1>4
  <1>7. SubSeq(other, drop + 1, Len(other)) \in Seq(Message)
    BY <1>5, <1>6, SubSeqProperties
  <1> QED
    BY <1>1, <1>2, <1>7, ConcatProperties

LEMMA FreshCalls ==
    ASSUME NEW n \in 1..2, used \in 0..MaxCalls, used + n <= MaxCalls, NEW s,
           s = [i \in 1..n |-> used + i]
    PROVE  /\ s \in Seq(Calls) /\ s # <<>> /\ Len(s) = n /\ DOMAIN s = 1..n
           /\ \A k \in DOMAIN s : used < s[k] /\ s[k] <= used + n
           /\ \A k, l \in DOMAIN s : k < l => s[k] < s[l]
  <1>1. used \in Nat /\ MaxCalls \in Nat /\ n \in Nat /\ 1 <= n
    BY LimitsAssumption
  <1>2. \A i \in 1..n : used + i \in Calls
    BY <1>1 DEF Calls
  <1>3. s \in [1..n -> Calls]
    BY <1>2
  <1>4. s \in Seq(Calls)
    BY <1>1, <1>3, SeqDef
  <1>5. DOMAIN s = 1..n /\ Len(s) = n
    <2>1. DOMAIN s = 1..n
      OBVIOUS
    <2>2. Len(s) \in Nat /\ DOMAIN s = 1..Len(s)
      BY <1>4, LenProperties
    <2> QED
      BY <1>1, <2>1, <2>2
  <1>6. s # <<>>
    BY <1>1, <1>5
  <1>7. \A k \in DOMAIN s : s[k] = used + k /\ k \in Nat /\ 1 <= k /\ k <= n
    BY <1>1, <1>5
  <1>8. \A k \in DOMAIN s : used < s[k] /\ s[k] <= used + n
    BY <1>1, <1>7
  <1>9. \A k, l \in DOMAIN s : k < l => s[k] < s[l]
    BY <1>1, <1>7
  <1> QED
    BY <1>4, <1>5, <1>6, <1>8, <1>9

\* The calls that continue_chat() takes up.
LEMMA OpenType ==
    ASSUME hist \in Seq(Message), NEW i \in DOMAIN hist
    PROVE  OpenCalls(i) \in Seq(Calls)
  <1>1. hist[i].calls \in Seq(Calls)
    BY IdsAreNumbers
  <1> QED
    BY <1>1, FilterSeq DEF OpenCalls

LEMMA LastExists ==
    ASSUME hist \in Seq(Message), NEW at, at = {i \in DOMAIN hist : hist[i].kind = "calls"}, at # {}
    PROVE  LastCalls(hist, CHOOSE i \in at : \A j \in at : j <= i)
  <1>1. Len(hist) \in Nat /\ DOMAIN hist = 1..Len(hist)
    BY LenProperties
  <1>2. at \in SUBSET (1..Len(hist))
    BY <1>1
  <1>3. \E m \in at : \A k \in at : k <= m
    BY <1>1, <1>2, GreatestNumber
  <1>4. PICK p : p = CHOOSE i \in at : \A j \in at : j <= i
    OBVIOUS
  <1>5. p \in at /\ \A j \in at : j <= p
    BY <1>3, <1>4, Zenon
  <1>6. LastCalls(hist, p)
    <2>1. p \in DOMAIN hist /\ hist[p].kind = "calls"
      BY <1>5
    <2>2. \A j \in DOMAIN hist : p < j => ~(j <= p)
      BY <1>1, <2>1
    <2>3. \A j \in DOMAIN hist : p < j => hist[j].kind # "calls"
      BY <1>5, <2>2
    <2> QED
      BY <2>1, <2>3 DEF LastCalls
  <1> QED
    BY <1>4, <1>6

LEMMA ListsNext ==
    ASSUME NEW t \in Turns, FlushInv, Lists,
           \/ Enter(t) \/ Fresh(t) \/ Clear(t) \/ Begin(t)
           \/ FlushCheck(t) \/ Flush(t)
           \/ CompactCheck(t) \/ Compact(t)
           \/ RespondText(t) \/ RespondCalls(t) \/ RespondError(t) \/ StreamEnds(t)
           \/ StartTool(t) \/ NeedApproval(t) \/ FinishTool(t)
           \/ Decide(t) \/ Prompt(t) \/ HttpApprove(t) \/ Resume(t) \/ Cancel(t)
    PROVE  Lists'
  <1>1. hist \in Seq(Message) /\ used \in 0..MaxCalls /\ <<>> \in Seq(Calls)
    BY EmptySeq DEF Lists
  <1>2. CASE \/ Enter(t) \/ FlushCheck(t) \/ CompactCheck(t) \/ RespondError(t) \/ StreamEnds(t)
             \/ StartTool(t) \/ NeedApproval(t) \/ HttpApprove(t) \/ Cancel(t)
    <2>1. UNCHANGED <<hist, todo, used>>
      BY <1>2 DEF Enter, FlushCheck, CompactCheck, RespondError, StreamEnds, StartTool,
                  NeedApproval, HttpApprove, Cancel, session, tools
    <2>2. PICK s : pc' = [pc EXCEPT ![t] = s] /\ (s \notin Busy \/ pc[t] \in Busy)
      BY <1>2, ZenonT(60) DEF Enter, FlushCheck, CompactCheck, RespondError, StreamEnds, StartTool,
                  NeedApproval, HttpApprove, Cancel, Goto, Busy
    <2> QED
      BY <1>1, <2>1, <2>2, ListsKept
  <1>3. CASE Fresh(t) \/ Clear(t)
    <2>1. UNCHANGED <<todo, used>> /\ hist' = <<>>
      BY <1>3 DEF Fresh, Clear, NewSession, tools
    <2>2. PICK s : pc' = [pc EXCEPT ![t] = s] /\ s \notin Busy
      BY <1>3 DEF Fresh, Clear, Goto, Busy
    <2>3. hist' \in Seq(Message)
      BY <2>1, EmptySeq
    <2> QED
      BY <2>1, <2>2, <2>3, ListsKept
  <1>4. CASE Begin(t) \/ Flush(t) \/ RespondText(t)
    <2>1. UNCHANGED <<todo, used>>
      BY <1>4 DEF Begin, Flush, RespondText, tools
    <2>2. hist' = hist \/ \E k \in Kinds : hist' = Append(hist, Msg(k, <<>>))
      BY <1>4 DEF Begin, Flush, RespondText, AddMessage, session, Kinds
    <2>3. PICK s : pc' = [pc EXCEPT ![t] = s] /\ s \notin Busy
      BY <1>4, ZenonT(60) DEF Begin, Flush, RespondText, Goto, Busy
    <2>4. hist' \in Seq(Message)
      BY <1>1, <2>2, MessageAdded
    <2> QED
      BY <2>1, <2>3, <2>4, ListsKept
  <1>5. CASE Compact(t)
    <2>1. UNCHANGED <<todo, used>>
      BY <1>5 DEF Compact, tools
    <2>2. PICK s : pc' = [pc EXCEPT ![t] = s] /\ s \notin Busy
      BY <1>5 DEF Compact, Goto, Busy
    <2>3. \/ hist' = hist \/ hist' = Truncated
          \/ hist' = Compacted /\ Len(hist) >= KeepCount
      BY <1>5 DEF Compact
    <2>4. hist' \in Seq(Message)
      BY <1>1, <2>3, TruncatedType, CompactedCuts DEF CutOf
    <2> QED
      BY <2>1, <2>2, <2>4, ListsKept
  <1>6. CASE RespondCalls(t)
    <2>1. PICK n \in 1..2 :
            /\ used + n <= MaxCalls /\ used' = used + n
            /\ AddMessage("calls", [i \in 1..n |-> used + i])
            /\ todo' = [todo EXCEPT ![t] = [i \in 1..n |-> used + i]]
      BY <1>6 DEF RespondCalls
    <2>2. PICK s : s = [i \in 1..n |-> used + i]
      OBVIOUS
    <2>3. s \in Seq(Calls) /\ s # <<>>
      BY <1>1, <2>1, <2>2, FreshCalls
    <2>4. hist' = Append(hist, Msg("calls", s)) /\ todo' = [todo EXCEPT ![t] = s]
      BY <2>1, <2>2 DEF AddMessage
    <2>5. hist' \in Seq(Message)
      BY <1>1, <2>3, <2>4, MessageAdded DEF Kinds
    <2>6. used' \in 0..MaxCalls
      BY <1>1, <2>1, LimitsAssumption
    <2>7. pc' = [pc EXCEPT ![t] = "calls"]
      BY <1>6 DEF RespondCalls, Goto
    <2> QED
      BY <2>3, <2>4, <2>5, <2>6, <2>7, ListsStep
  <1>7. CASE FinishTool(t)
    <2>1. /\ pc[t] = "tool" /\ UNCHANGED used
          /\ hist' = Append(hist, Msg("result", <<Head(todo[t])>>))
          /\ todo' = [todo EXCEPT ![t] = Tail(todo[t])]
          /\ pc' = [pc EXCEPT ![t] = IF Len(todo[t]) = 1 THEN "llm" ELSE "calls"]
      BY <1>7 DEF FinishTool, AddMessage, Goto, tools
    <2>2. /\ Tail(todo[t]) \in Seq(Calls) /\ <<Head(todo[t])>> \in Seq(Calls)
          /\ Len(Tail(todo[t])) = Len(todo[t]) - 1 /\ Len(todo[t]) \in Nat
      BY <2>1, FirstCall DEF Busy
    <2>3. hist' \in Seq(Message)
      BY <1>1, <2>1, <2>2, MessageAdded DEF Kinds
    <2>4. PICK s : s = (IF Len(todo[t]) = 1 THEN "llm" ELSE "calls")
      OBVIOUS
    <2>5. PICK w \in Seq(Calls) : w = Tail(todo[t])
      BY <2>2
    <2>6. s \in Busy => w # <<>>
      <3>1. w = <<>> => Len(w) = 0
        BY EmptySeq
      <3>2. w = <<>> => Len(todo[t]) = 1
        BY <2>2, <2>5, <3>1
      <3> QED
        BY <2>4, <3>2 DEF Busy
    <2>7. pc' = [pc EXCEPT ![t] = s] /\ todo' = [todo EXCEPT ![t] = w]
      BY <2>1, <2>4, <2>5
    <2>8. used' \in 0..MaxCalls
      BY <1>1, <2>1
    <2> QED
      BY <2>3, <2>6, <2>7, <2>8, ListsStep
  <1>8. CASE Decide(t)
    <2>1. pc[t] = "approval" /\ UNCHANGED <<todo, used>>
      BY <1>8 DEF Decide
    <2>2. PICK s : pc' = [pc EXCEPT ![t] = s] /\ s \notin Busy
      BY <1>8 DEF Decide, Goto, Busy
    <2>3. hist' = hist \/ hist' = Append(hist, Msg("result", <<Head(todo[t])>>))
      BY <1>8 DEF Decide, AddMessage, session
    <2>4. <<Head(todo[t])>> \in Seq(Calls)
      BY <2>1, FirstCall DEF Busy
    <2>5. hist' \in Seq(Message)
      BY <1>1, <2>3, <2>4, MessageAdded DEF Kinds
    <2> QED
      BY <2>1, <2>2, <2>5, ListsKept
  <1>9. CASE Prompt(t)
    <2>1. /\ pc[t] = "approval" /\ UNCHANGED used
          /\ hist' = Append(hist, Msg("result", <<Head(todo[t])>>))
          /\ todo' = [todo EXCEPT ![t] = <<>>]
          /\ pc' = [pc EXCEPT ![t] = "llm"]
      BY <1>9 DEF Prompt, AddMessage, Goto
    <2>2. <<Head(todo[t])>> \in Seq(Calls)
      BY <2>1, FirstCall DEF Busy
    <2>3. hist' \in Seq(Message)
      BY <1>1, <2>1, <2>2, MessageAdded DEF Kinds
    <2>4. used' \in 0..MaxCalls /\ "llm" \notin Busy
      BY <1>1, <2>1 DEF Busy
    <2> QED
      BY <1>1, <2>1, <2>3, <2>4, ListsStep
  <1>10. CASE Resume(t)
    <2> DEFINE at == {i \in DOMAIN hist : hist[i].kind = "calls"}
               p == CHOOSE i \in at : \A j \in at : j <= i
    <2>1. UNCHANGED <<hist, used>>
      BY <1>10 DEF Resume, session, tools
    <2>2. CASE at = {}
      <3>1. pc' = [pc EXCEPT ![t] = "done"] /\ UNCHANGED todo
        BY <1>10, <2>2 DEF Resume, Goto
      <3> QED
        BY <1>1, <2>1, <3>1, ListsKept DEF Busy
    <2>3. CASE at # {}
      <3>1. /\ todo' = [todo EXCEPT ![t] = OpenCalls(p)]
            /\ pc' = [pc EXCEPT ![t] = IF OpenCalls(p) = <<>> THEN "llm" ELSE "calls"]
        BY <1>10, <2>3 DEF Resume, Goto
      <3>2. p \in DOMAIN hist
        BY <1>1, <2>3, LastExists DEF LastCalls
      <3> HIDE DEF p, at
      <3>3. PICK w \in Seq(Calls) : w = OpenCalls(p)
        BY <1>1, <3>2, OpenType
      <3>4. PICK s : s = (IF w = <<>> THEN "llm" ELSE "calls")
        OBVIOUS
      <3>5. /\ todo' = [todo EXCEPT ![t] = w] /\ pc' = [pc EXCEPT ![t] = s]
            /\ s \in Busy => w # <<>>
        BY <3>1, <3>3, <3>4 DEF Busy
      <3>6. hist' \in Seq(Message) /\ used' \in 0..MaxCalls
        BY <1>1, <2>1
      <3> QED
        BY <3>5, <3>6, ListsStep
    <2> QED
      BY <2>2, <2>3
  <1> QED
    BY <1>2, <1>3, <1>4, <1>5, <1>6, <1>7, <1>8, <1>9, <1>10

Phases == {"flush", "chat", "cont"}
Verdicts == {"none", "approve", "deny", "timeout"}

Values ==
    /\ caller \in Callers /\ gated \in SUBSET Calls
    /\ phase \in [Turns -> Phases]
    /\ tokens \in Nat /\ flushes \in Nat
    /\ approved \in SUBSET Calls
    /\ verdict \in [Calls -> Verdicts]
    /\ cut \in SUBSET Calls

LEMMA ValuesNext ==
    ASSUME NEW t \in Turns, FlushInv, Lists, Lists', Values,
           \/ Enter(t) \/ Fresh(t) \/ Clear(t) \/ Begin(t)
           \/ FlushCheck(t) \/ Flush(t)
           \/ CompactCheck(t) \/ Compact(t)
           \/ RespondText(t) \/ RespondCalls(t) \/ RespondError(t) \/ StreamEnds(t)
           \/ StartTool(t) \/ NeedApproval(t) \/ FinishTool(t)
           \/ Decide(t) \/ Prompt(t) \/ HttpApprove(t) \/ Resume(t) \/ Cancel(t)
    PROVE  Values'
  <1>1. UNCHANGED <<caller, gated>>
    BY DEF Enter, Fresh, Clear, Begin, FlushCheck, Flush, CompactCheck, Compact, RespondText,
           RespondCalls, RespondError, StreamEnds, StartTool, NeedApproval, FinishTool, Decide,
           Prompt, HttpApprove, Resume, Cancel
  <1>2. phase' \in [Turns -> Phases]
    <2>1. phase[t] \in Phases /\ phase \in [Turns -> Phases]
      BY DEF Values
    <2>2. CASE RespondText(t)
      <3>1. phase' = [phase EXCEPT ![t] = IF phase[t] = "flush" THEN "chat" ELSE phase[t]]
        BY <2>2 DEF RespondText
      <3>2. (IF phase[t] = "flush" THEN "chat" ELSE phase[t]) \in Phases
        BY <2>1 DEF Phases
      <3> QED
        BY <2>1, <3>1, <3>2
    <2>3. CASE Flush(t) \/ Resume(t)
      <3>1. PICK s \in Phases : phase' = [phase EXCEPT ![t] = s]
        BY <2>3 DEF Flush, Resume, Phases
      <3> QED
        BY <2>1, <3>1
    <2>4. CASE ~(RespondText(t) \/ Flush(t) \/ Resume(t))
      <3>1. phase' = phase
        BY <2>4 DEF Enter, Fresh, Clear, Begin, FlushCheck, CompactCheck, Compact,
           RespondCalls, RespondError, StreamEnds, StartTool, NeedApproval, FinishTool, Decide,
           Prompt, HttpApprove, Cancel
      <3> QED
        BY <2>1, <3>1
    <2> QED
      BY <2>2, <2>3, <2>4
  <1>3. tokens' \in Nat /\ flushes' \in Nat
    <2>1. tokens \in Nat /\ flushes \in Nat /\ Len(hist') \in Nat
      BY LenProperties DEF Values, Lists
    <2>2. CASE Begin(t) \/ Flush(t) \/ RespondText(t) \/ RespondCalls(t) \/ FinishTool(t)
               \/ Decide(t) \/ Prompt(t)
      <3>1. tokens' \in {tokens, tokens + 1} /\ flushes' \in {flushes, flushes + 1}
        BY <2>2 DEF Begin, Flush, RespondText, RespondCalls, FinishTool, Decide, Prompt, AddMessage,
                    session
      <3> QED
        BY <2>1, <3>1
    <2>3. CASE ~(Begin(t) \/ Flush(t) \/ RespondText(t) \/ RespondCalls(t) \/ FinishTool(t)
                 \/ Decide(t) \/ Prompt(t))
      <3>1. tokens' \in {tokens, 0, Len(hist')} /\ flushes' \in {flushes, 0}
        BY <2>3 DEF Enter, Fresh, Clear, FlushCheck, CompactCheck, Compact,
                    RespondError, StreamEnds, StartTool, NeedApproval, HttpApprove, Resume, Cancel,
                    NewSession, session
      <3> QED
        BY <2>1, <3>1
    <2> QED
      BY <2>2, <2>3
  <1>4. pc[t] \in Busy => Head(todo[t]) \in Calls
    BY FirstCall
  <1>5. /\ approved \in SUBSET Calls /\ cut \in SUBSET Calls
        /\ verdict \in [Calls -> Verdicts]
    BY DEF Values
  <1>6. /\ approved' \in SUBSET Calls /\ cut' \in SUBSET Calls
        /\ verdict' \in [Calls -> Verdicts]
    <2>1. CASE StartTool(t)
      <3>1. approved' \subseteq approved /\ UNCHANGED <<cut, verdict>>
        BY <2>1 DEF StartTool, Consume, consent
      <3> QED
        BY <1>5, <3>1
    <2>2. CASE NeedApproval(t)
      <3>1. UNCHANGED <<approved, cut, verdict>>
        BY <2>2 DEF NeedApproval
      <3> QED
        BY <1>5, <3>1
    <2>3. CASE HttpApprove(t)
      <3>1. PICK c \in Calls : /\ approved' = approved \union {c}
                               /\ verdict' = [verdict EXCEPT ![c] = "approve"]
                               /\ UNCHANGED cut
        BY <2>3 DEF HttpApprove
      <3> QED
        BY <1>5, <3>1 DEF Verdicts
    <2>4. CASE Decide(t)
      <3>1. pc[t] \in Busy
        BY <2>4 DEF Decide, Busy
      <3>2. PICK v \in Verdicts : verdict' = [verdict EXCEPT ![Head(todo[t])] = v]
        BY <2>4 DEF Decide, Verdicts
      <3>3. approved' \subseteq approved \union {Head(todo[t])} /\ UNCHANGED cut
        BY <2>4 DEF Decide
      <3> QED
        BY <1>4, <1>5, <3>1, <3>2, <3>3
    <2>5. CASE Prompt(t)
      <3>1. PICK v \in Verdicts : verdict' = [verdict EXCEPT ![Head(todo[t])] = v]
        BY <2>5 DEF Prompt, Verdicts
      <3>2. approved' \subseteq approved /\ UNCHANGED cut
        BY <2>5 DEF Prompt
      <3> QED
        BY <1>5, <3>1, <3>2
    <2>6. CASE Cancel(t)
      <3>1. UNCHANGED <<approved, verdict>> /\ (cut' = cut \/ pc[t] \in Busy)
        BY <2>6 DEF Cancel, Busy
      <3>2. cut' \subseteq cut \union {Head(todo[t])}
        BY <2>6 DEF Cancel
      <3> QED
        BY <1>4, <1>5, <3>1, <3>2
    <2>7. CASE ~(StartTool(t) \/ NeedApproval(t) \/ HttpApprove(t) \/ Decide(t) \/ Prompt(t) \/ Cancel(t))
      <3>1. UNCHANGED <<approved, cut, verdict>>
        BY <2>7 DEF Enter, Fresh, Clear, Begin, FlushCheck, Flush, CompactCheck, Compact, RespondText,
                    RespondCalls, RespondError, StreamEnds, FinishTool, Resume, tools, consent
      <3> QED
        BY <1>5, <3>1
    <2> QED
      BY <2>1, <2>2, <2>3, <2>4, <2>5, <2>6, <2>7
  <1>7. caller' \in Callers /\ gated' \in SUBSET Calls
    BY <1>1 DEF Values
  <1> QED
    BY <1>2, <1>3, <1>6, <1>7 DEF Values

\* What the later invariants build on.
BaseInv == ConsentInv /\ FlushInv /\ Lists /\ Values

LEMMA BaseStarts == Init => BaseInv
  <1> SUFFICES ASSUME Init PROVE BaseInv
    OBVIOUS
  <1>1. Lists
    <2>1. <<>> \in Seq(Message) /\ <<>> \in Seq(Calls)
      BY EmptySeq
    <2>2. 0 \in 0..MaxCalls
      BY LimitsAssumption
    <2> QED
      BY <2>1, <2>2 DEF Init, Lists, Busy
  <1>2. Values
    BY DEF Init, Values, Phases, Verdicts
  <1> QED
    BY <1>1, <1>2, ConsentStarts, FlushStarts DEF BaseInv

LEMMA BaseInductive == BaseInv /\ [Next]_(vars) => BaseInv'
  <1> SUFFICES ASSUME BaseInv, [Next]_(vars) PROVE BaseInv'
    OBVIOUS
  <1>1. ConsentInv /\ FlushInv /\ Lists /\ Values
    BY DEF BaseInv
  <1>2. ConsentInv' /\ FlushInv'
    BY <1>1, ConsentInductive, FlushInductive
  <1>3. CASE UNCHANGED vars
    <2>1. Lists'
      BY <1>1, <1>3 DEF Lists, vars
    <2>2. Values'
      BY <1>1, <1>3 DEF Values, vars
    <2> QED
      BY <1>2, <2>1, <2>2 DEF BaseInv
  <1>4. CASE Next
    <2>1. PICK t \in Turns :
           \/ Enter(t) \/ Fresh(t) \/ Clear(t) \/ Begin(t)
           \/ FlushCheck(t) \/ Flush(t)
           \/ CompactCheck(t) \/ Compact(t)
           \/ RespondText(t) \/ RespondCalls(t) \/ RespondError(t) \/ StreamEnds(t)
           \/ StartTool(t) \/ NeedApproval(t) \/ FinishTool(t)
           \/ Decide(t) \/ Prompt(t) \/ HttpApprove(t) \/ Resume(t) \/ Cancel(t)
      BY <1>4 DEF Next
    <2>2. Lists'
      BY <1>1, <2>1, ListsNext
    <2>3. Values'
      BY <1>1, <2>1, <2>2, ValuesNext
    <2> QED
      BY <1>2, <2>2, <2>3 DEF BaseInv
  <1> QED
    BY <1>3, <1>4

\* Every variable keeps its type, and in particular no turn looks for the next of
\* its calls when it has none left.
THEOREM ToolTurnsTypes == Spec => []TypeOK
  <1>1. BaseInv => TypeOK
    BY DEF BaseInv, ConsentInv, FlushInv, Lists, Values, TypeOK, Message, Places, Phases, Verdicts
  <1> QED
    BY <1>1, BaseStarts, BaseInductive, PTL DEF Spec

-----------------------------------------------------------------------------
(* Calls and results of a caller that has the session to itself.           *)

\* s is what is left of the calls of the last message with calls: all but the first
\* n, and those are the ones with results.
Holding(h, s) ==
    \E m, n : /\ LastCalls(h, m) /\ n \in Nat /\ n < Len(h[m].calls) /\ DoneUpTo(h, m, n)
              /\ s = SubSeq(h[m].calls, n + 1, Len(h[m].calls))

Running(c) == \E t \in Turns : pc[t] = "tool" /\ Head(todo[t]) = c

\* A call whose execution was not dropped ran at most once, and if it ran, it is
\* running or has its result.
RanOnce ==
    \A c \in Calls : c \notin cut /\ runs[c] # 0 =>
        runs[c] = 1 /\ c <= used /\ (Running(c) \/ Closed(hist, c))

SessionInv ==
    caller # "ingress" =>
        /\ HistOK(hist, used)
        /\ \A t \in Turns : pc[t] \in Busy => Holding(hist, todo[t])
        /\ RanOnce

LEMMA SessionStarts == Init => SessionInv
  <1> SUFFICES ASSUME Init PROVE SessionInv
    OBVIOUS
  <1>1. hist = <<>> /\ \A t \in Turns : pc[t] = "idle"
    BY DEF Init
  <1>2. \A c \in Calls : runs[c] = 0
    BY DEF Init
  <1> QED
    BY <1>1, <1>2, HistEmpty DEF SessionInv, Busy, RanOnce

\* Where a turn stands that has something held: what it looks at is open.
LEMMA HoldingFacts ==
    ASSUME NEW h \in Seq(Message), NEW s, Holding(h, s)
    PROVE  \E m, n : /\ LastCalls(h, m) /\ n \in Nat /\ n < Len(h[m].calls) /\ DoneUpTo(h, m, n)
                     /\ s = SubSeq(h[m].calls, n + 1, Len(h[m].calls))
                     /\ n + 1 \in DOMAIN h[m].calls /\ Head(s) = h[m].calls[n + 1]
                     /\ Tail(s) = SubSeq(h[m].calls, n + 1 + 1, Len(h[m].calls))
                     /\ Len(s) = Len(h[m].calls) - n /\ Len(h[m].calls) \in Nat
                     /\ ~ Closed(h, Head(s))
  <1>1. PICK m, n : /\ LastCalls(h, m) /\ n \in Nat /\ n < Len(h[m].calls) /\ DoneUpTo(h, m, n)
                    /\ s = SubSeq(h[m].calls, n + 1, Len(h[m].calls))
    BY DEF Holding
  <1>2. m \in DOMAIN h /\ h[m].kind = "calls"
    BY <1>1 DEF LastCalls
  <1>3. PICK w : w = h[m].calls
    OBVIOUS
  <1>4. /\ w \in Seq(Calls) /\ Len(w) \in Nat /\ DOMAIN w = 1..Len(w)
        /\ \A k \in 1..Len(w) : w[k] \in Calls
    BY <1>2, <1>3, IdsAreNumbers
  <1>5. n + 1 \in 1..Len(w) /\ Len(w) \in (n + 1)..Len(w)
    BY <1>1, <1>3, <1>4
  <1>6. Head(s) = w[n + 1] /\ Tail(s) = SubSeq(w, n + 1 + 1, Len(w))
    BY <1>1, <1>3, <1>4, <1>5, HeadTailOfSubSeq
  <1>7. Len(s) = Len(w) - n
    <2>1. \A i \in (n + 1)..Len(w) : w[i] \in Calls
      BY <1>4, <1>5
    <2>2. n + 1 \in Int /\ Len(w) \in Int
      BY <1>1, <1>4
    <2>3. Len(SubSeq(w, n + 1, Len(w))) = IF n + 1 <= Len(w) THEN Len(w) - (n + 1) + 1 ELSE 0
      BY <2>1, <2>2, SubSeqProperties
    <2>4. Len(s) = IF n + 1 <= Len(w) THEN Len(w) - (n + 1) + 1 ELSE 0
      BY <1>1, <1>3, <2>3
    <2>5. n \in Nat /\ Len(w) \in Nat
      BY <1>1, <1>4
    <2>6. n + 1 <= Len(w)
      BY <1>5, <2>5
    <2>7. Len(s) = Len(w) - (n + 1) + 1
      BY <2>4, <2>6
    <2> QED
      BY <2>5, <2>7
  <1>8. ~ Closed(h, Head(s))
    <2>1. ~ HasResult(h, m, w[n + 1])
      <3>1. HasResult(h, m, h[m].calls[n + 1]) <=> n + 1 <= n
        BY <1>1, <1>3, <1>4, <1>5 DEF DoneUpTo
      <3> QED
        BY <1>1, <1>3, <3>1
    <2> QED
      BY <1>2, <1>3, <1>4, <1>5, <1>6, <2>1 DEF Closed
  <1> QED
    BY <1>1, <1>3, <1>4, <1>5, <1>6, <1>7, <1>8

\* Nobody is among calls, before the step or after it.
LEMMA SessionQuiet ==
    ASSUME SessionInv, caller # "ingress", UNCHANGED <<caller, used, runs, cut>>,
           \A u \in Turns : pc[u] \notin Busy, \A u \in Turns : pc'[u] \notin Busy,
           HistOK(hist', used), \A c : Closed(hist, c) => Closed(hist', c)
    PROVE  SessionInv'
  <1>1. RanOnce
    BY DEF SessionInv
  <1>2. \A c : ~ Running(c)
    BY DEF Running, Busy
  <1>3. RanOnce'
    BY <1>1, <1>2 DEF RanOnce
  <1> QED
    BY <1>3 DEF SessionInv

\* A turn that is not among calls is the only one there is.
LEMMA NobodyBusy ==
    ASSUME NEW t \in Turns, NEW s, FlushInv, caller # "ingress", pc' = [pc EXCEPT ![t] = s],
           pc[t] \notin Busy, s \notin Busy, InTurn(t) \/ \A u \in Turns : ~InTurn(u)
    PROVE  /\ \A u \in Turns : pc[u] \notin Busy
           /\ \A u \in Turns : pc'[u] \notin Busy
  <1>1. \A u \in Turns : pc[u] \in Busy => InTurn(u)
    BY DEF Busy, InTurn
  <1>2. \A u \in Turns : pc[u] \notin Busy
    BY <1>1 DEF FlushInv, Alone
  <1>3. \A u \in Turns : pc'[u] = IF u = t THEN s ELSE pc[u]
    BY DEF FlushInv
  <1> QED
    BY <1>2, <1>3

LEMMA SessionQuietSteps ==
    ASSUME NEW t \in Turns, BaseInv, SessionInv, caller # "ingress",
           \/ Enter(t) \/ Fresh(t) \/ Clear(t) \/ Begin(t) \/ FlushCheck(t) \/ Flush(t)
           \/ CompactCheck(t) \/ Compact(t) \/ RespondText(t) \/ RespondError(t)
           \/ StreamEnds(t) \/ HttpApprove(t)
    PROVE  SessionInv'
  <1>1. FlushInv /\ HistOK(hist, used) /\ hist \in Seq(Message) /\ used \in Nat /\ used \in 0..MaxCalls
    BY DEF BaseInv, SessionInv, Lists
  <1>2. UNCHANGED <<caller, used, runs, cut>>
    BY DEF Enter, Fresh, Clear, Begin, FlushCheck, Flush, CompactCheck, Compact, RespondText,
           RespondError, StreamEnds, HttpApprove, tools, consent
  <1>3. PICK s : pc' = [pc EXCEPT ![t] = s] /\ s \notin Busy
    BY ZenonT(60) DEF Enter, Fresh, Clear, Begin, FlushCheck, Flush, CompactCheck, Compact, RespondText,
           RespondError, StreamEnds, HttpApprove, Goto, Busy
  <1>4. pc[t] \notin Busy /\ (InTurn(t) \/ \A u \in Turns : ~InTurn(u))
    <2>1. CASE Enter(t) \/ Clear(t) \/ Begin(t) \/ HttpApprove(t)
      <3>1. MayStart(t)
        BY <2>1 DEF Enter, Clear, Begin, HttpApprove
      <3> QED
        BY <3>1, NobodyElse DEF MayStart, Busy
    <2>2. CASE ~(Enter(t) \/ Clear(t) \/ Begin(t) \/ HttpApprove(t))
      BY <2>2 DEF Fresh, FlushCheck, Flush, CompactCheck, Compact, RespondText,
                  RespondError, StreamEnds, InTurn, Busy
    <2> QED
      BY <2>1, <2>2
  <1>5. /\ \A u \in Turns : pc[u] \notin Busy
        /\ \A u \in Turns : pc'[u] \notin Busy
    BY <1>1, <1>3, <1>4, NobodyBusy
  <1>6. HistOK(hist', used) /\ \A c : Closed(hist, c) => Closed(hist', c)
    <2>1. \/ hist' = hist \/ hist' = <<>>
          \/ \E k \in {"user", "text"} : hist' = Append(hist, Msg(k, <<>>))
          \/ hist' = Truncated
          \/ hist' = Compacted /\ Len(hist) >= KeepCount
      BY DEF Enter, Fresh, Clear, Begin, FlushCheck, Flush, CompactCheck, Compact, RespondText,
             RespondError, StreamEnds, HttpApprove, NewSession, AddMessage, session
    <2>2. CASE hist' = hist
      BY <1>1, <2>2
    <2>3. CASE hist' = <<>>
      BY <2>3, HistEmpty
    <2>4. CASE \E k \in {"user", "text"} : hist' = Append(hist, Msg(k, <<>>))
      <3>1. PICK k \in {"user", "text"} : hist' = Append(hist, Msg(k, <<>>))
        BY <2>4
      <3>2. PICK m : m = Msg(k, <<>>)
        OBVIOUS
      <3>3. m \in Message /\ m.kind \in {"user", "text"} /\ m.calls = <<>>
        BY <3>2, EmptySeq DEF Msg, Message, Kinds
      <3>4. Extends(hist', hist, m)
        BY <1>1, <3>1, <3>2, <3>3, AppendExtends
      <3> QED
        BY <1>1, <3>3, <3>4, PlainAppended
    <2>5. CASE hist' = Truncated
      <3>1. PICK q, e : CutOf(Truncated, hist, q, e)
        BY <1>1, TruncatedCuts
      <3> QED
        BY <1>1, <2>5, <3>1, CutKeeps
    <2>6. CASE hist' = Compacted /\ Len(hist) >= KeepCount
      <3>1. CutOf(Compacted, hist, 1, Len(hist) - KeepCount)
        BY <1>1, <2>6, CompactedCuts
      <3> QED
        BY <1>1, <2>6, <3>1, CutKeeps
    <2> QED
      BY <2>1, <2>2, <2>3, <2>4, <2>5, <2>6
  <1> QED
    BY <1>2, <1>5, <1>6, SessionQuiet

\* The only turn there is moves on.
LEMMA OneMoves ==
    ASSUME NEW t \in Turns, NEW s, FlushInv, caller # "ingress", pc' = [pc EXCEPT ![t] = s],
           InTurn(t)
    PROVE  /\ pc'[t] = s
           /\ \A u \in Turns : u # t => pc'[u] = pc[u] /\ pc'[u] \notin Busy /\ pc[u] \notin Busy
  <1>1. \A u \in Turns : u # t => ~InTurn(u)
    BY DEF FlushInv, Alone
  <1>2. \A u \in Turns : pc'[u] = IF u = t THEN s ELSE pc[u]
    BY DEF FlushInv
  <1> QED
    BY <1>1, <1>2 DEF InTurn, Busy

\* RespondCalls: the turn holds all it has recorded.
LEMMA SessionCalls ==
    ASSUME NEW t \in Turns, BaseInv, SessionInv, caller # "ingress", RespondCalls(t)
    PROVE  SessionInv'
  <1>1. FlushInv /\ HistOK(hist, used) /\ hist \in Seq(Message) /\ used \in 0..MaxCalls /\ used \in Nat
    BY DEF BaseInv, SessionInv, Lists
  <1>2. PICK n \in 1..2 :
            /\ used + n <= MaxCalls /\ used' = used + n
            /\ AddMessage("calls", [i \in 1..n |-> used + i])
            /\ todo' = [todo EXCEPT ![t] = [i \in 1..n |-> used + i]]
    BY DEF RespondCalls
  <1>3. PICK s : s = [i \in 1..n |-> used + i]
    OBVIOUS
  <1>4. /\ s \in Seq(Calls) /\ s # <<>> /\ Len(s) = n /\ DOMAIN s = 1..n
        /\ \A k \in DOMAIN s : used < s[k] /\ s[k] <= used + n
        /\ \A k, l \in DOMAIN s : k < l => s[k] < s[l]
    BY <1>1, <1>2, <1>3, FreshCalls
  <1>5. PICK m : m = Msg("calls", s)
    OBVIOUS
  <1>6. m \in Message /\ m.kind = "calls" /\ m.calls = s
    BY <1>4, <1>5 DEF Msg, Message, Kinds
  <1>7. hist' = Append(hist, m)
    BY <1>2, <1>3, <1>5 DEF AddMessage
  <1>8. Extends(hist', hist, m)
    BY <1>1, <1>6, <1>7, AppendExtends
  <1>9. used' \in Nat /\ used <= used'
    BY <1>1, <1>2
  <1>10. /\ \A k \in DOMAIN m.calls : used < m.calls[k] /\ m.calls[k] <= used'
         /\ \A k, l \in DOMAIN m.calls : k < l => m.calls[k] < m.calls[l]
    BY <1>2, <1>4, <1>6
  <1>11. /\ HistOK(hist', used')
         /\ LastCalls(hist', Len(hist) + 1) /\ DoneUpTo(hist', Len(hist) + 1, 0)
         /\ \A c : Closed(hist, c) /\ c \in Calls /\ c <= used => Closed(hist', c)
    BY <1>1, <1>6, <1>8, <1>9, <1>10, CallsAppended
  <1>12. pc[t] = "llm" /\ pc' = [pc EXCEPT ![t] = "calls"] /\ UNCHANGED <<caller, runs, cut>>
    BY DEF RespondCalls, Goto, consent
  <1>13. pc'[t] = "calls" /\ \A u \in Turns : u # t => pc'[u] \notin Busy /\ pc[u] \notin Busy
    BY <1>1, <1>12, OneMoves DEF InTurn
  <1>14. todo'[t] = s
    BY <1>2, <1>3 DEF BaseInv, Lists
  <1>15. Holding(hist', s)
    <2>1. PICK p : p = Len(hist) + 1
      OBVIOUS
    <2>2. hist'[p] = m
      BY <1>8, <2>1 DEF Extends
    <2>3. SubSeq(s, 1, Len(s)) = s
      BY <1>4, SubSeqFull
    <2>4. s = SubSeq(hist'[p].calls, 0 + 1, Len(hist'[p].calls))
      BY <1>6, <2>2, <2>3
    <2>5. 0 \in Nat /\ 0 < Len(hist'[p].calls)
      BY <1>4, <1>6, <2>2
    <2> QED
      BY <1>11, <2>1, <2>4, <2>5 DEF Holding
  <1>16. \A u \in Turns : pc'[u] \in Busy => Holding(hist', todo'[u])
    BY <1>13, <1>14, <1>15
  <1>17. RanOnce'
    <2> SUFFICES ASSUME NEW c \in Calls, c \notin cut, runs[c] # 0
                 PROVE  runs[c] = 1 /\ c <= used' /\ Closed(hist', c)
      BY <1>12 DEF RanOnce
    <2>1. ~ Running(c)
      BY <1>12, <1>13 DEF Running, Busy
    <2>2. runs[c] = 1 /\ c <= used /\ Closed(hist, c)
      BY <2>1 DEF SessionInv, RanOnce
    <2>3. c <= used'
      BY <1>1, <1>9, <2>2 DEF Calls
    <2> QED
      BY <1>11, <2>2, <2>3
  <1> QED
    BY <1>11, <1>16, <1>17 DEF SessionInv

\* StartTool: a call that is open has not run, unless its execution was dropped.
LEMMA SessionStart ==
    ASSUME NEW t \in Turns, BaseInv, SessionInv, caller # "ingress", StartTool(t)
    PROVE  SessionInv'
  <1>1. FlushInv /\ Lists /\ HistOK(hist, used) /\ hist \in Seq(Message) /\ runs \in [Calls -> Nat]
    BY DEF BaseInv, SessionInv, Lists, ConsentInv
  <1>2. /\ pc[t] = "calls" /\ pc' = [pc EXCEPT ![t] = "tool"]
        /\ runs' = [runs EXCEPT ![Head(todo[t])] = @ + 1]
        /\ UNCHANGED <<caller, todo, hist, used, cut>>
    BY DEF StartTool, Goto, session, consent
  <1>3. pc'[t] = "tool" /\ \A u \in Turns : u # t => pc'[u] \notin Busy /\ pc[u] \notin Busy
    BY <1>1, <1>2, OneMoves DEF InTurn
  <1>4. Holding(hist, todo[t])
    BY <1>2 DEF SessionInv, Busy
  <1>5. PICK d \in Calls : d = Head(todo[t])
    BY <1>1, <1>2, FirstCall DEF Busy
  <1>6. PICK m, n : /\ LastCalls(hist, m) /\ n + 1 \in DOMAIN hist[m].calls
                    /\ Head(todo[t]) = hist[m].calls[n + 1] /\ ~ Closed(hist, Head(todo[t]))
    BY <1>1, <1>4, HoldingFacts
  <1>7. d <= used
    BY <1>1, <1>5, <1>6 DEF HistOK, Shapes, LastCalls
  <1>8. \A c : ~ Running(c)
    BY <1>2, <1>3 DEF Running, Busy
  <1>9. \A u \in Turns : pc'[u] \in Busy => Holding(hist', todo'[u])
    BY <1>2, <1>3, <1>4
  <1>10. ASSUME NEW c \in Calls, c \notin cut, runs'[c] # 0
         PROVE  runs'[c] = 1 /\ c <= used /\ (Running(c)' \/ Closed(hist', c))
    <2>1. CASE c = d
      <3>1. runs[c] = 0
        BY <1>5, <1>6, <1>8, <1>10, <2>1 DEF SessionInv, RanOnce
      <3>2. runs'[c] = runs[c] + 1
        BY <1>1, <1>2, <1>5, <2>1
      <3>3. Running(c)'
        BY <1>2, <1>3, <1>5, <2>1 DEF Running
      <3> QED
        BY <1>7, <2>1, <3>1, <3>2, <3>3
    <2>2. CASE c # d
      <3>1. runs'[c] = runs[c]
        BY <1>1, <1>2, <1>5, <2>2
      <3>2. runs[c] = 1 /\ c <= used /\ Closed(hist, c)
        BY <1>8, <1>10, <3>1 DEF SessionInv, RanOnce
      <3> QED
        BY <1>2, <3>1, <3>2
    <2> QED
      BY <2>1, <2>2
  <1>11. RanOnce'
    BY <1>2, <1>10 DEF RanOnce
  <1> QED
    BY <1>1, <1>2, <1>9, <1>11 DEF SessionInv

LEMMA SessionAsk ==
    ASSUME NEW t \in Turns, BaseInv, SessionInv, caller # "ingress", NeedApproval(t)
    PROVE  SessionInv'
  <1>1. FlushInv
    BY DEF BaseInv
  <1>2. pc[t] = "calls" /\ UNCHANGED <<caller, todo, hist, used, cut, runs>>
    BY DEF NeedApproval, session
  <1>3. PICK s \in {"approval", "done"} : pc' = [pc EXCEPT ![t] = s]
    BY DEF NeedApproval, Goto
  <1>4. pc'[t] = s /\ \A u \in Turns : u # t => pc'[u] \notin Busy /\ pc[u] \notin Busy
    BY <1>1, <1>2, <1>3, OneMoves DEF InTurn
  <1>5. \A c : ~ Running(c)
    BY <1>2, <1>4 DEF Running, Busy
  <1>6. RanOnce
    BY DEF SessionInv
  <1>7. RanOnce'
    BY <1>2, <1>5, <1>6 DEF RanOnce
  <1>8. Holding(hist, todo[t])
    BY <1>2 DEF SessionInv, Busy
  <1>9. \A u \in Turns : pc'[u] \in Busy => Holding(hist', todo'[u])
    BY <1>2, <1>4, <1>8
  <1> QED
    BY <1>2, <1>7, <1>9 DEF SessionInv

\* The result of the first call a turn holds is recorded.
LEMMA ResultRecorded ==
    ASSUME NEW t \in Turns, BaseInv, SessionInv, caller # "ingress", pc[t] \in Busy,
           hist' = Append(hist, Msg("result", <<Head(todo[t])>>))
    PROVE  /\ HistOK(hist', used)
           /\ \A c : Closed(hist, c) => Closed(hist', c)
           /\ Closed(hist', Head(todo[t])) /\ ~ Closed(hist, Head(todo[t]))
           /\ Head(todo[t]) \in Calls /\ Head(todo[t]) <= used
           /\ Len(todo[t]) # 1 => Holding(hist', Tail(todo[t]))
  <1>1. /\ FlushInv /\ Lists /\ HistOK(hist, used) /\ hist \in Seq(Message) /\ used \in Nat
    BY DEF BaseInv, SessionInv, Lists
  <1>2. Holding(hist, todo[t])
    BY DEF SessionInv
  <1>3. PICK d \in Calls : d = Head(todo[t])
    BY <1>1, FirstCall
  <1>4. PICK p, n : /\ LastCalls(hist, p) /\ n \in Nat /\ n < Len(hist[p].calls)
                    /\ DoneUpTo(hist, p, n)
                    /\ n + 1 \in DOMAIN hist[p].calls /\ Head(todo[t]) = hist[p].calls[n + 1]
                    /\ Tail(todo[t]) = SubSeq(hist[p].calls, n + 1 + 1, Len(hist[p].calls))
                    /\ Len(todo[t]) = Len(hist[p].calls) - n /\ Len(hist[p].calls) \in Nat
                    /\ ~ Closed(hist, Head(todo[t]))
    BY <1>1, <1>2, HoldingFacts
  <1>5. PICK m : m = Msg("result", <<d>>)
    OBVIOUS
  <1>6. m \in Message /\ m.kind = "result" /\ m.calls = <<hist[p].calls[n + 1]>>
    <2>1. <<d>> \in Seq(Calls)
      OBVIOUS
    <2> QED
      BY <1>3, <1>4, <1>5, <2>1 DEF Msg, Message, Kinds
  <1>7. Extends(hist', hist, m)
    BY <1>1, <1>3, <1>5, <1>6, AppendExtends
  <1>8. /\ HistOK(hist', used)
        /\ LastCalls(hist', p) /\ hist'[p] = hist[p] /\ DoneUpTo(hist', p, n + 1)
        /\ \A c : Closed(hist, c) => Closed(hist', c)
        /\ Closed(hist', hist[p].calls[n + 1])
    <2>1. PICK g, u : g = hist' /\ u = used /\ u \in Nat
      BY <1>1
    <2>2. Extends(g, hist, m) /\ HistOK(hist, u)
      BY <1>1, <1>7, <2>1
    <2>3. /\ LastCalls(hist, p) /\ DoneUpTo(hist, p, n) /\ n < Len(hist[p].calls) /\ n \in Nat
      BY <1>4
    <2>4. m.kind = "result" /\ m.calls = <<hist[p].calls[n + 1]>>
      BY <1>6
    <2>5. /\ HistOK(g, u)
          /\ LastCalls(g, p) /\ g[p] = hist[p] /\ DoneUpTo(g, p, n + 1)
          /\ \A c : Closed(hist, c) => Closed(g, c)
          /\ Closed(g, hist[p].calls[n + 1])
      <3>1. u \in Nat
        BY <2>1
      <3>2. n \in Nat /\ n < Len(hist[p].calls)
        BY <2>3
      <3> QED
        BY <2>2, <2>3, <2>4, <3>1, <3>2, ResultAppended, ZenonT(60)
    <2> QED
      BY <2>1, <2>5, Zenon
  <1>9. d <= used
    BY <1>1, <1>3, <1>4 DEF HistOK, Shapes, LastCalls
  <1>10. ASSUME Len(todo[t]) # 1 PROVE Holding(hist', Tail(todo[t]))
    <2>1. PICK l, k : l = Len(hist[p].calls) /\ k = Len(todo[t])
      OBVIOUS
    <2>2. l \in Nat /\ n \in Nat /\ n < l /\ k = l - n /\ k # 1
      BY <1>4, <1>10, <2>1
    <2>3. n + 1 \in Nat /\ n + 1 < l
      BY <2>2
    <2>4. Tail(todo[t]) = SubSeq(hist'[p].calls, n + 1 + 1, Len(hist'[p].calls))
      BY <1>4, <1>8
    <2> QED
      BY <1>8, <2>1, <2>3, <2>4 DEF Holding
  <1> QED
    BY <1>3, <1>4, <1>8, <1>9, <1>10

LEMMA SessionFinish ==
    ASSUME NEW t \in Turns, BaseInv, SessionInv, caller # "ingress", FinishTool(t)
    PROVE  SessionInv'
  <1>1. FlushInv /\ todo \in [Turns -> Seq(Calls)]
    BY DEF BaseInv, Lists
  <1>2. /\ pc[t] = "tool" /\ UNCHANGED <<caller, used, runs, cut>>
        /\ hist' = Append(hist, Msg("result", <<Head(todo[t])>>))
        /\ todo' = [todo EXCEPT ![t] = Tail(todo[t])]
        /\ pc' = [pc EXCEPT ![t] = IF Len(todo[t]) = 1 THEN "llm" ELSE "calls"]
    BY DEF FinishTool, AddMessage, Goto, tools, consent
  <1>3. /\ HistOK(hist', used)
        /\ \A c : Closed(hist, c) => Closed(hist', c)
        /\ Closed(hist', Head(todo[t]))
        /\ Len(todo[t]) # 1 => Holding(hist', Tail(todo[t]))
    BY <1>2, ResultRecorded DEF Busy
  <1>4. PICK s : s = (IF Len(todo[t]) = 1 THEN "llm" ELSE "calls")
    OBVIOUS
  <1>5. pc'[t] = s /\ \A u \in Turns : u # t => pc'[u] \notin Busy /\ pc[u] \notin Busy
    BY <1>1, <1>2, <1>4, OneMoves DEF InTurn
  <1>6. todo'[t] = Tail(todo[t])
    BY <1>1, <1>2
  <1>7. \A u \in Turns : pc'[u] \in Busy => Holding(hist', todo'[u])
    BY <1>3, <1>4, <1>5, <1>6 DEF Busy
  <1>8. \A c : Running(c) => c = Head(todo[t])
    BY <1>5 DEF Running, Busy
  <1>9. RanOnce'
    <2> SUFFICES ASSUME NEW c \in Calls, c \notin cut, runs[c] # 0
                 PROVE  runs[c] = 1 /\ c <= used /\ Closed(hist', c)
      BY <1>2 DEF RanOnce
    <2>1. runs[c] = 1 /\ c <= used /\ (Running(c) \/ Closed(hist, c))
      BY DEF SessionInv, RanOnce
    <2> QED
      BY <1>3, <1>8, <2>1
  <1> QED
    BY <1>2, <1>3, <1>7, <1>9 DEF SessionInv

\* The CLI's prompt answers the call, whether it runs or not, and lets the rest go.
LEMMA SessionPrompt ==
    ASSUME NEW t \in Turns, BaseInv, SessionInv, caller # "ingress", Prompt(t)
    PROVE  SessionInv'
  <1>1. FlushInv /\ todo \in [Turns -> Seq(Calls)] /\ runs \in [Calls -> Nat]
    BY DEF BaseInv, Lists, ConsentInv
  <1>2. /\ pc[t] = "approval" /\ UNCHANGED <<caller, used, cut>>
        /\ hist' = Append(hist, Msg("result", <<Head(todo[t])>>))
        /\ pc' = [pc EXCEPT ![t] = "llm"]
    BY DEF Prompt, AddMessage, Goto
  <1>3. /\ HistOK(hist', used)
        /\ \A c : Closed(hist, c) => Closed(hist', c)
        /\ Closed(hist', Head(todo[t])) /\ ~ Closed(hist, Head(todo[t]))
        /\ Head(todo[t]) \in Calls /\ Head(todo[t]) <= used
    BY <1>2, ResultRecorded DEF Busy
  <1>4. pc'[t] = "llm" /\ \A u \in Turns : u # t => pc'[u] \notin Busy /\ pc[u] \notin Busy
    BY <1>1, <1>2, OneMoves DEF InTurn
  <1>5. \A u \in Turns : pc'[u] \notin Busy
    BY <1>4 DEF Busy
  <1>6. \A c : ~ Running(c)
    BY <1>2, <1>4 DEF Running, Busy
  <1>7. PICK d : d = Head(todo[t])
    OBVIOUS
  <1>8. \/ runs' = runs
        \/ runs' = [runs EXCEPT ![d] = IF d \in approved THEN @ + 1 ELSE @]
    BY <1>7 DEF Prompt
  <1>9. \A c \in Calls : c # d => runs'[c] = runs[c]
    BY <1>1, <1>8
  <1>10. runs'[d] = runs[d] \/ runs'[d] = runs[d] + 1
    BY <1>1, <1>3, <1>7, <1>8
  <1>11. RanOnce'
    <2> SUFFICES ASSUME NEW c \in Calls, c \notin cut, runs'[c] # 0
                 PROVE  runs'[c] = 1 /\ c <= used /\ Closed(hist', c)
      BY <1>2 DEF RanOnce
    <2>1. runs[c] = 0 \/ (runs[c] = 1 /\ c <= used /\ Closed(hist, c))
      BY <1>6 DEF SessionInv, RanOnce
    <2>2. CASE c = d
      <3>1. runs[c] = 0
        BY <1>3, <1>7, <2>1, <2>2
      <3>2. runs'[c] = 1
        BY <1>10, <2>2, <3>1
      <3> QED
        BY <1>3, <1>7, <2>2, <3>2
    <2>3. CASE c # d
      BY <1>3, <1>9, <2>1, <2>3
    <2> QED
      BY <2>2, <2>3
  <1> QED
    BY <1>2, <1>3, <1>5, <1>11 DEF SessionInv

LEMMA SessionCancel ==
    ASSUME NEW t \in Turns, BaseInv, SessionInv, caller # "ingress", Cancel(t)
    PROVE  SessionInv'
  <1>1. FlushInv
    BY DEF BaseInv
  <1>2. /\ InTurn(t) /\ pc' = [pc EXCEPT ![t] = "done"] /\ UNCHANGED <<caller, hist, used, runs>>
        /\ cut' = IF pc[t] = "tool" THEN cut \union {Head(todo[t])} ELSE cut
    BY DEF Cancel, Goto, session, InTurn
  <1>3. pc'[t] = "done" /\ \A u \in Turns : u # t => pc'[u] \notin Busy /\ pc[u] \notin Busy
    BY <1>1, <1>2, OneMoves
  <1>4. \A u \in Turns : pc'[u] \notin Busy
    BY <1>3 DEF Busy
  <1>5. \A c : Running(c) => c \in cut'
    BY <1>2, <1>3 DEF Running, Busy
  <1>6. cut \subseteq cut'
    BY <1>2
  <1>7. RanOnce
    BY DEF SessionInv
  <1>8. RanOnce'
    BY <1>2, <1>5, <1>6, <1>7 DEF RanOnce
  <1> QED
    BY <1>2, <1>4, <1>8 DEF SessionInv

LEMMA AnsweredIs ==
    ASSUME hist \in Seq(Message), NEW i \in DOMAIN hist, NEW c
    PROVE  c \in AnsweredAfter(i) <=> HasResult(hist, i, c)
  <1>1. DOMAIN hist = 1..Len(hist) /\ Len(hist) \in Nat
    BY LenProperties
  <1>2. \A j : j \in i+1..Len(hist) <=> j \in DOMAIN hist /\ i < j
    BY <1>1
  <1> QED
    BY <1>2 DEF AnsweredAfter, HasResult

\* What continue_chat() finds open is what the message has left.
LEMMA OpenIsRest ==
    ASSUME NEW u, HistOK(hist, u), NEW p, LastCalls(hist, p), OpenCalls(p) # <<>>
    PROVE  Holding(hist, OpenCalls(p))
  <1>1. hist \in Seq(Message) /\ p \in DOMAIN hist /\ hist[p].kind = "calls" /\ InOrder(hist)
    BY DEF HistOK, LastCalls
  <1>2. PICK w : w = hist[p].calls
    OBVIOUS
  <1>3. /\ w \in Seq(Calls) /\ Len(w) \in Nat /\ DOMAIN w = 1..Len(w)
    BY <1>1, <1>2, IdsAreNumbers
  <1>4. PICK n \in 0..Len(w) : DoneUpTo(hist, p, n)
    BY <1>1, <1>2 DEF InOrder
  <1>5. \A c : c \in AnsweredAfter(p) <=> HasResult(hist, p, c)
    BY <1>1, AnsweredIs
  <1>6. PICK S : S = Range(w) \ AnsweredAfter(p)
    OBVIOUS
  <1>7. \A k \in 1..Len(w) : w[k] \in S <=> n < k /\ k <= Len(w)
    <2> SUFFICES ASSUME NEW k \in 1..Len(w) PROVE w[k] \in S <=> n < k
      BY <1>3
    <2>1. w[k] \in Range(w)
      BY <1>3 DEF Range
    <2>2. HasResult(hist, p, w[k]) <=> k <= n
      BY <1>2, <1>3, <1>4 DEF DoneUpTo
    <2>3. k <= n <=> ~(n < k)
      BY <1>3, <1>4
    <2> QED
      BY <1>5, <1>6, <2>1, <2>2, <2>3
  <1>8. n \in Nat /\ Len(w) \in Nat /\ n <= Len(w) /\ Len(w) <= Len(w)
    BY <1>3, <1>4
  <1>9. Filter(w, S) = SubSeq(w, n + 1, Len(w))
    BY <1>3, <1>7, <1>8, FilterStretch, Zenon
  <1>10. OpenCalls(p) = SubSeq(w, n + 1, Len(w))
    BY <1>2, <1>6, <1>9 DEF OpenCalls
  <1>11. n < Len(w)
    <2>1. CASE n = Len(w)
      <3>1. SubSeq(w, n + 1, Len(w)) = <<>>
        BY <1>8, <2>1, SubSeqEmpty
      <3> QED
        BY <1>10, <3>1
    <2> QED
      BY <1>8, <2>1
  <1> QED
    BY <1>2, <1>4, <1>8, <1>10, <1>11 DEF Holding

LEMMA SessionResume ==
    ASSUME NEW t \in Turns, BaseInv, SessionInv, caller # "ingress", Resume(t)
    PROVE  SessionInv'
  <1>1. FlushInv /\ HistOK(hist, used) /\ hist \in Seq(Message) /\ todo \in [Turns -> Seq(Calls)]
    BY DEF BaseInv, SessionInv, Lists
  <1>2. pc[t] = "resume" /\ UNCHANGED <<caller, hist, used, runs, cut>>
    BY DEF Resume, session, tools, consent
  <1> DEFINE at == {i \in DOMAIN hist : hist[i].kind = "calls"}
             p == CHOOSE i \in at : \A j \in at : j <= i
  <1>3. PICK s : pc' = [pc EXCEPT ![t] = s] /\ s # "tool" /\
                 (s \in Busy => /\ at # {} /\ OpenCalls(p) # <<>>
                                /\ todo' = [todo EXCEPT ![t] = OpenCalls(p)])
    <2>1. CASE at = {}
      <3>1. pc' = [pc EXCEPT ![t] = "done"]
        BY <2>1 DEF Resume, Goto
      <3>2. "done" # "tool" /\ "done" \notin Busy
        BY DEF Busy
      <3> HIDE DEF p, at
      <3> QED
        BY <3>1, <3>2, Zenon
    <2>2. CASE at # {}
      <3>1. /\ todo' = [todo EXCEPT ![t] = OpenCalls(p)]
            /\ pc' = [pc EXCEPT ![t] = IF OpenCalls(p) = <<>> THEN "llm" ELSE "calls"]
        BY <2>2 DEF Resume, Goto
      <3> HIDE DEF p, at
      <3>2. PICK s : s = (IF OpenCalls(p) = <<>> THEN "llm" ELSE "calls")
        OBVIOUS
      <3>3. s # "tool" /\ (s \in Busy => OpenCalls(p) # <<>>) /\ pc' = [pc EXCEPT ![t] = s]
        BY <3>1, <3>2 DEF Busy
      <3> QED
        BY <2>2, <3>1, <3>3, Zenon
    <2> QED
      BY <2>1, <2>2
  <1>4. pc'[t] = s /\ \A u \in Turns : u # t => pc'[u] \notin Busy /\ pc[u] \notin Busy
    BY <1>1, <1>2, <1>3, OneMoves DEF InTurn
  <1>5. ASSUME s \in Busy PROVE Holding(hist', todo'[t])
    <2>1. LastCalls(hist, p)
      BY <1>1, <1>3, <1>5, LastExists
    <2> HIDE DEF p, at
    <2>2. Holding(hist, OpenCalls(p))
      BY <1>1, <1>3, <1>5, <2>1, OpenIsRest
    <2>3. todo'[t] = OpenCalls(p)
      BY <1>1, <1>3, <1>5
    <2> QED
      BY <1>2, <2>2, <2>3
  <1>6. \A u \in Turns : pc'[u] \in Busy => Holding(hist', todo'[u])
    BY <1>4, <1>5
  <1>7. \A c : ~ Running(c)
    BY <1>2, <1>4 DEF Running, Busy
  <1>8. RanOnce
    BY DEF SessionInv
  <1>9. RanOnce'
    BY <1>2, <1>7, <1>8 DEF RanOnce
  <1> QED
    BY <1>1, <1>2, <1>6, <1>9 DEF SessionInv

LEMMA SessionInductive == BaseInv /\ SessionInv /\ [Next]_(vars) => SessionInv'
  <1> SUFFICES ASSUME BaseInv, SessionInv, [Next]_(vars) PROVE SessionInv'
    OBVIOUS
  <1>1. CASE UNCHANGED vars
    <2>1. UNCHANGED <<caller, hist, used, pc, todo, cut, runs>>
      BY <1>1 DEF vars
    <2>2. \A c : Running(c)' <=> Running(c)
      BY <2>1 DEF Running
    <2>3. RanOnce => RanOnce'
      BY <2>1, <2>2 DEF RanOnce
    <2> QED
      BY <2>1, <2>3 DEF SessionInv
  <1>2. CASE Next
    <2>1. PICK t \in Turns :
           \/ Enter(t) \/ Fresh(t) \/ Clear(t) \/ Begin(t)
           \/ FlushCheck(t) \/ Flush(t)
           \/ CompactCheck(t) \/ Compact(t)
           \/ RespondText(t) \/ RespondCalls(t) \/ RespondError(t) \/ StreamEnds(t)
           \/ StartTool(t) \/ NeedApproval(t) \/ FinishTool(t)
           \/ Decide(t) \/ Prompt(t) \/ HttpApprove(t) \/ Resume(t) \/ Cancel(t)
      BY <1>2 DEF Next
    <2>2. CASE caller = "ingress"
      <3>1. UNCHANGED caller
        BY <2>1 DEF Enter, Fresh, Clear, Begin, FlushCheck, Flush, CompactCheck, Compact, RespondText,
           RespondCalls, RespondError, StreamEnds, StartTool, NeedApproval, FinishTool, Decide,
           Prompt, HttpApprove, Resume, Cancel
      <3> QED
        BY <2>2, <3>1 DEF SessionInv
    <2>3. CASE caller # "ingress"
      <3>1. ~ Decide(t)
        BY <2>3 DEF Decide
      <3> QED
        BY <2>1, <2>3, <3>1, SessionQuietSteps, SessionCalls, SessionStart, SessionAsk,
           SessionFinish, SessionPrompt, SessionCancel, SessionResume
    <2> QED
      BY <2>2, <2>3
  <1> QED
    BY <1>1, <1>2

-----------------------------------------------------------------------------
(* Overlapping turns: who may be asked about a call.                       *)

\* Call c is among those that turn t got from the model and not from continue_chat().
Owns(t, c) ==
    pc[t] \in Busy /\ phase[t] # "cont" /\ \E k \in DOMAIN todo[t] : todo[t][k] = c

\* The user is asked about a call by the turn that owns it, and consents to it once.
OwnInv ==
    caller = "ingress" =>
        /\ \A c \in Calls : consents[c] \in {0, 1} /\ (consents[c] # 0 => c <= used)
        /\ \A t \in Turns : pc[t] = "approval" => phase[t] # "cont"
        /\ \A t \in Turns, c \in Calls : Owns(t, c) => c <= used /\ consents[c] = 0
        /\ \A t, u \in Turns, c \in Calls : Owns(t, c) /\ Owns(u, c) => t = u

LEMMA OwnStarts == Init => OwnInv
  <1> SUFFICES ASSUME Init PROVE OwnInv
    OBVIOUS
  <1>1. \A t \in Turns : pc[t] = "idle"
    BY DEF Init
  <1>2. \A c \in Calls : consents[c] = 0
    BY DEF Init
  <1> QED
    BY <1>1, <1>2 DEF OwnInv, Owns, Busy

\* No turn gets a call, and nobody consents.
LEMMA OwnShrinks ==
    ASSUME OwnInv, UNCHANGED <<caller, consents, used>>,
           \A u \in Turns : pc'[u] = "approval" => phase'[u] # "cont" \/ caller # "ingress",
           \A u \in Turns, c \in Calls : Owns(u, c)' => Owns(u, c)
    PROVE  OwnInv'
  <1> SUFFICES ASSUME caller = "ingress" PROVE OwnInv'
    BY DEF OwnInv
  <1> QED
    BY DEF OwnInv

\* A step of a turn that leaves its calls alone.
LEMMA OwnKept ==
    ASSUME NEW t \in Turns, NEW s, BaseInv, OwnInv, pc' = [pc EXCEPT ![t] = s],
           UNCHANGED <<caller, consents, used, todo>>,
           \/ s \in Busy /\ pc[t] \in Busy /\ UNCHANGED phase
           \/ s \notin Busy,
           \A u \in Turns : u # t => phase'[u] = phase[u],
           s = "approval" => phase[t] # "cont" \/ caller # "ingress"
    PROVE  OwnInv'
  <1>1. \A u \in Turns : pc'[u] = IF u = t THEN s ELSE pc[u]
    BY DEF BaseInv, FlushInv
  <1>2. \A u \in Turns, c \in Calls : Owns(u, c)' => Owns(u, c)
    BY <1>1 DEF Owns
  <1>3. "approval" \in Busy
    BY DEF Busy
  <1>4. \A u \in Turns : pc'[u] = "approval" => phase'[u] # "cont" \/ caller # "ingress"
    BY <1>1, <1>3 DEF OwnInv
  <1> QED
    BY <1>2, <1>4, OwnShrinks

LEMMA OwnPlainSteps ==
    ASSUME NEW t \in Turns, BaseInv, OwnInv,
           \/ Enter(t) \/ Fresh(t) \/ Clear(t) \/ Begin(t) \/ FlushCheck(t) \/ Flush(t)
           \/ CompactCheck(t) \/ Compact(t) \/ RespondText(t) \/ RespondError(t)
           \/ StreamEnds(t) \/ StartTool(t) \/ NeedApproval(t)
    PROVE  OwnInv'
  <1>1. UNCHANGED <<caller, consents, used, todo>>
    BY DEF Enter, Fresh, Clear, Begin, FlushCheck, Flush, CompactCheck, Compact, RespondText,
           RespondError, StreamEnds, StartTool, NeedApproval, tools, consent
  <1>2. phase \in [Turns -> Phases]
    BY DEF BaseInv, Values
  <1>3. \A u \in Turns : u # t => phase'[u] = phase[u]
    BY <1>2 DEF Enter, Fresh, Clear, Begin, FlushCheck, Flush, CompactCheck, Compact, RespondText,
           RespondError, StreamEnds, StartTool, NeedApproval
  <1>4. CASE StartTool(t) \/ NeedApproval(t)
    <2>1. PICK s \in {"tool", "approval", "done"} :
              /\ pc' = [pc EXCEPT ![t] = s] /\ pc[t] = "calls" /\ UNCHANGED phase
              /\ s = "approval" => phase[t] # "cont" \/ caller # "ingress"
      BY <1>4 DEF StartTool, NeedApproval, Goto
    <2>2. (s \in Busy /\ pc[t] \in Busy) \/ s \notin Busy
      BY <2>1 DEF Busy
    <2> QED
      BY <1>1, <1>3, <2>1, <2>2, OwnKept
  <1>5. CASE ~(StartTool(t) \/ NeedApproval(t))
    <2>1. PICK s : pc' = [pc EXCEPT ![t] = s] /\ s \notin Busy
      BY <1>5 DEF Enter, Fresh, Clear, Begin, FlushCheck, Flush, CompactCheck, Compact, RespondText,
           RespondError, StreamEnds, Goto, Busy
    <2>2. s # "approval"
      BY <2>1 DEF Busy
    <2> QED
      BY <1>1, <1>3, <2>1, <2>2, OwnKept
  <1> QED
    BY <1>4, <1>5

LEMMA OwnFinish ==
    ASSUME NEW t \in Turns, BaseInv, OwnInv, FinishTool(t)
    PROVE  OwnInv'
  <1>1. FlushInv /\ Lists /\ todo \in [Turns -> Seq(Calls)]
    BY DEF BaseInv, Lists
  <1>2. /\ pc[t] = "tool" /\ UNCHANGED <<caller, consents, used, phase>>
        /\ todo' = [todo EXCEPT ![t] = Tail(todo[t])]
    BY DEF FinishTool, tools, consent
  <1>3. PICK s \in {"llm", "calls"} : pc' = [pc EXCEPT ![t] = s]
    BY DEF FinishTool, Goto
  <1>4. PICK w : w = Tail(todo[t])
    OBVIOUS
  <1>5. \A k \in DOMAIN w : k + 1 \in DOMAIN todo[t] /\ w[k] = todo[t][k + 1]
    <2>1. todo[t] \in Seq(Calls) /\ todo[t] # <<>>
      BY <1>1, <1>2, FirstCall DEF Busy
    <2>2. w \in Seq(Calls) /\ Len(w) = Len(todo[t]) - 1 /\ \A i \in 1..Len(w) : w[i] = todo[t][i + 1]
      BY <1>4, <2>1, HeadTailProperties
    <2>3. DOMAIN w = 1..Len(w) /\ DOMAIN todo[t] = 1..Len(todo[t]) /\ Len(todo[t]) \in Nat
      BY <2>1, <2>2, LenProperties
    <2> QED
      BY <2>2, <2>3
  <1>6. \A u \in Turns : /\ pc'[u] = (IF u = t THEN s ELSE pc[u])
                         /\ todo'[u] = (IF u = t THEN w ELSE todo[u])
    BY <1>1, <1>2, <1>3, <1>4 DEF FlushInv
  <1>7. ASSUME NEW u \in Turns, NEW c \in Calls, Owns(u, c)' PROVE Owns(u, c)
    <2>1. CASE u = t
      <3>1. PICK k \in DOMAIN w : w[k] = c
        BY <1>6, <1>7, <2>1 DEF Owns
      <3>2. k + 1 \in DOMAIN todo[t] /\ todo[t][k + 1] = c
        BY <1>5, <3>1
      <3>3. phase[t] # "cont" /\ pc[t] \in Busy
        BY <1>2, <1>7, <2>1 DEF Owns, Busy
      <3> QED
        BY <2>1, <3>2, <3>3 DEF Owns
    <2>2. CASE u # t
      BY <1>2, <1>6, <1>7, <2>2 DEF Owns
    <2> QED
      BY <2>1, <2>2
  <1>8. \A u \in Turns : pc'[u] = "approval" => phase'[u] # "cont" \/ caller # "ingress"
    BY <1>2, <1>3, <1>6 DEF OwnInv
  <1> QED
    BY <1>2, <1>7, <1>8, OwnShrinks

LEMMA OwnCalls ==
    ASSUME NEW t \in Turns, BaseInv, OwnInv, RespondCalls(t)
    PROVE  OwnInv'
  <1>1. FlushInv /\ used \in 0..MaxCalls /\ used \in Nat /\ todo \in [Turns -> Seq(Calls)]
    BY DEF BaseInv, Lists
  <1>2. PICK n \in 1..2 :
            /\ used + n <= MaxCalls /\ used' = used + n
            /\ todo' = [todo EXCEPT ![t] = [i \in 1..n |-> used + i]]
    BY DEF RespondCalls
  <1>3. PICK s : s = [i \in 1..n |-> used + i]
    OBVIOUS
  <1>4. \A k \in DOMAIN s : used < s[k] /\ s[k] <= used'
    BY <1>1, <1>2, <1>3, FreshCalls
  <1>5. pc' = [pc EXCEPT ![t] = "calls"] /\ UNCHANGED <<caller, consents, phase>>
    BY DEF RespondCalls, Goto, consent
  <1>6. \A u \in Turns : /\ pc'[u] = (IF u = t THEN "calls" ELSE pc[u])
                         /\ todo'[u] = (IF u = t THEN s ELSE todo[u])
    BY <1>1, <1>2, <1>3, <1>5 DEF FlushInv
  <1>7. \A c \in Calls : Owns(t, c)' => used < c /\ c <= used'
    BY <1>4, <1>6 DEF Owns
  <1>8. \A u \in Turns, c \in Calls : u # t /\ Owns(u, c)' => Owns(u, c)
    BY <1>5, <1>6 DEF Owns
  <1>9. \A c \in Calls : c \in Nat /\ (c <= used => c <= used' /\ ~(used < c))
    BY <1>1, <1>2 DEF Calls
  <1> SUFFICES ASSUME caller = "ingress" PROVE OwnInv'
    BY <1>5 DEF OwnInv
  <1>10. /\ \A c \in Calls : consents[c] \in {0, 1} /\ (consents[c] # 0 => c <= used)
         /\ \A u \in Turns : pc[u] = "approval" => phase[u] # "cont"
         /\ \A u \in Turns, c \in Calls : Owns(u, c) => c <= used /\ consents[c] = 0
         /\ \A u, v \in Turns, c \in Calls : Owns(u, c) /\ Owns(v, c) => u = v
    BY DEF OwnInv
  <1>11. \A c \in Calls : consents'[c] \in {0, 1} /\ (consents'[c] # 0 => c <= used')
    BY <1>5, <1>9, <1>10
  <1>12. \A u \in Turns : pc'[u] = "approval" => phase'[u] # "cont"
    BY <1>5, <1>6, <1>10
  <1>13. ASSUME NEW u \in Turns, NEW c \in Calls, Owns(u, c)'
         PROVE  c <= used' /\ consents'[c] = 0
    <2>1. CASE u = t
      BY <1>5, <1>7, <1>9, <1>10, <1>13, <2>1
    <2>2. CASE u # t
      BY <1>5, <1>8, <1>9, <1>10, <1>13, <2>2
    <2> QED
      BY <2>1, <2>2
  <1>14. ASSUME NEW u \in Turns, NEW v \in Turns, NEW c \in Calls, Owns(u, c)', Owns(v, c)'
         PROVE  u = v
    <2>1. CASE u # t /\ v # t
      BY <1>8, <1>10, <1>14, <2>1
    <2>2. CASE u = t /\ v # t
      BY <1>7, <1>8, <1>9, <1>10, <1>14, <2>2
    <2>3. CASE u # t /\ v = t
      BY <1>7, <1>8, <1>9, <1>10, <1>14, <2>3
    <2> QED
      BY <2>1, <2>2, <2>3
  <1> QED
    BY <1>11, <1>12, <1>13, <1>14 DEF OwnInv

LEMMA OwnDecide ==
    ASSUME NEW t \in Turns, BaseInv, OwnInv, Decide(t)
    PROVE  OwnInv'
  <1>1. /\ caller = "ingress" /\ pc[t] = "approval"
        /\ UNCHANGED <<caller, phase, todo, used>>
    BY DEF Decide
  <1>2. PICK s \in {"resume", "done"} : pc' = [pc EXCEPT ![t] = s]
    BY DEF Decide, Goto
  <1>3. s \notin Busy /\ s # "approval"
    BY <1>2 DEF Busy
  <1>4. CASE UNCHANGED consents
    BY <1>1, <1>2, <1>3, <1>4, OwnKept
  <1>5. CASE consents' = [consents EXCEPT ![Head(todo[t])] = @ + 1]
    <2>1. Lists /\ FlushInv /\ consents \in [Calls -> Nat]
      BY DEF BaseInv, ConsentInv
    <2>2. PICK d \in Calls : d = Head(todo[t])
      BY <1>1, <2>1, FirstCall DEF Busy
    <2>3. Owns(t, d)
      <3>1. todo[t] \in Seq(Calls) /\ todo[t] # <<>>
        BY <1>1, <2>1, FirstCall DEF Busy
      <3>2. 1 \in DOMAIN todo[t] /\ todo[t][1] = d
        BY <2>2, <3>1
      <3>3. phase[t] # "cont" /\ pc[t] \in Busy
        BY <1>1 DEF OwnInv, Busy
      <3> QED
        BY <3>2, <3>3 DEF Owns
    <2>4. /\ \A c \in Calls : consents[c] \in {0, 1} /\ (consents[c] # 0 => c <= used)
          /\ \A u \in Turns : pc[u] = "approval" => phase[u] # "cont"
          /\ \A u \in Turns, c \in Calls : Owns(u, c) => c <= used /\ consents[c] = 0
          /\ \A u, v \in Turns, c \in Calls : Owns(u, c) /\ Owns(v, c) => u = v
      BY <1>1 DEF OwnInv
    <2>5. \A c \in Calls : consents'[c] = IF c = d THEN 1 ELSE consents[c]
      BY <1>5, <2>1, <2>2, <2>3, <2>4
    <2>6. \A u \in Turns : pc'[u] = IF u = t THEN s ELSE pc[u]
      BY <1>2, <2>1 DEF FlushInv
    <2>7. \A u \in Turns, c \in Calls : Owns(u, c)' => Owns(u, c) /\ u # t
      BY <1>1, <1>3, <2>6 DEF Owns
    <2>8. \A c \in Calls : consents'[c] \in {0, 1} /\ (consents'[c] # 0 => c <= used')
      BY <1>1, <2>3, <2>4, <2>5
    <2>9. \A u \in Turns : pc'[u] = "approval" => phase'[u] # "cont"
      BY <1>1, <1>3, <2>4, <2>6
    <2>10. ASSUME NEW u \in Turns, NEW c \in Calls, Owns(u, c)'
           PROVE  c <= used' /\ consents'[c] = 0
      <3>1. Owns(u, c) /\ u # t
        BY <2>7, <2>10
      <3>2. c # d
        BY <2>3, <2>4, <3>1
      <3> QED
        BY <1>1, <2>4, <2>5, <3>1, <3>2
    <2>11. ASSUME NEW u \in Turns, NEW v \in Turns, NEW c \in Calls, Owns(u, c)', Owns(v, c)'
           PROVE  u = v
      BY <2>4, <2>7, <2>11
    <2> QED
      BY <2>8, <2>9, <2>10, <2>11 DEF OwnInv
  <1> QED
    BY <1>4, <1>5 DEF Decide

LEMMA OwnResume ==
    ASSUME NEW t \in Turns, BaseInv, OwnInv, Resume(t)
    PROVE  OwnInv'
  <1>1. /\ UNCHANGED <<caller, consents, used>> /\ phase' = [phase EXCEPT ![t] = "cont"]
    BY DEF Resume, tools, consent
  <1>2. PICK s \in {"done", "llm", "calls"} : pc' = [pc EXCEPT ![t] = s]
    BY DEF Resume, Goto
  <1>3. FlushInv /\ todo \in [Turns -> Seq(Calls)] /\ phase \in [Turns -> Phases]
    BY DEF BaseInv, Lists, Values
  <1>4. \A u \in Turns : u # t => todo'[u] = todo[u]
    <2>1. todo' = todo \/ \E w : todo' = [todo EXCEPT ![t] = w]
      BY DEF Resume
    <2> QED
      BY <1>3, <2>1
  <1>5. \A u \in Turns : /\ pc'[u] = (IF u = t THEN s ELSE pc[u])
                         /\ phase'[u] = (IF u = t THEN "cont" ELSE phase[u])
    BY <1>1, <1>2, <1>3 DEF FlushInv
  <1>6. \A u \in Turns, c \in Calls : Owns(u, c)' => Owns(u, c)
    BY <1>4, <1>5 DEF Owns
  <1>7. \A u \in Turns : pc'[u] = "approval" => phase'[u] # "cont" \/ caller # "ingress"
    BY <1>2, <1>5 DEF OwnInv
  <1> QED
    BY <1>1, <1>6, <1>7, OwnShrinks

LEMMA OwnInductive == BaseInv /\ OwnInv /\ [Next]_(vars) => OwnInv'
  <1> SUFFICES ASSUME BaseInv, OwnInv, [Next]_(vars) PROVE OwnInv'
    OBVIOUS
  <1>1. CASE UNCHANGED vars
    <2>1. UNCHANGED <<caller, consents, used, pc, phase, todo>>
      BY <1>1 DEF vars
    <2>2. \A u \in Turns, c \in Calls : Owns(u, c)' => Owns(u, c)
      BY <2>1 DEF Owns
    <2>3. \A u \in Turns : pc'[u] = "approval" => phase'[u] # "cont" \/ caller # "ingress"
      BY <2>1 DEF OwnInv
    <2> QED
      BY <2>1, <2>2, <2>3, OwnShrinks
  <1>2. CASE Next
    <2>1. PICK t \in Turns :
           \/ Enter(t) \/ Fresh(t) \/ Clear(t) \/ Begin(t)
           \/ FlushCheck(t) \/ Flush(t)
           \/ CompactCheck(t) \/ Compact(t)
           \/ RespondText(t) \/ RespondCalls(t) \/ RespondError(t) \/ StreamEnds(t)
           \/ StartTool(t) \/ NeedApproval(t) \/ FinishTool(t)
           \/ Decide(t) \/ Prompt(t) \/ HttpApprove(t) \/ Resume(t) \/ Cancel(t)
      BY <1>2 DEF Next
    <2>2. CASE Prompt(t) \/ HttpApprove(t) \/ Cancel(t)
      <3>1. caller # "ingress" /\ UNCHANGED caller
        BY <2>2 DEF Prompt, HttpApprove, Cancel
      <3> QED
        BY <3>1 DEF OwnInv
    <2> QED
      BY <2>1, <2>2, OwnPlainSteps, OwnFinish, OwnCalls, OwnDecide, OwnResume
  <1> QED
    BY <1>1, <1>2

-----------------------------------------------------------------------------
(* The theorems.                                                           *)

LEMMA RanOnceHolds == BaseInv /\ SessionInv /\ OwnInv => RunsOnce
  <1> SUFFICES ASSUME BaseInv, SessionInv, OwnInv, NEW c \in Calls, runs[c] > 1, c \notin cut
               PROVE  caller = "ingress" /\ c \notin gated
    BY DEF RunsOnce
  <1>1. /\ runs \in [Calls -> Nat] /\ consents \in [Calls -> Nat]
        /\ \A d \in gated : runs[d] <= consents[d]
    BY DEF BaseInv, ConsentInv
  <1>2. runs[c] \in Nat /\ consents[c] \in Nat /\ runs[c] # 0 /\ runs[c] # 1
    BY <1>1
  <1>3. caller = "ingress"
    BY <1>2 DEF SessionInv, RanOnce
  <1>4. consents[c] \in {0, 1}
    BY <1>3 DEF OwnInv
  <1>5. ~(runs[c] <= consents[c])
    BY <1>2, <1>4
  <1> QED
    BY <1>1, <1>3, <1>5

\* A call runs twice only if its first execution was dropped with its request, or if
\* it needs no approval and two turns of a chat take it up: however often a client
\* repeats approve_tool, and however turns of a chat overlap, for any number of turns
\* and calls.
THEOREM CallsRunOnce == Spec => []RunsOnce
  <1>1. BaseInv /\ SessionInv /\ OwnInv /\ [Next]_(vars) => BaseInv' /\ SessionInv' /\ OwnInv'
    BY BaseInductive, SessionInductive, OwnInductive
  <1>2. Init => BaseInv /\ SessionInv /\ OwnInv
    BY BaseStarts, SessionStarts, OwnStarts
  <1> QED
    BY <1>1, <1>2, RanOnceHolds, PTL DEF Spec

LEMMA InOrderHolds == SessionInv => AnswersInOrder
  <1> SUFFICES ASSUME SessionInv, caller # "ingress"
               PROVE  /\ \A i \in DOMAIN hist : hist[i].kind = "calls" =>
                            \E n \in 0..Len(hist[i].calls) :
                                \A k \in DOMAIN hist[i].calls :
                                    hist[i].calls[k] \in AnsweredAfter(i) <=> k <= n
                      /\ \A i, j \in DOMAIN hist :
                            hist[i].kind = "result" /\ hist[j].kind = "result"
                                /\ hist[i].calls = hist[j].calls => i = j
    BY DEF AnswersInOrder
  <1>1. hist \in Seq(Message) /\ InOrder(hist) /\ Once(hist)
    BY DEF SessionInv, HistOK
  <1>2. ASSUME NEW i \in DOMAIN hist, hist[i].kind = "calls"
        PROVE  \E n \in 0..Len(hist[i].calls) :
                   \A k \in DOMAIN hist[i].calls :
                       hist[i].calls[k] \in AnsweredAfter(i) <=> k <= n
    <2>1. PICK n \in 0..Len(hist[i].calls) : DoneUpTo(hist, i, n)
      BY <1>1, <1>2 DEF InOrder
    <2>2. \A k \in DOMAIN hist[i].calls : hist[i].calls[k] \in AnsweredAfter(i) <=> k <= n
      BY <1>1, <2>1, AnsweredIs DEF DoneUpTo
    <2> QED
      BY <2>2
  <1> QED
    BY <1>1, <1>2 DEF Once

\* The results of a message's calls are those of its first n calls, wherever a turn
\* ends and whatever is compacted: what continue_chat() needs to find which are done.
\* And no call has two results.
THEOREM ResultsInOrder == Spec => []AnswersInOrder
  <1>1. BaseInv /\ SessionInv /\ [Next]_(vars) => BaseInv' /\ SessionInv'
    BY BaseInductive, SessionInductive
  <1>2. Init => BaseInv /\ SessionInv
    BY BaseStarts, SessionStarts
  <1> QED
    BY <1>1, <1>2, InOrderHolds, PTL DEF Spec

LEMMA OrphansHold == SessionInv => OrphansOnlyAtCut
  <1> SUFFICES ASSUME SessionInv, caller # "ingress", NEW i \in DOMAIN hist, NEW j \in 1..i-1,
                      hist[i].kind = "result", hist[j].kind = "calls",
                      ~ \E k \in j+1..i-1 : hist[k].kind = "calls"
               PROVE  hist[i].calls[1] \in Range(hist[j].calls)
    BY DEF OrphansOnlyAtCut
  <1>1. hist \in Seq(Message) /\ Nearest(hist)
    BY DEF SessionInv, HistOK
  <1>2. DOMAIN hist = 1..Len(hist) /\ Len(hist) \in Nat
    BY <1>1, LenProperties
  <1>3. j \in DOMAIN hist /\ j < i
    BY <1>2
  <1>4. ~ \E k \in DOMAIN hist : j < k /\ k < i /\ hist[k].kind = "calls"
    BY <1>2, <1>3
  <1>5. \E k \in DOMAIN hist[j].calls : hist[i].calls[1] = hist[j].calls[k]
    BY <1>1, <1>3, <1>4 DEF Nearest
  <1> QED
    BY <1>5 DEF Range

\* A result answers the last message with calls before it, and has none before it only
\* if compaction or truncation cut that message off.
THEOREM OrphansStandAtCut == Spec => []OrphansOnlyAtCut
  <1>1. BaseInv /\ SessionInv /\ [Next]_(vars) => BaseInv' /\ SessionInv'
    BY BaseInductive, SessionInductive
  <1>2. Init => BaseInv /\ SessionInv
    BY BaseStarts, SessionStarts
  <1> QED
    BY <1>1, <1>2, OrphansHold, PTL DEF Spec
=============================================================================
