----------------------------- MODULE ToolTurns -----------------------------
(***************************************************************************)
(* Agent turns on one session: ChatEngine::chat, handle_response,          *)
(* memory_flush and continue_chat (agent/chat_engine.rs) over the          *)
(* session's message list (agent/session.rs, agent/session_manager.rs),    *)
(* with the approval set of the ToolExecutor (agent/tool_executor.rs), the *)
(* approval branch of process_ingress_message (ingress/handler.rs), the    *)
(* approve_tool and clear endpoints (server/http.rs) and the prompt of the *)
(* interactive CLI (cli/chat.rs).                                          *)
(*                                                                         *)
(* A turn awaits the model and its tools with the session unlocked.  HTTP  *)
(* callers hold the agent for the whole turn, and a CLI has it for itself, *)
(* so their turns follow one another; ingress turns of one chat do not,    *)
(* and share the session.                                                  *)
(*                                                                         *)
(* Every message counts as one token.                                      *)
(***************************************************************************)
EXTENDS Naturals, Sequences, SequencesExt, FiniteSets

CONSTANTS
    Turns,      \* turns, each run at most once
    MaxCalls,   \* bound: tool calls the model makes altogether
    MaxInFlight,\* bound: ingress turns that overlap
    Callers,    \* who runs the turns: subset of {"http", "cli", "ingress"}
    SoftLimit,  \* tokens that trigger a memory flush
    HardLimit,  \* tokens that trigger compaction
    KeepLast    \* messages that truncation keeps

ASSUME LimitsAssumption ==
    /\ MaxCalls \in Nat /\ MaxInFlight \in Nat \ {0}
    /\ SoftLimit \in Nat /\ HardLimit \in Nat /\ SoftLimit <= HardLimit
    /\ KeepLast \in Nat
    /\ Callers \subseteq {"http", "cli", "ingress"}

Calls == 1..MaxCalls

\* keep_count of Session::compact_native.
KeepCount == 4

VARIABLES
    caller,     \* the kind of caller, fixed
    gated,      \* calls to tools listed in tools.require_approval, fixed
    pc,         \* where each turn is
    phase,      \* what a final text answers: flush, chat or cont(inue_chat)
    todo,       \* calls of the current response not started or not finished
    hist,       \* the session's messages
    tokens,     \* Session::token_count
    compactions,\* Session::compaction_count
    flushedAt,  \* Session::memory_flush_compaction_count
    approved,   \* ApprovalManager::approved_calls
    used,       \* calls made so far: 1..used
    runs,       \* how often each call was executed
    verdict,    \* the last answer of the user, or of time, on each call
    consents,   \* how often the user approved each call
    cut,        \* calls whose execution was dropped with its request
    flushes     \* flush prompts since the last compaction or new session

vars == <<caller, gated, pc, phase, todo, hist, tokens, compactions, flushedAt,
          approved, used, runs, verdict, consents, cut, flushes>>

session == <<hist, tokens, compactions, flushedAt, flushes>>
consent == <<verdict, consents, cut>>
tools == <<approved, used, runs, consent>>

Msg(kind, calls) == [kind |-> kind, calls |-> calls]

\* Session::add_message
AddMessage(kind, calls) ==
    /\ hist' = Append(hist, Msg(kind, calls))
    /\ tokens' = tokens + 1
    /\ UNCHANGED <<compactions, flushedAt, flushes>>

Goto(t, s) == pc' = [pc EXCEPT ![t] = s]

Init ==
    /\ caller \in Callers
    /\ gated \in SUBSET Calls
    /\ pc = [t \in Turns |-> "idle"]
    /\ phase = [t \in Turns |-> "chat"]
    /\ todo = [t \in Turns |-> <<>>]
    /\ hist = <<>>
    /\ tokens = 0
    /\ compactions = 0
    /\ flushedAt = 0
    /\ approved = {}
    /\ used = 0
    /\ runs = [c \in Calls |-> 0]
    /\ verdict = [c \in Calls |-> "none"]
    /\ consents = [c \in Calls |-> 0]
    /\ cut = {}
    /\ flushes = 0

InFlight == {u \in Turns : pc[u] \notin {"idle", "done"}}

\* Under HTTP the agent mutex is free only between turns, and the CLI prompts
\* for the next message only then.
MayStart(t) ==
    /\ pc[t] = "idle"
    /\ IF caller = "ingress" THEN Cardinality(InFlight) < MaxInFlight
                             ELSE InFlight = {}

-----------------------------------------------------------------------------
(* chat(): user message, memory flush, compaction, request.                *)

\* Session::new(): the session is replaced, whoever else is using it.
NewSession ==
    /\ hist' = <<>>
    /\ tokens' = 0
    /\ compactions' = 0
    /\ flushedAt' = 0
    /\ flushes' = 0

\* process_ingress_message looks whether the session is empty ...
Enter(t) ==
    /\ caller = "ingress"
    /\ MayStart(t)
    /\ Goto(t, IF hist = <<>> THEN "fresh" ELSE "begin")
    /\ UNCHANGED <<caller, gated, phase, todo, session, tools>>

\* ... and if it was, sets it up anew.
Fresh(t) ==
    /\ pc[t] = "fresh"
    /\ NewSession
    /\ Goto(t, "begin")
    /\ UNCHANGED <<caller, gated, phase, todo, tools>>

\* "!clear", the clear endpoint or "/clear" replaces the session and ends the turn.
Clear(t) ==
    /\ IF caller = "ingress" THEN pc[t] = "begin" ELSE MayStart(t)
    /\ NewSession
    /\ Goto(t, "done")
    /\ UNCHANGED <<caller, gated, phase, todo, tools>>

\* chat() records the user's message.
Begin(t) ==
    /\ IF caller = "ingress" THEN pc[t] = "begin" ELSE MayStart(t)
    /\ AddMessage("user", <<>>)
    /\ Goto(t, "check")
    /\ UNCHANGED <<caller, gated, phase, todo, tools>>

\* Mutant: the flush of this compaction cycle is forgotten.
ShouldFlushAlways == tokens > SoftLimit

\* should_memory_flush()
ShouldFlush == tokens > SoftLimit /\ flushedAt <= compactions

FlushCheck(t) ==
    /\ pc[t] = "check"
    /\ Goto(t, IF ShouldFlush THEN "flush" ELSE "compact")
    /\ UNCHANGED <<caller, gated, phase, todo, session, tools>>

\* memory_flush(): marked first, then the prompt is sent to the model.
Flush(t) ==
    /\ pc[t] = "flush"
    /\ flushedAt' = compactions + 1
    /\ hist' = Append(hist, Msg("user", <<>>))
    /\ tokens' = tokens + 1
    /\ flushes' = flushes + 1
    /\ phase' = [phase EXCEPT ![t] = "flush"]
    /\ Goto(t, "llm")
    /\ UNCHANGED <<caller, gated, todo, compactions, tools>>

\* should_compact() counts the messages afresh.
CompactCheck(t) ==
    /\ pc[t] = "compact"
    /\ Goto(t, IF Len(hist) > HardLimit THEN "compacting" ELSE "llm")
    /\ UNCHANGED <<caller, gated, phase, todo, session, tools>>

\* The session after compact_native: a summary and the last four messages.
Compacted ==
    <<Msg("summary", <<>>)>> \o SubSeq(hist, Len(hist) - KeepCount + 1, Len(hist))

\* The elements of s that are in S, in their order.
Filter(s, S) ==
    LET taken[n \in 0..Len(s)] ==
            IF n = 0 THEN <<>>
            ELSE IF s[n] \in S THEN Append(taken[n-1], s[n]) ELSE taken[n-1]
    IN  taken[Len(s)]

\* truncate_history(): summaries stay, and the last KeepLast others.
Summaries == {m \in Range(hist) : m.kind = "summary"}
Truncated ==
    LET other == Filter(hist, Range(hist) \ Summaries)
        drop == IF Len(other) > KeepLast THEN Len(other) - KeepLast ELSE 0
    IN  Filter(hist, Summaries) \o SubSeq(other, drop + 1, Len(other))

\* compact_session(), under the session's write lock throughout.
Compact(t) ==
    /\ pc[t] = "compacting"
    /\ \/ /\ Len(hist) >= KeepCount             \* summarised by some model
          /\ hist' = Compacted
          /\ tokens' = Len(hist')
          /\ compactions' = compactions + 1
          /\ flushes' = 0
          /\ Goto(t, "llm")
       \/ /\ Len(hist) < KeepCount              \* too short: nothing to do
          /\ Goto(t, "llm")
          /\ UNCHANGED <<hist, tokens, compactions, flushes>>
       \/ /\ Len(hist) >= KeepCount             \* all models failed: truncate
          /\ hist' = Truncated
          /\ Goto(t, "llm")
          /\ UNCHANGED <<tokens, compactions, flushes>>
       \/ /\ Len(hist) >= KeepCount             \* ... or give up
          /\ Goto(t, "done")
          /\ UNCHANGED <<hist, tokens, compactions, flushes>>
    /\ UNCHANGED <<caller, gated, phase, todo, flushedAt, tools>>

-----------------------------------------------------------------------------
(* The model answers.                                                      *)

\* A text ends the flush or the turn.  continue_chat() does not record it.
RespondText(t) ==
    /\ pc[t] = "llm"
    /\ IF phase[t] = "cont"
         THEN UNCHANGED session
         ELSE AddMessage("text", <<>>)
    /\ Goto(t, IF phase[t] = "flush" THEN "compact" ELSE "done")
    /\ phase' = [phase EXCEPT ![t] = IF @ = "flush" THEN "chat" ELSE @]
    /\ UNCHANGED <<caller, gated, todo, tools>>

\* One or two tool calls with fresh ids; they are recorded before any runs.
RespondCalls(t) ==
    /\ pc[t] = "llm"
    /\ \E n \in 1..2 :
         /\ used + n <= MaxCalls
         /\ LET calls == [i \in 1..n |-> used + i] IN
              /\ AddMessage("calls", calls)
              /\ todo' = [todo EXCEPT ![t] = calls]
         /\ used' = used + n
    /\ Goto(t, "calls")
    /\ UNCHANGED <<caller, gated, phase, approved, runs, consent>>

\* The provider, with its fallbacks, fails: so does the turn.
RespondError(t) ==
    /\ pc[t] = "llm"
    /\ Goto(t, "done")
    /\ UNCHANGED <<caller, gated, phase, todo, session, tools>>

\* stream_with_tool_loop() ends without a message: the stream broke, brought
\* neither text nor calls, or this would be its eleventh request.  For the
\* rest it records what handle_response() records, call by call.
StreamEnds(t) ==
    /\ caller # "ingress"
    /\ pc[t] = "llm" /\ phase[t] = "chat"
    /\ Goto(t, "done")
    /\ UNCHANGED <<caller, gated, phase, todo, session, tools>>

-----------------------------------------------------------------------------
(* execute_tool() and the approval of gated calls.                         *)

\* Mutant: an approval is looked up and not consumed.
ConsumePeeks(c) == c \in approved /\ UNCHANGED approved

\* ApprovalManager::consume
Consume(c) == c \in approved /\ approved' = approved \ {c}

\* A call runs, at once or with its approval.
StartTool(t) ==
    /\ pc[t] = "calls"
    /\ LET c == Head(todo[t]) IN
         /\ IF c \in gated THEN Consume(c) ELSE UNCHANGED approved
         /\ runs' = [runs EXCEPT ![c] = @ + 1]
    /\ Goto(t, "tool")
    /\ UNCHANGED <<caller, gated, phase, todo, session, used, consent>>

\* ApprovalRequired leaves the call unanswered.  An ingress turn asks the user,
\* once: a second gated call after continue_chat() ends it.  Under HTTP the
\* answer names the call and the request is over.  The CLI asks at each such
\* call of its stream; the memory flush is no stream, and there it is an error.
NeedApproval(t) ==
    /\ pc[t] = "calls"
    /\ Head(todo[t]) \in gated \ approved
    /\ Goto(t, IF \/ caller = "ingress" /\ phase[t] # "cont"
                  \/ caller = "cli" /\ phase[t] = "chat" THEN "approval" ELSE "done")
    /\ UNCHANGED <<caller, gated, phase, todo, session, approved, used, runs,
                   verdict, consents, cut>>

\* approve_tool, for any call the client names, as often as it likes: nothing
\* compares the id with the calls that wait for an approval.
HttpApprove(t) ==
    /\ caller = "http"
    /\ MayStart(t)
    /\ \E c \in Calls :
         /\ approved' = approved \union {c}
         /\ verdict' = [verdict EXCEPT ![c] = "approve"]
         /\ consents' = [consents EXCEPT ![c] = @ + 1]
    /\ Goto(t, "resume")
    /\ UNCHANGED <<caller, gated, phase, todo, session, used, runs, cut>>

\* Mutant: the results of two calls are swapped.
FinishToolSwaps(t) ==
    /\ pc[t] = "tool"
    /\ AddMessage("result", <<Last(todo[t])>>)
    /\ todo' = [todo EXCEPT ![t] = Tail(@)]
    /\ Goto(t, IF Len(todo[t]) = 1 THEN "llm" ELSE "calls")
    /\ UNCHANGED <<caller, gated, phase, tools>>

\* Mutant: the loop starts over after a result.
FinishToolRestarts(t) ==
    /\ pc[t] = "tool"
    /\ AddMessage("result", <<Head(todo[t])>>)
    /\ Goto(t, IF Len(todo[t]) = 1 THEN "llm" ELSE "calls")
    /\ UNCHANGED <<caller, gated, phase, todo, tools>>

\* Output or error, the result is recorded; after the last one the model is
\* asked again.
FinishTool(t) ==
    /\ pc[t] = "tool"
    /\ AddMessage("result", <<Head(todo[t])>>)
    /\ todo' = [todo EXCEPT ![t] = Tail(@)]
    /\ Goto(t, IF Len(todo[t]) = 1 THEN "llm" ELSE "calls")
    /\ UNCHANGED <<caller, gated, phase, tools>>

\* The answer of ApprovalCoordinator::request (module Approval).
Decide(t) ==
    /\ caller = "ingress"
    /\ pc[t] = "approval"
    /\ LET c == Head(todo[t]) IN
         \/ /\ verdict' = [verdict EXCEPT ![c] = "approve"]
            /\ consents' = [consents EXCEPT ![c] = @ + 1]
            /\ approved' = approved \union {c}
            /\ Goto(t, "resume")
            /\ UNCHANGED session
         \/ /\ verdict' = [verdict EXCEPT ![c] = "deny"]
            /\ AddMessage("result", <<c>>)
            /\ Goto(t, "resume")
            /\ UNCHANGED <<approved, consents>>
         \/ /\ verdict' = [verdict EXCEPT ![c] = "timeout"]
            /\ Goto(t, "done")
            /\ UNCHANGED <<session, approved, consents>>
    /\ UNCHANGED <<caller, gated, phase, todo, used, runs, cut>>

\* "Execute ...? [y/N]" at the terminal.  After a yes the CLI calls
\* execute_tool() itself, which looks for an approval like any other caller and
\* whose error becomes the result.  Then the model is asked again, whatever
\* calls of its message are left.
Prompt(t) ==
    /\ caller = "cli"
    /\ pc[t] = "approval"
    /\ LET c == Head(todo[t]) IN
         /\ AddMessage("result", <<c>>)
         /\ \/ /\ verdict' = [verdict EXCEPT ![c] = "approve"]
               /\ consents' = [consents EXCEPT ![c] = @ + 1]
               /\ approved' = approved \ {c}
               /\ runs' = [runs EXCEPT ![c] = IF c \in approved THEN @ + 1 ELSE @]
            \/ /\ verdict' = [verdict EXCEPT ![c] = "deny"]
               /\ UNCHANGED <<consents, approved, runs>>
    /\ todo' = [todo EXCEPT ![t] = <<>>]
    /\ Goto(t, "llm")
    /\ UNCHANGED <<caller, gated, phase, used, cut>>

\* The calls with a result behind message i.
AnsweredAfter(i) ==
    {hist[j].calls[1] : j \in {k \in i+1..Len(hist) : hist[k].kind = "result"}}

\* The calls of message i that have no result yet.
OpenCalls(i) == Filter(hist[i].calls, Range(hist[i].calls) \ AnsweredAfter(i))

\* Mutant: the first message with tool calls is taken up.
ResumeFirst(t) ==
    /\ pc[t] = "resume"
    /\ phase' = [phase EXCEPT ![t] = "cont"]
    /\ LET at == {i \in DOMAIN hist : hist[i].kind = "calls"} IN
         IF at = {}
           THEN Goto(t, "done") /\ UNCHANGED todo
           ELSE LET open == OpenCalls(CHOOSE i \in at : \A j \in at : i <= j) IN
                  /\ todo' = [todo EXCEPT ![t] = open]
                  /\ Goto(t, IF open = <<>> THEN "llm" ELSE "calls")
    /\ UNCHANGED <<caller, gated, session, tools>>

\* continue_chat(): the last message of the session with tool calls, whichever
\* turn it belongs to, is taken up again.
Resume(t) ==
    /\ pc[t] = "resume"
    /\ phase' = [phase EXCEPT ![t] = "cont"]
    /\ LET at == {i \in DOMAIN hist : hist[i].kind = "calls"} IN
         IF at = {}
           THEN Goto(t, "done") /\ UNCHANGED todo
           ELSE LET open == OpenCalls(CHOOSE i \in at : \A j \in at : j <= i) IN
                  /\ todo' = [todo EXCEPT ![t] = open]
                  /\ Goto(t, IF open = <<>> THEN "llm" ELSE "calls")
    /\ UNCHANGED <<caller, gated, session, tools>>

\* The HTTP client goes away and the turn is dropped where it awaits.
Cancel(t) ==
    /\ caller = "http"
    /\ pc[t] \in {"llm", "tool", "compacting"}
    /\ Goto(t, "done")
    /\ cut' = IF pc[t] = "tool" THEN cut \union {Head(todo[t])} ELSE cut
    /\ UNCHANGED <<caller, gated, phase, todo, session, approved, used, runs,
                   verdict, consents>>

-----------------------------------------------------------------------------
Next ==
    \E t \in Turns :
        \/ Enter(t) \/ Fresh(t) \/ Clear(t) \/ Begin(t)
        \/ FlushCheck(t) \/ Flush(t)
        \/ CompactCheck(t) \/ Compact(t)
        \/ RespondText(t) \/ RespondCalls(t) \/ RespondError(t) \/ StreamEnds(t)
        \/ StartTool(t) \/ NeedApproval(t) \/ FinishTool(t)
        \/ Decide(t) \/ Prompt(t) \/ HttpApprove(t) \/ Resume(t) \/ Cancel(t)

Spec == Init /\ [][Next]_vars

-----------------------------------------------------------------------------
(* Properties.                                                             *)

Kinds == {"user", "text", "calls", "result", "summary"}

TypeOK ==
    /\ caller \in Callers
    /\ gated \in SUBSET Calls
    /\ pc \in [Turns -> {"idle", "fresh", "begin", "check", "flush", "compact",
                         "compacting", "llm", "calls", "tool", "approval", "resume", "done"}]
    /\ phase \in [Turns -> {"flush", "chat", "cont"}]
    /\ todo \in [Turns -> Seq(Calls)]
    /\ hist \in Seq([kind : Kinds, calls : Seq(Calls)])
    /\ tokens \in Nat /\ compactions \in Nat /\ flushedAt \in Nat /\ flushes \in Nat
    /\ approved \in SUBSET Calls
    /\ used \in 0..MaxCalls
    /\ runs \in [Calls -> Nat]
    /\ verdict \in [Calls -> {"none", "approve", "deny", "timeout"}]
    /\ consents \in [Calls -> Nat]
    /\ cut \in SUBSET Calls

\* A tool that requires approval runs at most once per approval, and never
\* without: not after a denial or a timeout, not twice when another turn of the
\* chat takes the same call up in continue_chat(), and not once more than the
\* client posted its approval.
ConsentConserved ==
    \A c \in gated :
        runs[c] + (IF c \in approved THEN 1 ELSE 0) <= consents[c]

\* A call is executed twice only if its first execution was dropped with its
\* request, which leaves no result for continue_chat() to find, or if it is an
\* ungated call of overlapping turns.
RunsOnce ==
    \A c \in Calls :
        runs[c] > 1 => c \in cut \/ (caller = "ingress" /\ c \notin gated)

\* One memory flush per compaction cycle (memory_flush_compaction_count), for a
\* turn that has the session to itself.
FlushOncePerCycle == caller # "ingress" => flushes <= 1

\* The results of one message's calls are recorded in the order of its calls,
\* without a gap, however the turn ends: what continue_chat() relies on to find
\* "which calls are already done".  And no call has two results, however often its
\* approval is posted and whatever was cut off: neither continue_chat() nor the
\* CLI's prompt answers a call that execute_tool() has answered.
AnswersInOrder ==
    caller # "ingress" =>
        /\ \A i \in DOMAIN hist :
              hist[i].kind = "calls" =>
                  \E n \in 0..Len(hist[i].calls) :
                      \A k \in DOMAIN hist[i].calls :
                          hist[i].calls[k] \in AnsweredAfter(i) <=> k <= n
        /\ \A i, j \in DOMAIN hist :
              hist[i].kind = "result" /\ hist[j].kind = "result" /\ hist[i].calls = hist[j].calls
              => i = j

\* A result stands behind the message that made its call, with no other calls
\* between them; a result that compaction or truncation cut off from its call has
\* no calls before it at all.  A client may approve a call long after the answer
\* that named it, so other messages may well stand between a call and its result,
\* or between the cut and a result without a call.
OrphansOnlyAtCut ==
    caller # "ingress" =>
        \A i \in DOMAIN hist : \A j \in 1..i-1 :
            hist[i].kind = "result" /\ hist[j].kind = "calls" =>
                \/ \E k \in j+1..i-1 : hist[k].kind = "calls"
                \/ hist[i].calls[1] \in Range(hist[j].calls)
=============================================================================
