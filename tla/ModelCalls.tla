----------------------------- MODULE ModelCalls -----------------------------
(***************************************************************************)
(* One call to a language model: SmartClient::chat, chat_stream and        *)
(* summarize (agent/client.rs), the providers' requests and replies        *)
(* (agent/providers.rs), and the loop of the chat engine that consumes a   *)
(* stream (agent/chat_engine.rs).                                          *)
(*                                                                         *)
(* The model behind the provider is the environment.  What it says is text *)
(* (numbered pieces) and tool calls, each a list of numbered pieces of     *)
(* arguments; the variable "said" records it.  It arrives as events of the *)
(* provider's protocol.  The connection cuts them anywhere, also inside a  *)
(* character, and may end or break anywhere.                               *)
(***************************************************************************)
EXTENDS ModelConfig, Integers

CONSTANTS
    Cases,      \* the calls considered: [models] table, operation, and the list of
                \* messages as messages_for_llm builds it
    Alias,      \* the primary model of the call, a key
    WireOf,     \* what wire name each string is
    MaxPieces,  \* bound: pieces of text and arguments a model says
    MaxCalls,   \* bound: tool calls in one answer
    MaxNotes    \* bound: no note of the CLI after that many pieces

CallIds == 0..(MaxCalls - 1)

VARIABLES
    models,     \* Config::models
    mode,       \* which of the three operations is called
    history,    \* the messages to send
    todo,       \* candidates still to be tried
    asked,      \* models that were asked: key, and the error, or None
    pc,         \* where the call is
    kind,       \* provider of the model being asked
    request,    \* what of the history the provider sent
    quirk,      \* the server puts a "usage" key on every event (OpenAI)
    said,       \* what the model says: text, calls by index, how many pieces, the block
                \* it is in, where its current message begins, how many there are, the end
    buffer,     \* the event of which only a part has arrived, or None
    builder,    \* the provider's state: calls by index (OpenAI); current call, its
                \* input, finished calls (Anthropic); last_text_len (Claude CLI)
    full,       \* full_text and tool_calls of the consumer, and done
    result      \* what the call returns, and the session keeps

call == <<models, mode, history>>
server == <<quirk, said>>
stream == <<buffer, builder, full>>
vars == <<call, todo, asked, pc, kind, request, server, stream, result>>

NoCalls == [c \in {} |-> <<>>]
Put(f, k, v) == [c \in DOMAIN f \union {k} |-> IF c = k THEN v ELSE f[c]]
Silent == [text |-> <<>>, calls |-> NoCalls, pieces |-> 0, open |-> None, from |-> 0,
           msgs |-> 0, ended |-> FALSE]
NoBuilder == [pending |-> NoCalls, current |-> None, input |-> <<>>, done |-> <<>>,
              shown |-> 0]
NothingYet == [text |-> <<>>, calls |-> None, done |-> FALSE]

Init ==
    /\ \E c \in Cases : models = c.models /\ mode = c.mode /\ history = c.history
    /\ todo = IF mode = "summarize" THEN <<Alias>>
              ELSE Candidates(models, WireOf[Alias], Alias)
    /\ asked = <<>>
    /\ pc = "next"
    /\ kind = None
    /\ request = None
    /\ quirk = FALSE
    /\ said = Silent
    /\ buffer = None
    /\ builder = NoBuilder
    /\ full = NothingYet
    /\ result = None

Config(k) == ResolveConfig(models, WireOf[k], k)
Current == asked[Len(asked)].key
Returns(r) == pc' = "end" /\ result' = r
Failed == [ok |-> FALSE, text |-> <<>>, calls |-> None]

(***************************************************************************)
(* What a provider sends: format_messages and its counterparts             *)
(***************************************************************************)
\* Messages are records with role and id (a number).
Numbers(msgs) == {msgs[i].id : i \in DOMAIN msgs}
LastOf(role) ==
    {history[i].id : i \in {j \in DOMAIN history :
        /\ history[j].role = role
        /\ \A k \in DOMAIN history : history[k].role = role => k <= j}}
FirstOf(role) ==
    {history[i].id : i \in {j \in DOMAIN history :
        /\ history[j].role = role
        /\ \A k \in DOMAIN history : history[k].role = role => j <= k}}

\* OpenAI and Ollama are sent every message.
OpenAIMessages == Numbers(history)
OllamaMessages == Numbers(history)

\* Anthropic's request has one system text: each system message replaces the
\* one before it.  Tool results go along, since they all have their call's id.
AnthropicMessages ==
    Numbers(SelectSeq(history, LAMBDA m : m.role # "system")) \union LastOf("system")

\* The Claude CLI is sent the last user message, and the first system message
\* when its session is new.
CliMessages(newSession) ==
    LastOf("user") \union IF newSession THEN FirstOf("system") ELSE {}

(***************************************************************************)
(* The loop over the candidates                                            *)
(***************************************************************************)
\* The entry cannot be resolved, or no provider made for it: summarize returns
\* the error, the other two go on to the next candidate.
SkipCandidate ==
    /\ pc = "next" /\ todo # <<>>
    /\ \/ Config(Head(todo)) = None
       \/ Config(Head(todo)) # None /\ CreateProviderFromConfig(Config(Head(todo))) = "error"
    /\ todo' = Tail(todo)
    /\ IF mode = "summarize" THEN Returns(Failed) ELSE UNCHANGED <<pc, result>>
    /\ UNCHANGED <<call, asked, kind, request, server, stream>>

\* provider.chat(...) or chat_stream(...) sends its request.
AskCandidate ==
    /\ pc = "next" /\ todo # <<>>
    /\ LET c == Config(Head(todo))
       IN  /\ c # None
           /\ CreateProviderFromConfig(c) # "error"
           /\ kind' = CreateProviderFromConfig(c)
    /\ asked' = Append(asked, [key |-> Head(todo), err |-> None])
    /\ todo' = Tail(todo)
    /\ CASE kind' = "openai" -> request' = OpenAIMessages
         [] kind' = "anthropic" -> request' = AnthropicMessages
         [] kind' = "ollama" -> request' = OllamaMessages
         [] kind' = "claude-cli" -> \E newSession \in BOOLEAN : request' = CliMessages(newSession)
    /\ quirk' \in IF kind' = "openai" THEN BOOLEAN ELSE {FALSE}
    /\ pc' = "asked"
    /\ UNCHANGED <<call, said, stream, result>>

\* No candidate is left: Err(last_error).
Exhausted ==
    /\ pc = "next" /\ todo = <<>>
    /\ Returns(Failed)
    /\ UNCHANGED <<call, todo, asked, kind, request, server, stream>>

\* The errors a provider can report before any of its answer is used.  OpenAI
\* tells them apart by code in chat and by status in chat_stream; the Claude CLI
\* has only exit statuses; Ollama's status is never looked at.  What fails below
\* them is an error of another type, whose text may hold a number.
Untyped == {"transport", "text_503"}
OpenAIChatErrors == {"rate_limit", "context", "400"} \union Untyped
OpenAIStreamErrors == {"rate_limit", "400", "503"} \union Untyped
AnthropicErrors == {"rate_limit", "400", "503"} \union Untyped
CliErrors == Untyped

StartErrors ==
    CASE kind = "openai" -> IF mode = "stream" THEN OpenAIStreamErrors ELSE OpenAIChatErrors
      [] kind = "anthropic" -> AnthropicErrors
      [] kind = "claude-cli" -> CliErrors
      [] kind = "ollama" -> Untyped

\* The request fails: the settings of the model that failed decide whether the
\* next one is tried.  summarize has no fallback.
CallFails ==
    /\ pc = "asked"
    /\ \E e \in StartErrors :
        /\ asked' = [asked EXCEPT ![Len(asked)].err = e]
        /\ IF mode # "summarize" /\ FallbackAllowed(e, Config(Current))
           THEN pc' = "next" /\ UNCHANGED result
           ELSE Returns(Failed)
    /\ UNCHANGED <<call, todo, kind, request, server, stream>>

\* The server refuses in the body of its reply and the provider does not notice:
\* Ollama's chat reads an absent message as an empty one, its
\* chat_stream a line without one as an empty piece.
RefusalUnnoticed ==
    /\ pc = "asked" /\ kind = "ollama"
    /\ asked' = [asked EXCEPT ![Len(asked)].err = "400"]
    /\ Returns([ok |-> TRUE, text |-> <<>>, calls |-> None])
    /\ UNCHANGED <<call, todo, kind, request, server, stream>>

\* Calls by index as a list, sorted by index.
AddCall(list, calls, c) ==
    IF c \in DOMAIN calls THEN Append(list, [id |-> c, args |-> calls[c]]) ELSE list
CallList(calls) ==
    LET list[n \in 0..MaxCalls] ==
            IF n = 0 THEN <<>> ELSE AddCall(list[n - 1], calls, n - 1)
    IN  list[MaxCalls]

\* chat: the whole reply at once, n pieces of text and m calls.
Reply(n, m) == [Silent EXCEPT !.text = [i \in 1..n |-> i], !.ended = TRUE, !.pieces = n + m,
                              !.calls = [c \in 0..(m - 1) |-> <<n + c + 1>>]]

Replies(reply, r) ==
    /\ said' = reply
    /\ Returns(r)
    /\ UNCHANGED <<call, todo, asked, kind, request, quirk, stream>>

\* Of a reply with text and tool calls the calls are returned.
Content(reply) ==
    IF DOMAIN reply.calls # {}
    THEN [ok |-> TRUE, text |-> <<>>, calls |-> CallList(reply.calls)]
    ELSE [ok |-> TRUE, text |-> reply.text, calls |-> None]

OpenAIReplies ==
    /\ pc = "asked" /\ mode = "chat" /\ kind = "openai"
    /\ \E n \in 0..1, m \in 0..MaxCalls : Replies(Reply(n, m), Content(Reply(n, m)))

AnthropicReplies ==
    /\ pc = "asked" /\ mode = "chat" /\ kind = "anthropic"
    /\ \E n \in 0..1, m \in 0..MaxCalls : Replies(Reply(n, m), Content(Reply(n, m)))

\* Neither is offered tools.
OllamaReplies ==
    /\ pc = "asked" /\ mode = "chat" /\ kind = "ollama"
    /\ \E n \in 0..1 : Replies(Reply(n, 0), Content(Reply(n, 0)))

CliReplies ==
    /\ pc = "asked" /\ mode = "chat" /\ kind = "claude-cli"
    /\ \E n \in 0..1 : Replies(Reply(n, 0), Content(Reply(n, 0)))

\* summarize wants text; a server may answer with calls that it was not offered.
SummaryReplies ==
    /\ pc = "asked" /\ mode = "summarize"
    /\ \E n \in 0..1, m \in 0..(IF kind \in {"openai", "anthropic"} THEN MaxCalls ELSE 0) :
        Replies(Reply(n, m), IF m > 0 THEN Failed ELSE Content(Reply(n, m)))

\* chat_stream: the stream is handed to the consumer.
StreamStarts ==
    /\ pc = "asked" /\ mode = "stream"
    /\ pc' = "stream"
    /\ UNCHANGED <<call, todo, asked, kind, request, server, stream, result>>

(***************************************************************************)
(* The stream                                                              *)
(***************************************************************************)
\* The events the server may send next, by protocol.  OpenAI interleaves the
\* pieces of several calls; Anthropic sends block after block; Ollama has text
\* only; the Claude CLI repeats the text of a message as it grows, begins new
\* messages, and ends with the text of the last one.
Fresh(s) == s.pieces + 1
NewCalls(s) == {c \in CallIds : c \notin DOMAIN s.calls}
Texts(s) == IF s.pieces < MaxPieces THEN {[e |-> "text", p |-> Fresh(s)]} ELSE {}
Heads(s) == {[e |-> "head", c |-> c] : c \in NewCalls(s)}
Args(s, cs) == {[e |-> "args", c |-> c, p |-> Fresh(s)] :
                   c \in IF s.pieces < MaxPieces THEN cs ELSE {}}
End == [e |-> "done"]
Events(s) ==
    IF s.ended THEN {}
    ELSE CASE kind = "openai" ->
                Texts(s) \union Heads(s) \union Args(s, DOMAIN s.calls) \union {End}
           [] kind = "anthropic" ->
                IF s.open # None
                THEN Args(s, {s.open}) \union {[e |-> "stop"]}
                ELSE Texts(s) \union {End, [e |-> "error"], [e |-> "stop"]} \union
                     {h \in Heads(s) : \A c \in NewCalls(s) : h.c <= c}
           [] kind = "ollama" -> Texts(s) \union {End}
           [] kind = "claude-cli" ->
                Texts(s) \union {End, [e |-> "error"]}
                    \union {n \in {[e |-> "note"]} : Len(full.text) < MaxNotes}
                    \union {[e |-> "message", p |-> t.p] : t \in Texts(s)}

\* What the model, having said s, has said once the event is on its way.
Say(s, ev) ==
    CASE ev.e = "text" -> [s EXCEPT !.text = Append(@, ev.p), !.pieces = @ + 1,
                                    !.msgs = IF @ = 0 THEN 1 ELSE @]
      [] ev.e = "message" -> [s EXCEPT !.text = Append(@, ev.p), !.pieces = @ + 1,
                                       !.from = Len(s.text), !.msgs = @ + 1]
      [] ev.e = "head" -> [s EXCEPT !.calls = Put(@, ev.c, <<>>), !.open = ev.c]
      [] ev.e = "args" -> [s EXCEPT !.calls[ev.c] = Append(@, ev.p), !.pieces = @ + 1]
      [] ev.e = "stop" -> [s EXCEPT !.open = None]
      [] ev.e \in {"done", "error"} -> [s EXCEPT !.ended = TRUE]
      [] OTHER -> s

\* A chunk ends inside event ev.  Its pieces are decoded chunk by chunk with
\* from_utf8_lossy, so that a character that is cut is garbled (a piece p then
\* counts as -p); the Claude CLI's output is read by lines.
ChunkEndsInside ==
    /\ pc = "stream" /\ buffer = None /\ kind # "claude-cli"
    /\ \E ev \in Events(said) :
        /\ \E garbled \in IF ev.e \in {"text", "args"} THEN BOOLEAN ELSE {FALSE} :
              buffer' = [ev |-> ev, garbled |-> garbled]
        /\ said' = Say(said, ev)
    /\ UNCHANGED <<call, todo, asked, pc, kind, request, quirk, builder, full, result>>

Yields(p) == full' = [full EXCEPT !.text = Append(@, p)]
YieldsDone(calls) == full' = [full EXCEPT !.done = TRUE, !.calls = calls]
Keeps == full' = full

\* OpenAI: pieces are gathered by index; an event with a "usage" key is skipped
\* whatever else is in it; at [DONE] the calls that have an id and a name are
\* taken in the order of their index.
OpenAIEvent(ev, p, usage) ==
    IF usage /\ ev.e # "done"
    THEN Keeps /\ UNCHANGED builder
    ELSE CASE ev.e = "text" -> Yields(p) /\ UNCHANGED builder
           [] ev.e \in {"head", "args"} ->
                LET old == IF ev.c \in DOMAIN builder.pending THEN builder.pending[ev.c]
                           ELSE [named |-> FALSE, args |-> <<>>]
                    new == [named |-> old.named \/ ev.e = "head",
                            args |-> IF ev.e = "args" THEN Append(old.args, p) ELSE old.args]
                IN  /\ builder' = [builder EXCEPT !.pending = Put(@, ev.c, new)]
                    /\ Keeps
           [] ev.e = "done" ->
                LET ids == {c \in DOMAIN builder.pending : builder.pending[c].named}
                IN  /\ YieldsDone(IF builder.pending = NoCalls THEN None
                                  ELSE CallList([c \in ids |-> builder.pending[c].args]))
                    /\ builder' = [builder EXCEPT !.pending = NoCalls]

\* Anthropic: one block at a time; message_stop takes the finished calls.
AnthropicEvent(ev, p) ==
    CASE ev.e = "text" -> Yields(p) /\ UNCHANGED builder
      [] ev.e = "head" ->
            builder' = [builder EXCEPT !.current = ev.c, !.input = <<>>] /\ Keeps
      [] ev.e = "args" -> builder' = [builder EXCEPT !.input = Append(@, p)] /\ Keeps
      [] ev.e = "stop" ->
            /\ builder' = IF builder.current = None THEN builder
                          ELSE [builder EXCEPT
                                    !.done = Append(@, [id |-> builder.current,
                                                        args |-> builder.input]),
                                    !.current = None, !.input = <<>>]
            /\ Keeps
      [] ev.e = "done" ->
            /\ YieldsDone(IF builder.done = <<>> THEN None ELSE builder.done)
            /\ UNCHANGED builder

\* Ollama: a line of text, or the last line.
OllamaEvent(ev, p) ==
    /\ IF ev.e = "text" THEN Yields(p) ELSE YieldsDone(None)
    /\ UNCHANGED builder

\* Claude CLI: each update brings the whole text of the message it is about,
\* and what exceeds the length shown so far is passed on.  The same at the end,
\* with the text of the result.  Notes (the model line, the CLI's own tool
\* calls) are text as well, counted as piece 0.
MessageText == SubSeq(said'.text, said'.from + 1, Len(said'.text))
Beyond == SubSeq(MessageText, builder.shown + 1, Len(MessageText))
CliEvent(ev) ==
    CASE ev.e = "note" -> Yields(0) /\ UNCHANGED builder
      [] ev.e \in {"text", "message"} ->
            /\ full' = [full EXCEPT !.text = @ \o Beyond]
            /\ builder' = [builder EXCEPT !.shown =
                              IF Len(MessageText) > @ THEN Len(MessageText) ELSE @]
      [] ev.e = "done" ->
            /\ full' = [full EXCEPT !.text = @ \o Beyond, !.done = TRUE, !.calls = None]
            /\ UNCHANGED builder

\* The rest of an event arrives, the provider's stream handles it and the
\* consumer takes what it yields.  An error event ends the consumer's loop.
EventArrives ==
    /\ pc = "stream"
    /\ \E ev \in IF buffer = None THEN Events(said) ELSE {buffer.ev} :
        LET p == IF ev.e \notin {"text", "args"} THEN 0
                 ELSE IF buffer # None /\ buffer.garbled THEN -ev.p ELSE ev.p
        IN  /\ said' = IF buffer = None THEN Say(said, ev) ELSE said
            /\ buffer' = None
            /\ IF ev.e = "error"
               THEN Returns(Failed) /\ UNCHANGED <<builder, full>>
               ELSE /\ UNCHANGED <<pc, result>>
                    /\ CASE kind = "openai" ->
                              \E usage \in IF quirk THEN BOOLEAN ELSE {FALSE} :
                                  OpenAIEvent(ev, p, usage)
                         [] kind = "anthropic" -> AnthropicEvent(ev, p)
                         [] kind = "ollama" -> OllamaEvent(ev, p)
                         [] kind = "claude-cli" -> CliEvent(ev)
    /\ UNCHANGED <<call, todo, asked, kind, request, quirk>>

\* Mutant: a stream that breaks is retried with the next model.
StreamBreaksFallsBack ==
    /\ pc = "stream"
    /\ asked' = [asked EXCEPT ![Len(asked)].err = "transport"]
    /\ IF FallbackAllowed("transport", Config(Current))
       THEN pc' = "next" /\ UNCHANGED result
       ELSE Returns(Failed)
    /\ UNCHANGED <<call, todo, kind, request, server, stream>>

\* The connection breaks, or the CLI exits with an error, or slicing its text at
\* the length of another message falls inside a character and panics: the
\* consumer's turn fails and records nothing, also after a done chunk.
StreamBreaks ==
    /\ pc = "stream"
    /\ Returns(Failed)
    /\ UNCHANGED <<call, todo, asked, kind, request, server, stream>>

\* Mutant: calls that are still being put together are taken at the end.
StreamEndsFlushes ==
    /\ pc = "stream"
    /\ Returns([ok |-> TRUE, text |-> full.text,
                calls |-> IF builder.pending = NoCalls THEN full.calls
                          ELSE CallList([c \in DOMAIN builder.pending |->
                                            builder.pending[c].args])])
    /\ UNCHANGED <<call, todo, asked, kind, request, server, stream>>

\* The stream ends, with or without a done chunk: what was gathered is recorded
\* as the assistant's message.  A part of an event that is left is dropped.
StreamEnds ==
    /\ pc = "stream"
    /\ Returns([ok |-> TRUE, text |-> full.text, calls |-> full.calls])
    /\ UNCHANGED <<call, todo, asked, kind, request, server, stream>>

\* The call has returned.
Done == pc = "end" /\ UNCHANGED vars

Next ==
    \/ SkipCandidate \/ AskCandidate \/ Exhausted
    \/ CallFails \/ RefusalUnnoticed
    \/ OpenAIReplies \/ AnthropicReplies \/ OllamaReplies \/ CliReplies \/ SummaryReplies
    \/ StreamStarts
    \/ ChunkEndsInside \/ EventArrives \/ StreamBreaks \/ StreamEnds
    \/ Done

Spec == Init /\ [][Next]_vars

(***************************************************************************)
(* Properties                                                              *)
(***************************************************************************)
Answers == [ok : BOOLEAN, text : Seq(Int),
            calls : {None} \union Seq([id : CallIds, args : Seq(Int)])]

\* The variables have their types.
TypeOK ==
    /\ [models |-> models, mode |-> mode, history |-> history] \in Cases
    /\ pc \in {"next", "asked", "stream", "end"}
    /\ kind \in Kinds \union {None}
    /\ quirk \in BOOLEAN
    /\ said.text \in Seq(Nat) /\ DOMAIN said.calls \subseteq CallIds
    /\ full.text \in Seq(Int) /\ full.done \in BOOLEAN
    /\ result \in Answers \union {None}

\* What was said, once garbling and the CLI's notes are left out of account.
AddPiece(plain, p) ==
    IF p = 0 THEN plain ELSE Append(plain, IF p < 0 THEN -p ELSE p)
Plainly(pieces) ==
    LET plain[n \in 0..Len(pieces)] ==
            IF n = 0 THEN <<>> ELSE AddPiece(plain[n - 1], pieces[n])
    IN  plain[Len(pieces)]

\* The stream decoders lose and mix up nothing: however the events were cut into
\* chunks and the pieces of the calls interleaved, an answer recorded after its
\* done chunk has the text the model said, in order, and its tool calls with
\* their whole arguments, in the order of their index.  And calls are recorded,
\* and so run, only if the model had finished: an answer that ends early leaves
\* no half-built call.  Not so for a server that sends a "usage" key along with
\* content, nor for text of a Claude CLI answer of several messages.
DoneMeansWhole ==
    result # None /\ mode = "stream" /\ ~quirk =>
        /\ full.done /\ said.msgs <= 1 => Plainly(full.text) = said.text
        /\ result.calls # None => said.ended
        /\ result.ok /\ full.done =>
              LET given == IF result.calls = None THEN <<>> ELSE result.calls
              IN  /\ {given[i].id : i \in DOMAIN given} = DOMAIN said.calls
                  /\ \A i \in DOMAIN given : Plainly(given[i].args) = said.calls[given[i].id]
                  /\ \A i, j \in DOMAIN given : i < j => given[i].id < given[j].id

\* A fallback never mixes models and is never forbidden: as long as another
\* model can still be asked nothing of an answer was shown or recorded, and each
\* model that was passed over failed with an error that its own settings let
\* pass.  A call that succeeds is answered by the last model asked, and that
\* model did answer (Ollama's refusals excepted).
FallbackSound ==
    /\ pc \in {"next", "asked"} => full = NothingYet /\ said = Silent
    /\ \A i \in DOMAIN asked :
          (i < Len(asked) \/ pc = "next") =>
              /\ asked[i].err # None
              /\ FallbackAllowed(asked[i].err, Config(asked[i].key))
    /\ result # None /\ result.ok =>
          asked[Len(asked)].err = None \/ kind = "ollama"

\* The n-th ancestor of a key, None beyond the first entry without a parent or
\* at a key that is not in the table.
Ancestor(k, n) ==
    LET up[i \in 0..n] ==
            IF i = 0 THEN k
            ELSE IF up[i - 1] = None \/ up[i - 1] \notin DOMAIN models THEN None
            ELSE models[up[i - 1]].extend
    IN  up[n]

\* What the merge loop of resolve_model_config computes: for a key whose chain
\* of parents ends, each inherited field is the one of the nearest ancestor that
\* sets it and the wire name is the key's own; a chain that leaves the table or
\* comes back to itself is an error.  The table does not change during a call:
\* it is looked at when the call begins.
ResolveIsNearest ==
    asked = <<>> => \A k \in DOMAIN models :
        LET far == Cardinality(DOMAIN models) + 1
            line == {n \in 0..far : Ancestor(k, n) # None}
            ends == Ancestor(k, far) = None /\ \A n \in line : Ancestor(k, n) \in DOMAIN models
            setters(f) == {n \in line : models[Ancestor(k, n)][f] # None}
            r == ResolveModelConfig(models, k)
        IN  IF ends
            THEN /\ DOMAIN r = DOMAIN models[k]
                 /\ r.model = models[k].model
                 /\ \A f \in Inherited :
                       r[f] = IF setters(f) = {} THEN None
                              ELSE models[Ancestor(k, Min(setters(f)))][f]
            ELSE r = None

\* docs/system_prompt_generator.md:49: "The returned string becomes the entire
\* system prompt."  So a request that has a system prompt has that one.
SystemPromptSent ==
    request # None /\ kind # "claude-cli" /\ history[1].role = "system" =>
        history[1].id \in request
=============================================================================
