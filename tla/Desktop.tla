------------------------------ MODULE Desktop ------------------------------
(***************************************************************************)
(* The desktop application: the window (desktop/app.rs, state.rs, views/)  *)
(* and the worker thread that owns the agent (desktop/worker.rs).  They    *)
(* talk over two unbounded channels.  The window disables its input while  *)
(* it believes that the agent is at work; the panels "Sessions" and        *)
(* "Status" stay usable.                                                   *)
(*                                                                         *)
(* Chats are numbered.  The worker's events of a chat are those that       *)
(* ChatEngine::stream_with_tool_loop yields (agent/chat_engine.rs).        *)
(***************************************************************************)
EXTENDS Naturals, Sequences

CONSTANTS
    MaxChats,   \* bound: messages sent as chat
    MaxClicks,  \* bound: other messages of the user
    MaxEvents   \* bound: pieces of text and tool calls of one chat

\* UiMessage but Chat, by what the worker does with it: "command" stands for
\* SetModel, SearchMemory, Save and ShowHelp.
Requests == {"new", "resume", "sessions", "status", "command", "compact", "showStatus",
             "approve", "deny"}

VARIABLES
    is_loading,         \* UiState::is_loading
    pending_approval,   \* UiState::pending_approval is set
    streaming,          \* the chats whose text is in UiState::streaming_content
    error,              \* UiState::error is set
    toWorker,           \* channel of UiMessage
    toUi,               \* channel of WorkerMessage
    worker,             \* "init", "recv", "chat" or "ended"
    chat,               \* the chat the worker is at
    pendingTools,       \* pending_tools of the worker is not empty
    events,             \* events of this chat so far
    chats, clicks,      \* chats sent, and other messages
    cut                 \* the chats that stopped at a tool that needs approval

window == <<is_loading, pending_approval, streaming, error>>
thread == <<worker, chat, pendingTools, events>>
vars == <<window, toWorker, toUi, thread, chats, clicks, cut>>

Init ==
    /\ is_loading = FALSE /\ pending_approval = FALSE /\ streaming = {} /\ error = FALSE
    /\ toWorker = <<>> /\ toUi = <<>>
    /\ worker = "init" /\ chat = 0 /\ pendingTools = FALSE /\ events = 0
    /\ chats = 0 /\ clicks = 0 /\ cut = {}

Msg(m) == [type |-> m, chat |-> 0]
Send(ms) == toUi' = toUi \o [i \in DOMAIN ms |-> Msg(ms[i])]

(***************************************************************************)
(* The window                                                              *)
(***************************************************************************)
\* WorkerHandle::send: it fails once the worker has dropped its receiver.
Ask(m) ==
    IF worker = "ended" THEN error' = TRUE /\ UNCHANGED toWorker
                        ELSE toWorker' = Append(toWorker, m) /\ UNCHANGED error

\* ChatView::show, Send or Enter: a text, and also a slash command that is
\* unknown or lacks its argument, goes to the agent as chat.
SubmitChat ==
    /\ ~is_loading /\ chats < MaxChats
    /\ chats' = chats + 1
    /\ is_loading' = TRUE
    /\ Ask([type |-> "chat", chat |-> chats + 1])
    /\ UNCHANGED <<pending_approval, streaming, toUi, thread, clicks, cut>>

\* The other slash commands (parse_slash_command), for which the input must be
\* enabled; the buttons of SessionsView and StatusView, always enabled; and the
\* two of the approval dialog, which they close.
Offered ==
    {"new", "resume", "sessions", "status"}
        \union (IF is_loading THEN {} ELSE {"command", "compact", "showStatus"})
        \union (IF pending_approval THEN {"approve", "deny"} ELSE {})

Click ==
    /\ clicks < MaxClicks
    /\ clicks' = clicks + 1
    /\ \E m \in Offered :
        /\ Ask(Msg(m))
        /\ pending_approval' = (pending_approval /\ m \notin {"approve", "deny"})
    /\ UNCHANGED <<is_loading, streaming, toUi, thread, chats, cut>>

\* clear_error.
Dismiss ==
    /\ error
    /\ error' = FALSE
    /\ UNCHANGED <<is_loading, pending_approval, streaming, toWorker, toUi, thread, chats,
                   clicks, cut>>

\* Mutant: an error leaves the text that was streamed.
HandleKeepsText(m) ==
    /\ is_loading' = (is_loading /\ m.type \notin {"ready", "approval", "done", "error"})
    /\ pending_approval' = (pending_approval \/ m.type = "approval")
    /\ streaming' = CASE m.type = "text" -> streaming \union {m.chat}
                      [] m.type \in {"done", "session"} -> {}
                      [] OTHER -> streaming
    /\ error' = (error \/ m.type = "error")

\* UiState::handle_worker_message.
HandleWorkerMessage(m) ==
    /\ is_loading' = (is_loading /\ m.type \notin {"ready", "approval", "done", "error"})
    /\ pending_approval' = (pending_approval \/ m.type = "approval")
    /\ streaming' = CASE m.type = "text" -> streaming \union {m.chat}
                      [] m.type \in {"done", "error", "session"} -> {}
                      [] OTHER -> streaming
    /\ error' = (error \/ m.type = "error")

\* process_worker_messages; a message that comes later waits for the next frame.
Receive ==
    /\ toUi # <<>>
    /\ HandleWorkerMessage(Head(toUi))
    /\ toUi' = Tail(toUi)
    /\ UNCHANGED <<toWorker, thread, chats, clicks, cut>>

(***************************************************************************)
(* The worker                                                              *)
(***************************************************************************)
\* worker_loop up to its loop: the agent is made, and the window told so; the
\* list of sessions is left out when it cannot be read.
Start ==
    /\ worker = "init"
    /\ \E ok \in BOOLEAN :
        Send(<<"ready">> \o (IF ok THEN <<"sessions">> ELSE <<>>) \o <<"status">>)
    /\ worker' = "recv"
    /\ UNCHANGED <<window, toWorker, chat, pendingTools, events, chats, clicks, cut>>

\* The configuration, the memory or the agent fails: the thread ends, and only
\* standard error hears of it.
StartFails ==
    /\ worker = "init"
    /\ worker' = "ended" /\ toWorker' = <<>>
    /\ UNCHANGED <<window, toUi, chat, pendingTools, events, chats, clicks, cut>>

\* What the worker sends for a message other than a chat.
Replies(m, ok) ==
    CASE m \in {"new", "resume"} -> IF ok THEN <<"session", "status">> ELSE <<"error">>
      [] m \in {"approve", "deny"} -> <<"done">>
      [] m = "sessions" -> IF ok THEN <<"sessions">> ELSE <<>>
      [] m = "status" -> <<"status">>
      [] m = "command" -> <<"system">>
      [] m = "compact" -> IF ok THEN <<"system", "status">> ELSE <<"system">>
      [] m = "showStatus" -> <<"system", "status">>

Serve ==
    /\ worker = "recv" /\ toWorker # <<>> /\ Head(toWorker).type # "chat"
    /\ \E ok \in BOOLEAN : Send(Replies(Head(toWorker).type, ok))
    /\ toWorker' = Tail(toWorker)
    /\ UNCHANGED <<window, thread, chats, clicks, cut>>

\* chat_stream_with_tools.
ChatBegin ==
    /\ worker = "recv" /\ toWorker # <<>> /\ Head(toWorker).type = "chat"
    /\ worker' = "chat" /\ chat' = Head(toWorker).chat /\ events' = 0
    /\ toWorker' = Tail(toWorker)
    /\ pendingTools' = FALSE
    /\ UNCHANGED <<window, toUi, chats, clicks, cut>>

\* StreamEvent::Content, ToolCallStart and ToolCallEnd.
ChatEvent ==
    /\ worker = "chat" /\ events < MaxEvents
    /\ events' = events + 1
    /\ \E t \in {"text", "toolStart", "toolEnd"} :
        toUi' = Append(toUi, [type |-> t, chat |-> chat])
    /\ UNCHANGED <<window, toWorker, worker, chat, pendingTools, chats, clicks, cut>>

\* StreamEvent::ApprovalRequired is the last event of a stream: the tool is shown
\* as running and kept in pending_tools, and the loop over the stream ends.
ChatCut ==
    /\ worker = "chat"
    /\ Send(<<"toolStart">>)
    /\ pendingTools' = TRUE
    /\ worker' = "recv"
    /\ cut' = cut \union {chat}
    /\ UNCHANGED <<window, toWorker, chat, events, chats, clicks>>

\* Mutant: a chat with an answer ends without a message.
ChatDoneSilent ==
    /\ worker = "chat"
    /\ Send(IF pendingTools THEN <<"approval">> ELSE <<>>)
    /\ worker' = "recv"
    /\ UNCHANGED <<window, toWorker, chat, pendingTools, events, chats, clicks, cut>>

\* StreamEvent::Done; the session is saved.
ChatDone ==
    /\ worker = "chat"
    /\ Send(IF pendingTools THEN <<"approval">> ELSE <<"done">>)
    /\ worker' = "recv"
    /\ UNCHANGED <<window, toWorker, chat, pendingTools, events, chats, clicks, cut>>

\* The chat cannot begin, the stream yields an error, or the tenth round of tools
\* asks for another.
ChatFails ==
    /\ worker = "chat"
    /\ Send(<<"error">>)
    /\ worker' = "recv"
    /\ UNCHANGED <<window, toWorker, chat, pendingTools, events, chats, clicks, cut>>

Next ==
    \/ SubmitChat \/ Click \/ Dismiss \/ Receive
    \/ Start \/ StartFails \/ Serve \/ ChatBegin \/ ChatEvent
    \/ ChatCut \/ ChatDone \/ ChatFails

Spec == Init /\ [][Next]_vars

(***************************************************************************)
(* Properties                                                              *)
(***************************************************************************)
\* Nothing is under way: the worker waits, or is gone, and both channels are empty.
AtRest == worker \in {"recv", "ended"} /\ toWorker = <<>> /\ toUi = <<>>

\* The window is not left waiting: when nothing is under way it takes input
\* again, unless a chat stopped at a tool that needs approval or the worker never
\* came up.  It holds although a chat sent before the agent is ready, and errors
\* of other requests, enable the input while a chat still runs.
LoadingAccounted == AtRest /\ is_loading => cut # {} \/ worker = "ended"

\* The text on display is that of one chat: text of an earlier chat is only
\* left over from one that stopped at a tool that needs approval.
OneAnswerShown ==
    \A c \in streaming : (\E d \in streaming : d > c) => c \in cut

\* What is_loading says it is (desktop/state.rs, "Whether the agent is
\* processing"): it does not stay set when the worker waits for the next message
\* and nothing is under way.
LoadingMeansProcessing == AtRest /\ worker = "recv" => ~is_loading
=============================================================================
