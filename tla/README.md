# zier-alpha in TLA+

zier-alpha is a local AI assistant in Rust. One daemon process answers HTTP and
OpenAI requests, Telegram messages, cron jobs and scripts; a CLI and a desktop
application run turns of their own on the same workspace. Almost everything that
is hard about it lies between tasks that share something: the workspace files, a
session, the table of sessions, a channel, a pending approval. These modules
model those parts from the code under `src/src/`, check them with TLC on small
instances, and prove with TLAPS, for any number of tasks, files, messages and processes,
all of the safety that TLC checks: the locking discipline, the approval protocol, the
session table, sessions and their files, consent and results of turns, the way of a
message, Telegram's updates, the MCP manager, fallbacks, inheritance and streams of models,
the memory index and the desktop window.

## 1. Inventory

| Component (code) | State it keeps | Operations | Talks to | What makes it correct |
|---|---|---|---|---|
| Turn gate and workspace lock (`concurrency/`) | one semaphore permit with its FIFO queue; an advisory lock on `workspace.lock`; `workspace.lock.pid` | acquire, try_acquire, is_busy, drop of either guard | HTTP handlers, heartbeat, CLI | turns exclude each other across processes; no early return, cancellation or kill leaks a lock; no endless wait |
| Heartbeat (`heartbeat/`) | none across ticks but the session store | tick: busy check, both locks, a turn | gate, lock, agent | gives way to requests although its check may be stale |
| HTTP and OpenAI server (`server/http.rs`, `openai.rs`) | table of sessions (agent, dirty flag, last access), one mutex per agent | chat, chat_stream, approve_tool, chat_completions, create, delete, clear, compact, model, status; save task; expiry | gate, agents, disk | answered turns get saved; the nested locks make no cycle |
| Approval coordinator (`ingress/approval.rs`, `server/telegram_polling.rs`) | map of pending entries with their oneshots, UI channel | request, resolve, cleanup; buttons, presses | ingress turn, Telegram | returns once, with what the user pressed or nothing; map and chat message agree with it |
| Chat engine, tool executor, session (`agent/`) | messages, token count, compaction and flush counters, set of approved calls | chat, chat_stream, continue_chat, memory flush, compaction, approve, clear | provider, tools, all callers | a gated tool never runs without its own consent; call and result stay together |
| Ingress (`ingress/`) | bounded bus, unbounded channel, buffers by source, spawned tasks | push, forward, debounce, flush, close, process | Telegram, scheduler, scripts, approval, agent | nothing lost, doubled or reordered; untrusted text never acts above its level; a source that never pauses is served |
| Scheduler (`scheduler/`) | registered jobs | register, fire | bus | a firing reaches its prompt |
| Telegram polling (`server/telegram_polling.rs`, `ingress/telegram_client.rs`) | update offset, backoff | poll, handle, show an approval request | bus, approval | no update lost across crashes, failures and cancelled polls; none handled twice in one life |
| Sessions on disk (`agent/session*.rs`, `state/session_manager.rs`) | JSONL files, `sessions.json`, map of live sessions | save, load, load_and_update, get_or_create, auto-save | every turn | one session per chat; a session skipped by auto-save is on disk; no update lost between processes |
| Model calls (`config/models.rs`, `agent/client.rs`, `agent/providers.rs`) | `[models]` table; per call: candidates left, stream buffer, half-built tool calls | resolve, chat, chat_stream, summarize | chat engine, four kinds of provider | nearest setting wins; a fallback only for an error that allows it; a finished stream is recorded as it was said, and no half-built call ever is (a stream that just ends is recorded as it stands) |
| MCP manager (`agent/mcp_manager.rs`) | map of server processes, pending requests and channels of each | ensure_server, call, list_tools, reap, health check, shutdown | extension threads, child processes | no process that nobody can stop; no way out of a call leaves its request in the map |
| Script service (`scripting/`) | map of extension threads under a read-write lock, a command channel each, tool map | load, list, execute, status, prompt, reload after a crash | tools, CLI, scheduler | every operation returns; a replaced thread ends |
| Memory (`memory/`) | SQLite tables for files, chunks, full text, vectors, embeddings | index a file, watch, reindex, clean up, embed, search | tools, desktop | the tables agree with each other whoever commits last, but for rows whose own write failed; a reindex restores them |
| Desktop (`desktop/`) | window state, worker thread, two channels | chat, other requests, approval, events of a chat | agent | the window is not left waiting; one answer at a time |
| Disk monitor (`agent/disk_monitor.rs`) | degraded flag | check | tools | flag and disk agree in time |
| Daemon (`cli/daemon.rs`, `main.rs`) | daemon pid file | start, stop, restart, supervise | all | one daemon |
| Configuration, prompts, sanitising, tools, sandbox, audio, Hive and tmux_bridge extensions | little or none | text and single-shot I/O | | |

The behaviours that are hard to test, each at its line, are the `hazards` of
`PROJECT.json`: lock orders that differ between callers, requests cancelled in the
middle, processes killed with locks and files behind them, a deadline against a
press, a press before its message id, turns that share a session while each awaits
the model, a bus that is closed with messages under way, child processes and threads
that die while somebody waits for them, streams that are cut in the middle of an event,
and files that change between being read and being indexed.

## 2. Modules and code

Each module says at its head which files it models; `map` in `PROJECT.json` gives
the lines of every definition. A definition whose comment starts with "Mutant" is a
plausible bug of the definition below it: it is in no specification, and shows that
the property it belongs to can fail.

### TurnLocks (with TurnLocksProofs, MCTurnLocks)

`gate` and `gateQ` are tokio's semaphore of one permit, FIFO as tokio documents it;
`flock` is the OS lock, held by an open file handle and so given up when its process
dies; `pidFile` the file beside it. A task is where `pc` says: an HTTP request waits
for the gate, then retries the file lock until its timeout, then writes the pid, runs
its turn, and drops its guards in the order Rust drops them (unlock, remove the pid
file, release the permit). The heartbeat takes the file lock and then the gate, and
only ever *tries*; when its tick is over, skipped or not, it still has both until it drops
them (`hbDrop`). A CLI process takes the file lock only. `Bare` tasks (ingress; the
desktop does the same) take nothing. A request can be cancelled at each await: in the
retry loop its future is dropped while its `spawn_blocking` thread lives on
(`orphan`), and may still obtain the lock for nobody before it lets go. The write of the pid
file may fail, which the code ignores: the file then says what it said, or nothing, and
`unnamed` remembers whose it was not. A CLI process or the daemon can be killed anywhere.

### HttpSessions (with HttpSessionsProofs, MCHttpSessions)

The map `agentOf`/`dirty`/`recency`, the mutex around it (`table`), one mutex per
Agent object and the gate. Agent objects are numbered as they are created, because a
handler keeps the `Arc` it cloned while the entry is evicted, expired, deleted or made
anew. `chat`, `approve_tool`, `chat_stream`, `chat_completions` and the session
endpoints are kinds of request that differ in which locks they nest; a whole
critical section without an await is one step.

### Approval, ApprovalPromise (with ApprovalProofs, MCApproval)

`ApprovalPromise` is the abstract specification: presses happen, and `request()`
returns once, with a button pressed for this very call or with none. `Approval` has
the map of pending entries, the UI channel, the two oneshots, the three branches of
the `select!` (which picks at random among ready branches), the cleanup task and the
service that handles presses. The refinement maps `pressed` and `outcome` to
themselves. `mode` is how the daemon was started: with polling; with a webhook, where
nobody reads the UI channel but its receiver lives; or with the receiver gone.

### ToolTurns (with ToolTurnsProofs, MCToolTurns)

One session and the turns on it. A turn appends the user's message, checks the soft
limit (memory flush, a little turn of its own) and the hard limit (compaction), asks
the model, runs the calls of the answer in order, and asks again. Each await is a step
boundary. Three callers differ: HTTP turns hold the agent, so they follow one another;
ingress turns overlap; the interactive CLI streams, stops at a gated call (`Prompt`),
asks y/N, records a result for this one call and goes back to the model.
`continue_chat` looks for the last message with calls and takes up those
without a result; what it and the truncation leave out is `Filter`. `runs`, `consents`,
`cut` and `flushes` are history variables. Every message counts as one token.

A client may post `approve_tool` with any id, asked for or not, also long after the answer that
named the call, and the result
is appended where the history then ends. So other messages can stand between a call and its
result, and a compaction can cut between the two and leave the result behind messages that
came before it. `OrphansOnlyAtCut` therefore does not say that a result without its call is at
the very front, which is false, but that nothing with calls stands before it.

### Ingress (with IngressProofs, MCIngress)

Bus, channel, one buffer per source, tasks. Telegram and the scheduler fix source and trust
level as the code does; a script pushes trusted messages under any source, a user's chat
included, so the levels of a buffer may differ. A payload is reduced to its length and to
whether, alone, it names an existing prompt or script; joined with another it names nothing.
`due` stands for "quiet for `debounce_seconds`"; a source over `max_debounce_messages` or
`max_debounce_chars` is due at once. `Noisy` sources need never be quiet. The bus may be closed
behind its last message; the worker then flushes everything. A task that cannot get its session
drops its message (`NoSession`). A task of an owner's message chats; an untrusted one installs
the sanitizer's prompt, a job its own, and then starts a new session, whose prompt is the
default one (`prompt`); under a chat's source a job's prompt stays. `trusts`, the levels of the
messages that were gathered, is a history variable.

### Sessions (with SessionsProofs, MCSessions)

The daemon's map of live sessions (`map`), the Session objects (`obj`: id, messages,
dirty flag), the JSONL files (`file`), the ingress tasks, the auto-save task and CLI
processes that start new sessions or resume any file. Objects are numbered as they are
created, like the agents of HttpSessions. A lookup is three steps, one per lock of the
map. Setting up an empty session is two, reading its status and replacing it, because
the prompt is built in between; tasks of one chat overlap. A save truncates the file
and then writes line by line under the session's write lock; it may fail, or its
process be killed, after each line. Two sessions of one id (the CLI can resume the file
of a live chat) are recorded in `shared`; what two writers then make of their file is
not stated. A chat's session gets a random id when it is set up, so after a restart of
the daemon its file is not found under the chat's name: `LoadOrMiss` loads a file only
where the set-up had failed. In the same way `load_persisted_sessions` of the HTTP
server lists `agents/http` while `Session::load` reads the default agent's directory,
so that no HTTP session is reloaded; HttpSessions therefore starts empty.

### SessionStore, SessionRecord (proved in ServicesProofs, run in MCServices)

`sessions.json` and its two users: the command line provider that remembers which
session to resume, and the heartbeat that tells a duplicate alert by the text and time
of the last one. A process loads the file without the lock, later takes the lock, reads
the file again, changes its entry, writes a temporary file and renames it. It may fail
or die at each step. A file that does not parse is read as an empty table
(`session_store.rs:236`); since every write goes to a temporary file that is renamed, that takes
somebody else's hand in the file, and is not modelled. `SessionRecord` is the abstract specification, a table that changes
one entry at a time; the refinement maps the table to the file.

### ModelConfig, ModelCalls, ModelTables (AgentProofs, MCAgent)

`ModelConfig` has no state: inheritance between entries of the `[models]` table, the
provider created for an entry, and whether an error lets the next model be tried. An error that
is no `LlmError` has status 500, or the three-digit number that its text holds (`text_503`).
`ModelCalls` is one call: candidates in order, which of the history each provider sends,
the errors each can meet, its replies, and for streams the decoder of each protocol, fed
by events that are cut into chunks anywhere, and the loop of the chat engine that takes
in what the decoder yields. The model behind the provider is the environment; `said`
records what it said, so that the outcome can be compared with it. `ModelTables` lists
the tables, histories and operations that are checked.

### McpManager (AgentProofs, MCAgent)

One server name; its processes are numbered as they are spawned. Callers start it (check,
remove a stale one, spawn, shake hands, insert unless somebody else did), call it
(register, send to the writer task, wait at most 60 s) and may be cancelled in either; the
writer and reader task of each process, the reaper, the health check and shutdown act in
between; a process may exit at any time. A call whose future is dropped leaves its entry in the
map of pending requests (`left`) until the answer comes or the reader ends. A server answers
with a result or an error; only for the handshake does it matter which.

### MemoryIndex (AgentProofs, MCAgent)

The files on disk, the rows of the index, and three tasks: the watcher, a reindex, and the
embedding worker. A file is read first; its transaction is deferred, as `rusqlite` makes
it, so it fails at its first write when another connection has committed since its first
SELECT. A content is the sequence of its lines' lengths, which is all that chunking looks
at; `NextStart` is the arithmetic of the overlap and `Starts` the loop of `chunk_text`. A
chunk's id is new with each transaction, as the UUIDs of the code are. The statements on the
full-text and vector tables may fail one by one; the code discards their errors and commits the
rest (`WriteRows`). `failed` remembers the full-text rows this happened to, at most `MaxFailed`.

### ScriptService (MCServices)

One script; its threads are numbered as they are spawned. The map's lock is a queue of
readers and writers, first come, first served.
`execute_tool` clones the sender and lets the lock go;
listing and reload keep it while they wait for a reply or for room in the channel.
A thread serves commands, stops at a shutdown command or when no sender is left, and may
crash while it serves, upon which whoever asked removes the extension.

### TelegramPolling (ServicesProofs, MCServices)

Telegram's queue of updates, which drops an update once a poll asks for a later offset;
the offset, in memory alone; the batch of the last answer; the bus that takes what was
handled. An approval request cancels the poll under way, also when its answer is on the
way. The daemon may die anywhere and starts again without an offset.

### Desktop (ServicesProofs, MCServices)

The four fields of the window's state that decide what it shows and whether it takes input,
the two channels, and the worker's loop with the events of a chat as
`stream_with_tool_loop` yields them.

### How they fit

The modules meet at three places, and each side is modelled as what the other shows of
itself: a turn is one state in TurnLocks and HttpSessions, a whole module in
ToolTurns and one message added in Sessions; `request()` is a module in Approval and a
verdict in ToolTurns; a task is
one record in Ingress and a turn in ToolTurns. The events a chat yields are the output of
ModelCalls and the input of Desktop; the bus that TelegramPolling fills is the one Ingress
empties.

`Agent` puts McpManager, ModelCalls and MemoryIndex side by side, `Services` SessionStore,
ScriptService, TelegramPolling and Desktop: components that share no state, with their
parameters as CONSTANTS and what is stated of each under one name. The proofs of AgentProofs
and ServicesProofs are about these modules, component by component (`Memory!Spec`,
`Telegram!Spec`, ...). MCAgent and MCServices give the parameters values and check each
composition in one run, in which a behaviour is one of one component (`part`).

## 3. Runs

| Run | Shows | Bounds |
|---|---|---|
| `turn_locks` | turns under the discipline exclude each other; both locks accounted for; an honest pid file; the heartbeat yields; every wait for the lock ends | 2 HTTP requests (queue behind the gate), 2 CLI processes (two contenders outside the daemon), the heartbeat and 1 ingress task |
| `http_sessions` | map consistent, answered turns dirty, cycles only through `handle_chat_result` | 2 requests, 2 chat ids and 1 OpenAI id with MAX_SESSIONS 1 (so that creating one evicts another), 3 agents |
| `http_deadlock` | *violated*: the save task waits for an agent whose handler waits for the table | 1 chat id, otherwise the same |
| `approval` | request() returns once, as promised, and map and chat agree with it | 2 turns, UI channel of 1 (full for the second), all three modes |
| `tool_turns` | consent per execution, repeated executions, one flush per cycle, order and number of results, where results without a call may stand | 2 calls, flush at 2, compaction at 5, truncation to 3: each happens within one turn's messages. Of ingress 3 turns, 2 overlapping; over HTTP and at the terminal 5: a call is asked for, other turns add messages, the client approves, a compaction cuts between call and result (3 turns are too few for that) |
| `ingress` | nothing lost or doubled, order, untrusted text confined, delivery of what falls quiet or is closed behind, and of a burst that never pauses | 3 messages (two levels in a buffer and one behind), the owner, a user who never stops writing (`Noisy`) and a job, scripts under all three; a short payload that names a prompt and a long one that is over the limit of characters by itself; bus of 1, a second message is over the limit |
| `sessions` | one session per chat; what auto-save skips is on disk | 2 tasks of 1 chat (their lookups race), 1 CLI process, 2 messages, 2 random ids, 2 sessions made by the daemon (one restart) |
| `session_wiped` | *violated*: a second message of a new chat replaces the session of the first | the same |
| `agent` | no stray MCP server, no request left behind but those of dropped calls; finished answers whole, no half-built calls, sound fallbacks, nearest settings; an index that agrees with itself and is restored by a reindex | 2 callers, 2 processes, 1 call each, channel of 1; no table, or 3 keys that inherit in every way, fallbacks through every provider, 3 pieces of text or arguments and 2 calls; 2 files of 1 or 3 lines, 2 edits, 1 reindex, 1 batch, 1 full-text row with a failed write |
| `services` | no update of `sessions.json` undone; script operations return and replaced threads end; Telegram updates handled before they are dropped, and all of them; the window not left waiting, one answer at a time | 2 processes, 2 ids, 1 alert, 2 days; 2 clients, 3 operations each, 2 threads, channel of 2; 2 updates, 1 crash, 1 failed poll, 1 approval request, bus of 1; 2 chats, 1 other request, 1 event per chat |
| `prompt_replaced` | *violated*: after a compaction Anthropic gets the summary as its system prompt | the calls of `agent` |
| `desktop_loading` | *violated*: the window stays loading after a gated tool call | the desktop of `services` |

The state spaces are finite because requests, calls, messages and agents are bounded
by guards that name the bound (`MaxCalls`, `MaxInFlight`, `MaxMsgs`, `MaxAgents`,
`MaxProcs`, `MaxOps`, `MaxEdits` and the like); TurnLocks needs no such bound.
Two of a kind are enough for the pairwise properties
stated; three turns are there because one turn's `continue_chat` can meet the calls of
a second while a third overlaps; two threads of a script or two processes of a server let
the second be there while the first is being removed; an overlap longer than a chunk
(4 characters with 5 of overlap) and a file that ends inside a chunk are the edges of
chunking. Types are stated in most modules (`TypeOK`) and checked as a property of its own in
TurnLocks, where the proofs start from it. `CHECK_DEADLOCK FALSE` is given where the model stops
at its bound (all turns done, all messages handled). TurnLocks and `http_sessions`
check deadlock; `http_sessions` has none because a request that closes a cycle can
still be cancelled by its client. `http_deadlock` assumes fair scheduling and no such
client.

### Disagreements found

1. `http_deadlock`. `handle_chat_result` locks the table while its caller keeps the
   agent; `save_dirty_sessions` holds the table and locks the agent. The periodic save
   then never ends, and every handler that needs the table waits behind it.
2. `session_wiped`. README's `Full` strategy is a session that "persists across turns".
   Two tasks that both read `message_count == 0` both call `new_session`; the later call
   discards the turn of the earlier one.
3. `prompt_replaced`. Anthropic's `format_messages` keeps the last system message only, and
   a compaction adds its summary as one; `docs/system_prompt_generator.md:49` calls the
   generated prompt "the entire system prompt".
4. `desktop_loading`. A gated call ends the stream with `ApprovalRequired` and no `Done`, and
   only `Done` makes the worker tell the window of the call: `is_loading` ("Whether the
   agent is processing") stays set and the input disabled.

### Observations without a run

Seen while translating; each is visible in the code at the lines given.

- *Turns without locks.* Ingress tasks (`ingress/handler.rs:27`) and the desktop worker take
  neither lock, although `concurrency/workspace_lock.rs:3-5` says that it "Serializes all
  agent turns across processes (daemon, CLI, desktop)". They are the `Bare` tasks of
  TurnLocks, and `MutualExclusion` is stated for the others.
- *CLI prompt.* A yes at "Execute {}? [y/N]" (`cli/chat.rs:545`) calls `execute_tool` without
  `approve_tool_call` (581); it finds no approval and its error becomes the result.
- *Sanitizer.* `new_session` after `set_system_prompt` (`ingress/handler.rs:329-349`) puts the
  default prompt in place of the one just installed.
- *Approval.* `telegram_approval.auto_deny` is read nowhere; after an approval timeout the
  call keeps no result. In webhook mode `ui_tx.send` waits for ever once 100 requests are
  queued.
- *Ingress.* A script's message under a user's source takes the user's next messages with it:
  gathered behind it they are trusted by `combine_session` ("assumed uniform",
  `ingress/debounce.rs:105`), name no prompt, and are dropped. Two firings of a job within one
  debounce window are dropped for the same reason.
- *MCP.* A dropped `call()` leaves its entry in the pending map (`mcp_manager.rs:466-484`). `call()` waits without limit for room in the writer's channel; a request registered
  after the reader has drained the map waits its 60 s; the health check removes whichever
  process is listed when it gives up, not the one it pinged.
- *Scripts.* The removal after a crash may hit an extension that was reloaded meanwhile; a
  script that never finishes holds up every operation behind it.
- *Memory.* The older of two reads may be committed last; a transaction that loses to another
  connection drops the watcher's event; deletions are not watched; watcher and manager use
  different chunk sizes; `chunks_vec` keeps rows of removed chunks; a full-text row whose write
  failed (`memory/index.rs:351`, 415) is missing or left over until its file changes.
- *Desktop.* A slash command without its argument, or an unknown one, is sent as chat as well;
  a `Ready` that arrives after the first chat enables the input; `&output[..100]`
  (`desktop/state.rs:190`) cuts at a byte that may lie inside a character.
- *Daemon.* `daemon stop` of a supervised daemon is undone by its supervisor
  (`main.rs:40-92`); the pid file is removed before the process has ended; two starts may
  race.

### Fairness

- TurnLocks: weak fairness of a round of the lock loop. The loop sleeps 100 ms and
  tries again, and its timeout ends it. Nothing is assumed of a lock's holder.
- HttpSessions (`FairSpec`, the deadlock run only): strong fairness of each handler and
  the save task, since tokio's mutexes and the semaphore are FIFO, so nobody is
  overtaken for ever. The counterexample does not rest on unfair scheduling.
- Approval: weak fairness of showing buttons, of time, of the `select!` and of sending
  when there is room. Nothing of the user, nothing of the cleanup task.
- Ingress: weak fairness of the two loops, the tick, the last flush, and of a source's
  becoming quiet unless it is `Noisy`. Nothing of producers and tasks. So `BurstHandedOut`
  rests on the limits alone, and `Delivered` claims a noisy source's message only once the bus
  is closed.
- ScriptService: weak fairness of each operation and each thread: scripts finish what they
  were asked, and the map's lock is a queue. Nothing is assumed of crashes.
- TelegramPolling: weak fairness of the loop, which polls, fails and sleeps but goes on, and
  of the ingress loop that takes from the bus. Crashes, failures and approval requests are
  bounded, so they end.
- ToolTurns, Sessions, SessionStore, McpManager, ModelCalls, MemoryIndex and Desktop state
  safety only.

## 4. Proofs

`TurnLocksProofs` proves, for all sets of requests, CLI processes and ingress tasks
(assumed disjoint, `TasksDisjoint`; nothing about their size):

| Theorem | Statement |
|---|---|
| `TypeCorrect` | `Spec => []TypeOK` |
| `TurnsExclude` | `Spec => []MutualExclusion` |
| `NoLeakedLock` | `Spec => []LocksAccounted`, which is `FlockAccounted /\ GateAccounted` |
| `PidFileNeverStale` | `Spec => []PidFileHonest` |
| `HeartbeatNeverOvertakes` | `Spec => HeartbeatYields` |

Mutual exclusion is not inductive. The invariant `IInv` adds where each kind of task
can be (`ControlInv`: only requests queue, only the heartbeat tries), that the queue
holds exactly the queued requests, each once (`QueueInv`, needed when the permit is
handed over and when a queued request is cancelled), and the accounting of both
locks. From `FlockAccounted` mutual exclusion follows at once: one holder, one turn.
The heartbeat's action property needs `GateAccounted` and `QueueInv`: a free permit
means no request has it or waits for it. `GateAccounted` says of the heartbeat, too, that it has
the permit exactly from its `try_acquire` until it drops it (`turn`, `hbDrop`). There is one lemma per action; the temporal
theorems combine them with PTL.

`ApprovalProofs` proves, for any set of turns, any capacity of the UI channel
(`UiCapAssumption`: a positive number) and any of the three modes (`ModesAssumption`):

| Theorem | Statement |
|---|---|
| `TypeCorrect` | `Spec => []TypeOK` |
| `NoEntryLeft` | `Spec => []PendingAccounted` |
| `ChatAgrees` | `Spec => []UiNeverContradicts` |
| `NothingLostEarly` | `Spec => []LostOnlyWhenOverdue` |
| `Refinement` | `Spec => KeepsPromise`, the specification of ApprovalPromise |

Here `IInv` joins the accounting of the map (`PendingAccounted`) with where a request
can be (`ControlInv`), that every update the service holds was pressed for its call
(`UpdatesPressed`), that what the oneshot carries decides the outcome
(`OneshotDecides`), and that a request is lost only when overdue. `UpdatesPressed` and
`OneshotDecides` are what the refinement needs: a decision returned by `request()` was
pressed, by the user, for this call. Every step then maps to a press, a return or a
stutter of the promise.

`HttpSessionsProofs` proves, for any requests, ids and limit of the table (`HttpAssumption`:
the bounds are numbers, and the names of tasks and agents are apart):

| Theorem | Statement |
|---|---|
| `HttpTypeCorrect` | `Spec => []TypeOK` |
| `TableStaysConsistent` | `Spec => []MapConsistent` |
| `AnswersStayDirty` | `Spec => []AnsweredIsDirty` |
| `CyclesNowhereElse` | `Spec => []CyclesOnlyAtResult` |

A handler works with an agent it cloned from the map and finds the map changed when it comes
back. `AgentInv` says what it may still rely on: its agent is listed under no other id than
its own. So the entry it marks is the one that was answered, or the agent is listed no more.
`RecencyInv` ties the list of ids to the map, `SaveInv` the save task to the table's lock, and
`LockInv` says that whoever holds an agent's mutex is in its turn or at `handle_chat_result`,
from which the place of every cycle follows.

`IngressProofs` proves, for any sources, payloads, capacity of the bus, limits of the buffers
and number of messages (`SourcesAssumption`: the owner is no other user, and chats are no jobs;
`BoundsAssumption`, `PayloadsAssumption`):

| Theorem | Statement |
|---|---|
| `IngressTypeCorrect` | `Spec => []TypeOK` |
| `NothingLostOnTheWay` | `Spec => []Conserved` |
| `UntrustedStaysConfined` | `Spec => []UntrustedConfined` |
| `SourceOrderKept` | `Spec => []SourceOrder` |

Order and conservation need each other. Messages are numbered as they are pushed; `OrderInv`
and `BatchInv` say that every queue rises and that what is in a buffer or a batch is older
than what is in the channel, and that older than the bus. Ordered places are then disjoint;
`ApartInv` adds that two buffers, or a buffer and the batches, are, and `SomewhereInv` that no
message is missing. Trust needs `TrustInv`: a source's messages are of its own level or a
script's, a gathered message has the level of its first, and one that names a prompt or script,
which is what a trusted message needs to have an effect, was gathered of one level only.

`ToolTurnsProofs` proves, for any turns, calls and limits (`LimitsAssumption`: the soft limit
is not above the hard one):

| Theorem | Statement |
|---|---|
| `ToolTurnsTypes` | `Spec => []TypeOK` |
| `ConsentForEveryRun` | `Spec => []ConsentConserved` |
| `OneFlushPerCycle` | `Spec => []FlushOncePerCycle` |
| `CallsRunOnce` | `Spec => []RunsOnce` |
| `ResultsInOrder` | `Spec => []AnswersInOrder` |
| `OrphansStandAtCut` | `Spec => []OrphansOnlyAtCut` |

`ConsentInv` counts: an approval that was not used yet is one consent more than executions.
`FlushInv` says that a caller that has the session to itself is alone (`Alone`), that a flush
of this cycle is on record, and that a turn that has decided to flush decided so of the
present cycle (`CycleInv`). `BaseInv` joins both with the types (`Lists`, `Values`).

The other three are about the history of a caller that has the session to itself. `HistOK` says
of it that ids rise from message to message (`Shapes`, `Later`), that a result answers the
nearest calls before it (`Nearest`), that the answered calls of a message are its first ones
(`InOrder`) and answered once (`Once`), and that summaries stand in front (`SummariesFirst`).
`SessionInv` adds what ties a history to its turn: a turn between two calls holds just the calls
of the last such message that have no result (`Holding`), and a call that ran, ran once and is
still running or can be taken up no more, unless it was dropped with its request (`RanOnce`). Without `Nearest`
the steps of `continue_chat` do not preserve `InOrder`; without `SummariesFirst` a truncation, which
moves summaries to the front, would reorder the rest. Three lemmas carry the proof: what
appending a message does to such a history (`PlainAppended`, `CallsAppended`, `ResultAppended`),
what cutting its front does (`CutKeeps`, to which compaction and truncation are reduced by
`CompactedCuts` and `TruncatedCuts`), and what `Filter` takes of a sequence that holds its
elements in one stretch (`FilterStretch`, by least counterexample). Under ingress, where turns
overlap, histories have no such order. There `OwnInv` says that of all turns only the one that
received a call from the model can be asked about it, and only once, so that a gated call
has at most one consent, and `ConsentInv` bounds its executions.

`SessionsProofs` proves, for any chats, tasks, CLI processes and ids (`SessionsAssumption`:
the names of chats, processes and numbers are apart):

| Theorem | Statement |
|---|---|
| `OneCopyPerChat` | `Spec => []OneSessionPerChat` |
| `CleanSessionsOnDisk` | `Spec => []CleanIsOnDisk` |

For the first, `MapInv`: a task that works has the listed session of its chat, and it stays
listed, because the second check of `get_or_create_session` is under the write lock. For the
second, `StoreInv`: ids in use were drawn before, so a random one is new (`DrawnInv`); two
sessions of one id are recorded (`SharedInv`); a session that is being saved is held by its
writer, and is dirty until its last line is written (`SavingInv`); its file is a first part of
its messages (`PrefixInv`), so that a kill or failure between two lines leaves it dirty.

`ServicesProofs` proves (`StoreAssumption`: the bound on days is a number and `None` is no
process; nothing is assumed of the constants of TelegramPolling and Desktop):

| Theorem | Statement |
|---|---|
| `UpdatesAreFresh` | `Spec => [](LockHeld /\ CopyFresh)` |
| `OthersKept` | `Spec => KeepsOthers`, the specification of SessionRecord |
| `UpdatesHandledFirst` | `Telegram!Spec => []HandledBeforeGone` |
| `WindowNotLeftWaiting` | `Window!Spec => []LoadingAccounted` |
| `TextsNeverMixed` | `Window!Spec => []OneAnswerShown` |

Of the store, `IInv` joins the types with `LockHeld` (whoever is inside `load_and_update` holds
the lock) and `CopyFresh` (its copy is the present file, or that file with the entry of its job
changed). Neither is inductive alone: the copy stays fresh because nobody else renames, and
nobody else renames because of the lock. A rename then maps to an update of one entry, every
other step to a stutter. Of the poll, `PollInv`: an answer and a batch are runs of consecutive
updates (`AnswerInv`, `BatchInv`), and what lies before the offset was handled but for the
update at hand (`OffsetInv`). Of the window, `WindowInv`: chats wait in order (`ChatInv`), a
loading window has a chat or its end under way (`LoadingInv`), and of the texts on their way
each is of the chat shown or comes behind a message that wipes it (`TextInv`).

`AgentProofs` proves (`McpAssumption`: the bounds are numbers and the health check is no
caller; `ContentsAssumption`: a text is a sequence of line lengths, and `None` is none;
`ErrorsAssumption`: `None` is none of the kinds of error; `TablesAssumption`: a table of models has finitely many
keys, none of them `None`, and its entries have all their fields; `StreamAssumption`: the bound
on calls is a number, and `None` is no number, no list of calls and no event in part):

| Theorem | Statement |
|---|---|
| `McpTypeCorrect` | `Spec => []TypeOK` |
| `NoStrayServerEver` | `Spec => []NoStrayServer` |
| `NoEntryLeftEver` | `Spec => []NoEntryLeft` |
| `FallbackStaysSound` | `Calls!Spec => []FallbackSound` |
| `SettingsAreNearest` | `Calls!Spec => []ResolveIsNearest` |
| `AnswersAreWhole` | `Calls!Spec => []DoneMeansWhole` |
| `IndexStaysSound` | `Memory!Spec => []IndexSound` |
| `ReindexMakesRight` | `Memory!Spec => ReindexRestores` |

Of the MCP manager, `StarterInv` says that a process that is being started is in one pair of
hands and not listed, `BoxInv` that what is in a oneshot was taken out of the map of pending
requests, and `EntryInv` is `NoEntryLeft` with the types of requests. `LeftInv` says that an
entry left by a dropped call is of an earlier call than the one its caller now makes: a caller
that is done never takes another's exception for its own. Of a model call,
`CallInv`: each model passed over failed with an error its settings let pass (`AskedInv`), and
until a stream or reply begins there is nothing of an answer (`AnswerInv`); that proof assumes
nothing of the table of models, nor of what resolving an entry yields.

What resolving yields is `SettingsAreNearest`. `Runs` describes a recursive function over a range
of numbers step by step; `Recursion` and `RunsAgree`, by least counterexample, say that there is
one such function. The walk along `extend` (`Follow`) is then compared, turn by turn, with the
line of ancestors that the property speaks of (`WalkEnds`): it has come to the top of
the line, or is `Astray`, at a key that is not in the table or was visited before. It cannot
still be climbing after as many turns as there are keys, because those it has visited are
distinct (`FS_Subset`). A line that comes back to itself has no end (`NoEnd`), so the error is
right. The merge along the chain, from the farthest ancestor on, takes of each field the first
that is set (`FirstSet`, `MergedIs`).

What a stream leaves is `AnswersAreWhole`, for any number of pieces, calls and notes. `Heard(s)`
relates what the model said, `s`, to what the consumer has of it (`Gathered`) and to what the
decoder of its provider has (`Decoded`): OpenAI's calls by index (`ByIndex`), Anthropic's
finished blocks and the one under way (`ByBlock`), the length of text that the Claude CLI has
passed on (`ByLength`). That is not inductive of `said`, since the model may have said an event of
which only a part has arrived; `WholeInv` says that some `s`, of which `said` is at most that one
event ahead, was heard (`OnItsWay`). There is one lemma per provider (`OpenAIHears`,
`AnthropicHears`, `OllamaHears`, `CliHears`), which covers each event it may send, and `EventForms`
says which those are. The recursive functions behind `Plainly`, which strips the marks off
garbled pieces, and `CallList`, which sorts calls by index, are followed step by step as above
(`PlainlyNext`, `CallListSame`). For texts of several messages of the Claude CLI nothing is
claimed: `last_text_len` is not reset between them; nor for a chunk of OpenAI's that has both
usage and content (`providers.rs:649`). A stream that ends without its last event is recorded
with the text that came; the property then claims only that no call was.

The memory index is proved in three parts. That the chunks of a text hold every one of its lines
(`EveryLineInAChunk`) is about the recursive function `Starts`. The induction is written as
a least counterexample: `LeastNumber` follows from the library's `WFMin`, which is about sets;
from it follow that `Starts` is defined (`BeginsExists`, `StartsAre`), that a chunk begins at
or before each of its lines (`StartsFacts`), and that the first chunk to end at or behind a line
has not begun behind it. Any sizes of chunk and overlap will do. `TablesInv` is `IndexSound`
table by table (`FtsInv`: the full-text table differs from the chunks in rows with a failed write
only) with `RowsInv`: the chunks of one transaction are of one content of one file, also
those the embedding worker has fetched and the table has lost since, which is why its late
UPDATE meets either the same text or no row. `QuietInv` says which files an undisturbed
reindex has right already: while it cleans, none has gone but those on its list and the one it
is removing; then none differs from the disk but those on its list and the one it is at.

### What is only model-checked

Liveness (`LockWaitEnds`, `RequestReturns`, `Delivered`, `BurstHandedOut`, `OperationsReturn`, `ReplacedEnds`,
`EveryUpdateHandled`), which needs fairness and ENABLED. Every invariant and
every action property of a passing run is a theorem.

## 5. Not modelled

- Text: prompts, sanitising, formatting, configuration parsing. Only their effect on
  control (which limit, which trust level, which prompt) appears.
- The text of requests to providers and Telegram. What a provider leaves out of a history,
  and how its stream is decoded, is in ModelCalls.
- Tools, sandbox, audio, attachments: single-shot I/O. A tool is one execution that ends or is
  dropped with its request.
- The ops of the Deno runtime with their permission checks, and the JavaScript engine: one
  call each, without state of their own.
- Memory search (ranking inside SQLite), artifacts, templates.
- Disk monitor: one flag, read by two tools before they write. A property would restate it.
- Daemon lifecycle: start, stop and restart go by a pid file without a lock; what one would
  want to state does not hold, and no document promises it.
- The Hive and tmux_bridge extensions: JavaScript programs that the script service runs.
- Crashes of the daemon in HttpSessions, Ingress and Approval: those parts keep their
  state in memory, so a restart is Init.
- A `sessions.json` spoilt from outside (see SessionStore).

## 6. Plan

The parts of the system with state of their own are modelled, and the safety that TLC checks of
them is proved. What would come next:

1. The Claude CLI's text over several messages, should the code come to reset the length shown.
2. A lemma that ToolTurns' histories are ones `ModelCalls` accepts, so that `Cases` need not be
   listed by hand.
3. The shell of the daemon (start, stop, restart), should it come to lock its pid file.
