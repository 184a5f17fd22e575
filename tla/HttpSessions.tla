---------------------------- MODULE HttpSessions ----------------------------
(***************************************************************************)
(* The session table of the HTTP server (server/http.rs, server/openai.rs) *)
(* and the three locks its handlers nest:                                  *)
(*                                                                         *)
(*   table       AppState::sessions, a mutex around the whole map          *)
(*   agentLock   one mutex per Agent object, shared by the map entry and   *)
(*               the handlers that cloned its Arc                          *)
(*   gate        the TurnGate permit                                       *)
(*                                                                         *)
(* A turn takes gate, table (briefly), agent and then, to mark the entry   *)
(* dirty, table again.  The OpenAI handler drops the agent first; chat and *)
(* approve_tool do not, while the save task and the session endpoints hold *)
(* table and wait for an agent.  An entry can be evicted, expired, deleted *)
(* and created anew under the same id while a turn runs on its old agent.  *)
(***************************************************************************)
EXTENDS Integers, Sequences, FiniteSets, SequencesExt

CONSTANTS
    Reqs,           \* request slots
    ChatIds,        \* session ids of the native endpoints
    OpenAiIds,      \* ids derived from OpenAI requests ("openai-...")
    MaxSessions,    \* MAX_SESSIONS
    MaxAgents,      \* bound of the model on Agent objects created
    saver,          \* the save task
    Nobody, NoAgent

Ids == ChatIds \union OpenAiIds

\* Agent objects, in the order they are created.
Agents == 1..MaxAgents

ASSUME HttpAssumption ==
    /\ ChatIds \intersect OpenAiIds = {}
    /\ MaxSessions \in Nat \ {0}
    /\ MaxAgents \in Nat
    /\ NoAgent \notin Agents
    /\ saver \notin Reqs
    /\ Nobody \notin Reqs \union {saver}

VARIABLES
    agentOf,    \* the map: the agent of each id, NoAgent for an absent id
    dirty,      \* the ids whose entry is dirty
    recency,    \* the ids in the map, least recently accessed first
    used,       \* number of Agent objects created so far
    table,      \* holder of the sessions mutex
    agentLock,  \* holder of each agent's mutex
    gate,       \* holder of the TurnGate permit
    req,        \* what each request is: kind, id and the agent Arc it cloned
    pc,         \* where each request is
    saving,     \* ids the save task still has to visit
    unsaved     \* agents with an answered turn of a handler that marks after its
                \* turn (chat, approve_tool, OpenAI) that is not yet on disk

map == <<agentOf, dirty, recency, used>>
vars == <<map, table, agentLock, gate, req, pc, saving, unsaved>>

Kinds == {"chat", "approve", "stream", "openai", "admin"}
States == {"idle", "create", "gate", "fetch", "agent", "turn", "mark"}
NoReq == [kind |-> "none", id |-> Nobody, agent |-> NoAgent]

InMap(s) == agentOf[s] # NoAgent

\* Mutant: an accessed id is listed again.
TouchAgain(s, rec) == Append(rec, s)

\* last_accessed = Instant::now(): s becomes the most recent.
Touch(s, rec) == Append(RemoveFirst(rec, s), s)

Init ==
    /\ agentOf = [s \in Ids |-> NoAgent]
    /\ dirty = {}
    /\ recency = <<>>
    /\ used = 0
    /\ table = Nobody
    /\ agentLock = [a \in Agents |-> Nobody]
    /\ gate = Nobody
    /\ req = [r \in Reqs |-> NoReq]
    /\ pc = [r \in Reqs |-> "idle"]
    /\ saving = {}
    /\ unsaved = {}

-----------------------------------------------------------------------------
(* The map, changed only by a task that holds the table mutex.             *)

\* The entries without the ids of X; rest is what remains of the recency list.
DropEntries(X, rest) ==
    /\ agentOf' = [s \in Ids |-> IF s \in X THEN NoAgent ELSE agentOf[s]]
    /\ dirty' = dirty \ X
    /\ recency' = rest
    /\ UNCHANGED used

\* A new agent and a dirty entry for s, after removing the ids of X.
Insert(s, X, rest) ==
    /\ used + 1 \in Agents
    /\ used' = used + 1
    /\ agentOf' = [i \in Ids |-> CASE i = s -> used + 1
                                   [] i \in X \ {s} -> NoAgent
                                   [] OTHER -> agentOf[i]]
    /\ dirty' = (dirty \ X) \union {s}
    /\ recency' = Append(rest, s)

\* An id that is present is only touched.
TouchEntry(s) ==
    /\ recency' = Touch(s, recency)
    /\ UNCHANGED <<agentOf, dirty, used>>

\* get_or_create_session: evict the least recently accessed entry, saved or
\* not, when the table is full.
GetOrCreate(s) ==
    CASE InMap(s) -> TouchEntry(s)
      [] ~InMap(s) /\ Len(recency) < MaxSessions -> Insert(s, {}, recency)
      [] ~InMap(s) /\ Len(recency) >= MaxSessions -> Insert(s, {Head(recency)}, Tail(recency))

\* The lookup of chat_completions, which knows no limit.
OpenAiGetOrCreate(s) ==
    IF InMap(s) THEN TouchEntry(s) ELSE Insert(s, {}, recency)

-----------------------------------------------------------------------------
(* Requests that run a turn.                                               *)

FirstState(k) == CASE k = "approve" -> "gate"
                   [] k = "admin" -> "fetch"
                   [] OTHER -> "create"

Arrive(r, k, s) ==
    /\ pc[r] = "idle"
    /\ k = "openai" => s \in OpenAiIds
    /\ req' = [req EXCEPT ![r] = [kind |-> k, id |-> s, agent |-> NoAgent]]
    /\ pc' = [pc EXCEPT ![r] = FirstState(k)]
    /\ UNCHANGED <<map, table, agentLock, gate, saving, unsaved>>

Create(r) ==
    /\ pc[r] = "create"
    /\ table = Nobody
    /\ IF req[r].kind = "openai"
         THEN /\ OpenAiGetOrCreate(req[r].id)
              /\ req' = [req EXCEPT ![r].agent = agentOf'[req[r].id]]
         ELSE GetOrCreate(req[r].id) /\ UNCHANGED req
    /\ pc' = [pc EXCEPT ![r] = "gate"]
    /\ UNCHANGED <<table, agentLock, gate, saving, unsaved>>

AcquireGate(r) ==
    /\ pc[r] = "gate"
    /\ gate = Nobody
    /\ gate' = r
    /\ pc' = [pc EXCEPT ![r] = IF req[r].kind = "openai" THEN "agent" ELSE "fetch"]
    /\ UNCHANGED <<map, table, agentLock, req, saving, unsaved>>

\* What a request that ends, answered or not, gives back.
Leave(r) ==
    /\ pc' = [pc EXCEPT ![r] = "idle"]
    /\ req' = [req EXCEPT ![r] = NoReq]
    /\ gate' = IF gate = r THEN Nobody ELSE gate
    /\ table' = IF table = r THEN Nobody ELSE table
    /\ agentLock' = [a \in Agents |-> IF agentLock[a] = r THEN Nobody ELSE agentLock[a]]

\* The workspace lock could not be had: 500.
LockFailed(r) ==
    /\ gate = r
    /\ pc[r] = (IF req[r].kind = "openai" THEN "agent" ELSE "fetch")
    /\ Leave(r)
    /\ UNCHANGED <<map, saving, unsaved>>

\* Clone the agent of an entry that is still there, 404 if it is not.  Only the
\* stream handler marks its entry here, before its turn.
Fetch(r) ==
    /\ pc[r] = "fetch"
    /\ req[r].kind # "admin"
    /\ table = Nobody
    /\ LET s == req[r].id IN
       \/ /\ InMap(s)
          /\ recency' = Touch(s, recency)
          /\ dirty' = IF req[r].kind = "stream" THEN dirty \union {s} ELSE dirty
          /\ req' = [req EXCEPT ![r].agent = agentOf[s]]
          /\ pc' = [pc EXCEPT ![r] = "agent"]
          /\ UNCHANGED <<agentOf, used, gate, table, agentLock>>
       \/ /\ ~InMap(s)
          /\ Leave(r)
          /\ UNCHANGED map
    /\ UNCHANGED <<saving, unsaved>>

LockAgent(r) ==
    /\ pc[r] = "agent"
    /\ agentLock[req[r].agent] = Nobody
    /\ agentLock' = [agentLock EXCEPT ![req[r].agent] = r]
    /\ pc' = [pc EXCEPT ![r] = "turn"]
    /\ UNCHANGED <<map, table, gate, req, saving, unsaved>>

\* Mutant: the OpenAI handler keeps its agent while it marks the entry.
EndTurnKeepsAgent(r) ==
    /\ pc[r] = "turn"
    /\ req[r].kind \in {"chat", "approve", "openai"}
    /\ pc' = [pc EXCEPT ![r] = "mark"]
    /\ UNCHANGED <<map, table, agentLock, gate, req, saving, unsaved>>

\* chat() or continue_chat() returned an answer or an approval request.  The
\* OpenAI handlers drop the agent before they mark, the others keep it.
EndTurn(r) ==
    /\ pc[r] = "turn"
    /\ req[r].kind \in {"chat", "approve", "openai"}
    /\ pc' = [pc EXCEPT ![r] = "mark"]
    /\ agentLock' = IF req[r].kind = "openai"
                      THEN [agentLock EXCEPT ![req[r].agent] = Nobody]
                      ELSE agentLock
    /\ UNCHANGED <<map, table, gate, req, saving, unsaved>>

\* handle_chat_result and the tails of openai.rs: mark whatever entry has this
\* id now, answer, and drop the remaining guards.
Mark(r) ==
    /\ pc[r] = "mark"
    /\ table = Nobody
    /\ dirty' = IF InMap(req[r].id) THEN dirty \union {req[r].id} ELSE dirty
    /\ unsaved' = unsaved \union {req[r].agent}
    /\ Leave(r)
    /\ UNCHANGED <<agentOf, recency, used, saving>>

\* The stream ends; its entry was marked before the turn, and not again.
EndStream(r) ==
    /\ pc[r] = "turn"
    /\ req[r].kind = "stream"
    /\ Leave(r)
    /\ UNCHANGED <<map, saving, unsaved>>

\* A failing turn: 500, nothing marked.
FailTurn(r) ==
    /\ pc[r] = "turn"
    /\ req[r].kind # "admin"
    /\ Leave(r)
    /\ UNCHANGED <<map, saving, unsaved>>

\* The client disconnects while the handler waits; its guards are dropped.
Cancel(r) ==
    /\ pc[r] # "idle"
    /\ Leave(r)
    /\ UNCHANGED <<map, saving, unsaved>>

-----------------------------------------------------------------------------
(* The session endpoints: status, messages, compact, clear and model hold  *)
(* the table mutex while they wait for the agent.                          *)

AdminLock(r) ==
    /\ pc[r] = "fetch"
    /\ req[r].kind = "admin"
    /\ table = Nobody
    /\ LET s == req[r].id IN
       \/ /\ InMap(s)
          /\ table' = r
          /\ TouchEntry(s)
          /\ req' = [req EXCEPT ![r].agent = agentOf[s]]
          /\ pc' = [pc EXCEPT ![r] = "agent"]
          /\ UNCHANGED <<gate, agentLock>>
       \/ ~InMap(s) /\ Leave(r) /\ UNCHANGED map
    /\ UNCHANGED <<saving, unsaved>>

AdminDone(r) ==
    /\ pc[r] = "turn"
    /\ req[r].kind = "admin"
    /\ Leave(r)
    /\ UNCHANGED <<map, saving, unsaved>>

DeleteSession(s) ==
    /\ table = Nobody
    /\ InMap(s)
    /\ DropEntries({s}, RemoveFirst(recency, s))
    /\ UNCHANGED <<table, agentLock, gate, req, pc, saving, unsaved>>

\* cleanup_expired_sessions: whatever was not accessed for 30 minutes goes,
\* dirty or not; the oldest n entries, for some n.
Cleanup(n) ==
    /\ table = Nobody
    /\ n \in 1..Len(recency)
    /\ DropEntries({recency[i] : i \in 1..n}, SubSeq(recency, n + 1, Len(recency)))
    /\ UNCHANGED <<table, agentLock, gate, req, pc, saving, unsaved>>

-----------------------------------------------------------------------------
(* save_dirty_sessions: table held from start to end.                      *)

SaveStart ==
    /\ table = Nobody
    /\ table' = saver
    /\ saving' = dirty
    /\ UNCHANGED <<map, agentLock, gate, req, pc, unsaved>>

\* Mutant: the dirty flag is cleared although the write failed.
SaveEntryBlind(s) ==
    /\ table = saver
    /\ s \in saving
    /\ agentLock[agentOf[s]] = Nobody
    /\ saving' = saving \ {s}
    /\ \/ unsaved' = unsaved \ {agentOf[s]}
       \/ UNCHANGED unsaved
    /\ dirty' = dirty \ {s}
    /\ UNCHANGED <<agentOf, recency, used, table, agentLock, gate, req, pc>>

\* One entry: lock its agent, write, clear the flag if the write succeeded.
SaveEntry(s) ==
    /\ table = saver
    /\ s \in saving
    /\ agentLock[agentOf[s]] = Nobody
    /\ saving' = saving \ {s}
    /\ \/ /\ unsaved' = unsaved \ {agentOf[s]}
          /\ dirty' = dirty \ {s}
       \/ UNCHANGED <<unsaved, dirty>>
    /\ UNCHANGED <<agentOf, recency, used, table, agentLock, gate, req, pc>>

SaveEnd ==
    /\ table = saver
    /\ saving = {}
    /\ table' = Nobody
    /\ UNCHANGED <<map, agentLock, gate, req, pc, saving, unsaved>>

-----------------------------------------------------------------------------
Handler(r) ==
    \/ Create(r) \/ AcquireGate(r) \/ Fetch(r) \/ LockAgent(r) \/ EndTurn(r)
    \/ Mark(r) \/ EndStream(r) \/ AdminLock(r) \/ AdminDone(r)

Save == SaveStart \/ SaveEnd \/ \E s \in Ids : SaveEntry(s)

Next ==
    \/ \E r \in Reqs, k \in Kinds, s \in Ids : Arrive(r, k, s)
    \/ \E r \in Reqs : Handler(r) \/ LockFailed(r) \/ FailTurn(r) \/ Cancel(r)
    \/ \E s \in Ids : DeleteSession(s)
    \/ \E n \in 1..Cardinality(Ids) : Cleanup(n)
    \/ Save

\* Handlers and the save task run whenever they can and every turn ends; the
\* mutexes are fair (tokio queues their waiters), hence strong fairness.
Fairness ==
    /\ \A r \in Reqs : SF_vars(Handler(r))
    /\ SF_vars(Save)

Spec == Init /\ [][Next]_vars
FairSpec == Spec /\ Fairness

-----------------------------------------------------------------------------
(* Properties.                                                             *)

TypeOK ==
    /\ agentOf \in [Ids -> Agents \union {NoAgent}]
    /\ dirty \subseteq {s \in Ids : InMap(s)}
    /\ recency \in Seq(Ids)
    /\ used \in 0..MaxAgents
    /\ table \in Reqs \union {saver, Nobody}
    /\ agentLock \in [Agents -> Reqs \union {Nobody}]
    /\ gate \in Reqs \union {Nobody}
    /\ \A r \in Reqs :
         /\ pc[r] \in States
         /\ req[r] = NoReq \/ (req[r].kind \in Kinds /\ req[r].id \in Ids)
    /\ saving \subseteq dirty
    /\ unsaved \subseteq Agents

\* The recency list holds exactly the ids of the map, and no two ids share an
\* agent, through any sequence of evictions, expiries, deletions and re-creations.
MapConsistent ==
    /\ {recency[i] : i \in 1..Len(recency)} = {s \in Ids : InMap(s)}
    /\ Len(recency) = Cardinality({s \in Ids : InMap(s)})
    /\ \A s, t \in Ids : InMap(s) /\ agentOf[s] = agentOf[t] => s = t

\* An answered turn of chat, approve_tool or an OpenAI request on an agent that
\* is still in the map is on disk or will be: its entry is dirty.
AnsweredIsDirty ==
    \A s \in Ids : agentOf[s] \in unsaved => s \in dirty

\* What a task waits for.
WaitsForTable(r) == r \in Reqs /\ pc[r] \in {"create", "mark"} \union
    (IF req[r].kind \in {"chat", "approve", "stream", "admin"} THEN {"fetch"} ELSE {})
WaitsForAgent(t, a) == \/ t \in Reqs /\ pc[t] = "agent" /\ req[t].agent = a
                       \/ t = saver /\ table = saver /\ \E s \in saving : agentOf[s] = a

\* Two tasks wait for each other: one holds table and needs an agent whose
\* holder needs table.
Cycle(t, u) == /\ table = t
               /\ \E a \in Agents : WaitsForAgent(t, a) /\ agentLock[a] = u
               /\ WaitsForTable(u)

\* The only handlers that can close a cycle are chat and approve_tool at their
\* handle_chat_result: the OpenAI and streaming handlers never hold an agent
\* while they need the table.
CyclesOnlyAtResult ==
    \A t \in Reqs \union {saver}, u \in Reqs :
        Cycle(t, u) => req[u].kind \in {"chat", "approve"} /\ pc[u] = "mark"

\* http.rs says "Spawn session save task (save every 5 minutes)": a save that
\* has begun is completed, so that the next can run.
SaveCompletes == table = saver ~> table # saver
=============================================================================
