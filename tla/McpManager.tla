----------------------------- MODULE McpManager -----------------------------
(***************************************************************************)
(* The manager of MCP servers (agent/mcp_manager.rs): child processes that *)
(* are started on demand, shared by concurrent callers, called over their  *)
(* stdin and stdout, reaped when idle or dead, and pinged.                 *)
(*                                                                         *)
(* One server name is modelled; its processes are numbered in the order    *)
(* they are spawned.  Callers are the extension threads (ops               *)
(* op_zier_mcp_* of scripting/deno.rs); "health" is the task of            *)
(* perform_health_checks.  A request is its caller and the number of that  *)
(* caller's call; number 0 is the handshake.  The code draws request ids   *)
(* from the clock in nanoseconds; here they are distinct.                  *)
(***************************************************************************)
EXTENDS Naturals, Sequences, FiniteSets, SequencesExt

CONSTANTS
    Callers,    \* extension threads
    health,     \* the health check task
    MaxProcs,   \* bound: processes spawned
    MaxCalls,   \* bound: calls by each caller
    Cap         \* room in the channel to the writer task (32 in the code)

ASSUME McpAssumption ==
    /\ health \notin Callers
    /\ MaxProcs \in Nat /\ MaxCalls \in Nat /\ Cap \in Nat \ {0}

Everyone == Callers \union {health}
Procs == 1..MaxProcs
Requests == [from : Everyone, n : 0..MaxCalls]

VARIABLES
    slot,       \* the process in McpManager::servers, 0 if there is none
    made,       \* processes spawned so far
    up,         \* processes that run
    reading,    \* processes whose reader task runs
    writing,    \* processes whose writer task runs
    chan,       \* requests in the channel of each writer task
    taken,      \* requests each process has read and not answered
    pending,    \* ServerHandle::pending of each process
    left,       \* the entries in it whose call was dropped
    idle,       \* last_used of the listed process is older than the idle timeout
    pc,         \* where each caller is
    at,         \* the process it works with
    calls,      \* calls it has made
    box,        \* its oneshot: "empty", "answer", "error" or "gone"
    dropped     \* running processes whose starter was cancelled

procs == <<slot, made, up, idle, dropped>>
tasks == <<reading, writing, chan, taken, pending, left>>
callers == <<pc, at, calls, box>>
vars == <<procs, tasks, callers>>

Init ==
    /\ slot = 0 /\ made = 0
    /\ up = {} /\ reading = {} /\ writing = {} /\ idle = FALSE
    /\ chan = [p \in Procs |-> <<>>]
    /\ taken = [p \in Procs |-> {}]
    /\ pending = [p \in Procs |-> {}]
    /\ left = [p \in Procs |-> {}]
    /\ pc = [c \in Everyone |-> "free"]
    /\ at = [c \in Everyone |-> 0]
    /\ calls = [c \in Everyone |-> 0]
    /\ box = [c \in Everyone |-> "empty"]
    /\ dropped = {}

Goto(c, s) == pc' = [pc EXCEPT ![c] = s]
Req(c) == [from |-> c, n |-> calls[c]]
Handshake(c) == [from |-> c, n |-> 0]

\* The operation of c returns and its locals are dropped.
Free(c, s) ==
    /\ Goto(c, s)
    /\ at' = [at EXCEPT ![c] = 0]
    /\ box' = [box EXCEPT ![c] = "empty"]

\* The process is gone, by kill().await and wait().await or by itself.
KillProc(p) ==
    /\ up' = up \ {p}
    /\ taken' = [taken EXCEPT ![p] = {}]
    /\ dropped' = dropped \ {p}

\* Its shutdown_tx was used or dropped: nobody holds its handle any more.
Closing(p) == p # slot /\ \A c \in Everyone : at[c] = p => pc[c] \notin {"handshake", "insert"}

other == <<reading, writing, chan, pending, left>>

(***************************************************************************)
(* ensure_server                                                           *)
(***************************************************************************)
\* The optimistic check, under the read lock of the map.
EnsureCheck(c) ==
    /\ c \in Callers /\ pc[c] = "free"
    /\ IF slot # 0 /\ slot \in up
       THEN idle' = FALSE /\ UNCHANGED pc
       ELSE Goto(c, IF slot = 0 THEN "spawn" ELSE "stale") /\ UNCHANGED idle
    /\ UNCHANGED <<slot, made, up, dropped, tasks, at, calls, box>>

\* The handle of a dead process is removed, if it is still one under the write
\* lock.  Dropping it drops its shutdown_tx.
EnsureRemoveStale(c) ==
    /\ pc[c] = "stale"
    /\ IF slot \notin up
       THEN slot' = 0 /\ idle' = FALSE
       ELSE UNCHANGED <<slot, idle>>
    /\ Goto(c, "spawn")
    /\ UNCHANGED <<made, up, dropped, tasks, at, calls, box>>

\* The process is spawned with its tasks, and the handshake is on its way.
EnsureSpawn(c) ==
    /\ pc[c] = "spawn" /\ made < MaxProcs
    /\ LET p == made + 1
       IN  /\ made' = p
           /\ up' = up \union {p}
           /\ reading' = reading \union {p} /\ writing' = writing \union {p}
           /\ pending' = [pending EXCEPT ![p] = {Handshake(c)}]
           /\ chan' = [chan EXCEPT ![p] = <<Handshake(c)>>]
           /\ at' = [at EXCEPT ![c] = p]
    /\ Goto(c, "handshake")
    /\ UNCHANGED <<slot, idle, dropped, taken, left, calls, box>>

\* No such config, or no such command.
EnsureSpawnFails(c) ==
    /\ pc[c] = "spawn"
    /\ Free(c, "free")
    /\ UNCHANGED <<procs, tasks, calls>>

\* The server answered, and "initialized" went into the channel.
EnsureReady(c) ==
    /\ pc[c] = "handshake" /\ box[c] = "answer" /\ at[c] \in writing
    /\ Goto(c, "insert")
    /\ box' = [box EXCEPT ![c] = "empty"]
    /\ UNCHANGED <<procs, tasks, at, calls>>

\* The server answered with an error, or it is gone, or ten seconds have passed:
\* it is killed.
EnsureHandshakeFails(c) ==
    /\ pc[c] = "handshake" /\ (box[c] # "answer" \/ at[c] \notin writing)
    /\ KillProc(at[c])
    /\ Free(c, "free")
    /\ UNCHANGED <<slot, made, idle, other, calls>>

\* Mutant: the redundant process is left alone.
EnsureInsertLeaves(c) ==
    /\ pc[c] = "insert"
    /\ slot' = IF slot # 0 THEN slot ELSE at[c]
    /\ idle' = FALSE
    /\ Free(c, "free")
    /\ UNCHANGED <<made, up, dropped, tasks, calls>>

\* The handle is put into the map; if another task was faster, its process is
\* used and this one is killed.
EnsureInsert(c) ==
    /\ pc[c] = "insert"
    /\ IF slot # 0
       THEN KillProc(at[c]) /\ UNCHANGED slot
       ELSE slot' = at[c] /\ UNCHANGED <<up, taken, dropped>>
    /\ idle' = FALSE
    /\ Free(c, "free")
    /\ UNCHANGED <<made, other, calls>>

\* The future of ensure_server is dropped, with the turn that awaits it: the
\* channel's sender and shutdown_tx go with it, the process is not killed.
EnsureCancelled(c) ==
    /\ pc[c] \in {"handshake", "insert"}
    /\ dropped' = dropped \union ({at[c]} \intersect up)
    /\ Free(c, "free")
    /\ UNCHANGED <<slot, made, up, idle, tasks, calls>>

(***************************************************************************)
(* The tasks of a server, and the server itself (external)                 *)
(***************************************************************************)
\* The writer writes the next request; the server may also leave its stdin
\* unread, and then this never happens.
WriterWrites(p) ==
    /\ p \in writing /\ p \in up /\ chan[p] # <<>>
    /\ taken' = [taken EXCEPT ![p] = @ \union {Head(chan[p])}]
    /\ chan' = [chan EXCEPT ![p] = Tail(@)]
    /\ UNCHANGED <<procs, reading, writing, pending, left, callers>>

\* Writing to a dead process fails and ends the task: the channel is closed.  So
\* does an empty channel whose senders are all dropped.
WriterEnds(p) ==
    /\ p \in writing
    /\ \/ p \notin up /\ chan[p] # <<>>
       \/ Closing(p) /\ chan[p] = <<>> /\ \A c \in Everyone : at[c] # p
    /\ writing' = writing \ {p}
    /\ chan' = [chan EXCEPT ![p] = <<>>]
    /\ UNCHANGED <<procs, reading, taken, pending, left, callers>>

\* The server answers with a result or an error.  Only for a handshake does it
\* matter which: a ping that is answered with an error was answered.
Replies(r) == IF r.n = 0 THEN {"answer", "error"} ELSE {"answer"}

\* The server answers a request it has read, and the reader hands it to whoever
\* waits for it.
ServerAnswers(p) ==
    /\ p \in up
    /\ \E r \in taken[p] : \E s \in Replies(r) :
        /\ taken' = [taken EXCEPT ![p] = @ \ {r}]
        /\ IF p \in reading /\ r \in pending[p]
           THEN /\ pending' = [pending EXCEPT ![p] = @ \ {r}]
                /\ left' = [left EXCEPT ![p] = @ \ {r}]
                /\ box' = IF at[r.from] = p /\ r \in {Req(r.from), Handshake(r.from)}
                          THEN [box EXCEPT ![r.from] = s] ELSE box
           ELSE UNCHANGED <<pending, left, box>>
    /\ UNCHANGED <<procs, reading, writing, chan, pc, at, calls>>

\* Its stdout ends, or the shutdown signal arrives: everyone who is waiting is
\* told.
ReaderEnds(p) ==
    /\ p \in reading /\ (p \notin up \/ Closing(p))
    /\ reading' = reading \ {p}
    /\ box' = [c \in Everyone |->
                 IF at[c] = p /\ pending[p] \intersect {Req(c), Handshake(c)} # {}
                 THEN "gone" ELSE box[c]]
    /\ pending' = [pending EXCEPT ![p] = {}]
    /\ left' = [left EXCEPT ![p] = {}]
    /\ UNCHANGED <<procs, writing, chan, taken, pc, at, calls>>

\* The server process exits by itself.
ServerExits(p) ==
    /\ p \in up
    /\ KillProc(p)
    /\ UNCHANGED <<slot, made, idle, other, callers>>

(***************************************************************************)
(* call                                                                    *)
(***************************************************************************)
\* Where a caller goes after a call: the health check goes on to remove the
\* server unless it answered.
After(c, answered) == IF c = health /\ ~answered THEN "unhealthy" ELSE "free"

\* The lookup under the read lock; last_used is set.
CallLookup(c) ==
    /\ pc[c] = "free" /\ calls[c] < MaxCalls
    /\ c = health => slot # 0
    /\ calls' = [calls EXCEPT ![c] = @ + 1]
    /\ IF slot = 0
       THEN UNCHANGED <<pc, at, idle>>
       ELSE /\ at' = [at EXCEPT ![c] = slot]
            /\ idle' = FALSE
            /\ Goto(c, "register")
    /\ UNCHANGED <<slot, made, up, dropped, tasks, box>>

\* The entry in the map of pending requests, whatever became of the server.
CallRegister(c) ==
    /\ pc[c] = "register"
    /\ pending' = [pending EXCEPT ![at[c]] = @ \union {Req(c)}]
    /\ Goto(c, "send")
    /\ UNCHANGED <<procs, reading, writing, chan, taken, left, at, calls, box>>

\* The request goes into the channel, when there is room.
CallSend(c) ==
    /\ pc[c] = "send" /\ at[c] \in writing /\ Len(chan[at[c]]) < Cap
    /\ chan' = [chan EXCEPT ![at[c]] = Append(@, Req(c))]
    /\ Goto(c, "wait")
    /\ UNCHANGED <<procs, reading, writing, taken, pending, left, at, calls, box>>

Forget(c) == pending' = [pending EXCEPT ![at[c]] = @ \ {Req(c)}]

\* The channel is closed.
CallSendFails(c) ==
    /\ pc[c] = "send" /\ at[c] \notin writing
    /\ Forget(c)
    /\ Free(c, After(c, FALSE))
    /\ UNCHANGED <<procs, reading, writing, chan, taken, left, calls>>

\* An answer, an error of the server, or "Server terminated".
CallReturns(c) ==
    /\ pc[c] = "wait" /\ box[c] # "empty"
    /\ Forget(c)
    /\ Free(c, After(c, box[c] # "gone"))
    /\ UNCHANGED <<procs, reading, writing, chan, taken, left, calls>>

\* Mutant: the entry of a request that timed out is left.
CallTimesOutKeeps(c) ==
    /\ pc[c] = "wait" /\ box[c] = "empty"
    /\ Free(c, After(c, FALSE))
    /\ UNCHANGED <<procs, tasks, calls>>

\* Sixty seconds without an answer.
CallTimesOut(c) ==
    /\ pc[c] = "wait" /\ box[c] = "empty"
    /\ Forget(c)
    /\ Free(c, After(c, FALSE))
    /\ UNCHANGED <<procs, reading, writing, chan, taken, left, calls>>

\* The future of call() is dropped with the turn, or the extension thread, that
\* awaits it: nothing takes its entry out of the map.  The task of the health
\* check is never dropped.
CallCancelled(c) ==
    /\ c \in Callers /\ pc[c] \in {"register", "send", "wait"}
    /\ left' = [left EXCEPT ![at[c]] = @ \union ({Req(c)} \intersect pending[at[c]])]
    /\ Free(c, "free")
    /\ UNCHANGED <<procs, reading, writing, chan, taken, pending, calls>>

(***************************************************************************)
(* Removal: shutdown, the reaper, the health check                         *)
(***************************************************************************)
RemoveSlot ==
    /\ slot' = 0
    /\ idle' = FALSE
    /\ KillProc(slot)
    /\ UNCHANGED <<made, other>>

\* shutdown(name) and shutdown(None), also with calls under way.
Shutdown == slot # 0 /\ RemoveSlot /\ UNCHANGED callers

\* reap_idle_servers, each minute: an idle server, or a dead one.
Reap == slot # 0 /\ (idle \/ slot \notin up) /\ RemoveSlot /\ UNCHANGED callers

\* The idle timeout passes without a call.
TimePasses ==
    /\ slot # 0 /\ ~idle
    /\ idle' = TRUE
    /\ UNCHANGED <<slot, made, up, dropped, tasks, callers>>

\* After a ping that failed, the server that is now in the map is removed.
HealthRemove ==
    /\ pc[health] = "unhealthy"
    /\ IF slot # 0 THEN RemoveSlot ELSE UNCHANGED <<procs, tasks>>
    /\ Goto(health, "free")
    /\ UNCHANGED <<at, calls, box>>

Ensure(c) ==
    \/ EnsureCheck(c) \/ EnsureRemoveStale(c) \/ EnsureSpawn(c) \/ EnsureSpawnFails(c)
    \/ EnsureReady(c) \/ EnsureHandshakeFails(c) \/ EnsureInsert(c) \/ EnsureCancelled(c)

Call(c) ==
    \/ CallLookup(c) \/ CallRegister(c) \/ CallSend(c) \/ CallSendFails(c)
    \/ CallReturns(c) \/ CallTimesOut(c) \/ CallCancelled(c)

Next ==
    \/ \E c \in Everyone : Ensure(c) \/ Call(c)
    \/ \E p \in Procs : WriterWrites(p) \/ WriterEnds(p) \/ ServerAnswers(p)
                        \/ ReaderEnds(p) \/ ServerExits(p)
    \/ Shutdown \/ Reap \/ TimePasses \/ HealthRemove

Spec == Init /\ [][Next]_vars

(***************************************************************************)
(* Properties                                                              *)
(***************************************************************************)
\* The variables have their types.
TypeOK ==
    /\ slot \in 0..made /\ made \in 0..MaxProcs
    /\ up \subseteq 1..made /\ reading \subseteq 1..made /\ writing \subseteq 1..made
    /\ idle \in BOOLEAN /\ dropped \subseteq up
    /\ chan \in [Procs -> Seq(Requests)]
    /\ taken \in [Procs -> SUBSET Requests]
    /\ pending \in [Procs -> SUBSET Requests] /\ left \in [Procs -> SUBSET Requests]
    /\ pc \in [Everyone -> {"free", "stale", "spawn", "handshake", "insert", "register",
                            "send", "wait", "unhealthy"}]
    /\ at \in [Everyone -> 0..made] /\ calls \in [Everyone -> 0..MaxCalls]
    /\ box \in [Everyone -> {"empty", "answer", "error", "gone"}]

\* No server process is left running that nobody can stop: one that runs is in
\* the map, where shutdown and the reaper find it, or in the hands of the task
\* that is starting it, or its starter was cancelled (the process is not killed
\* on drop and only sees its stdin closed).  Whatever starts, reaps, pings and
\* shutdowns race, there is at most one listed process.
NoStrayServer ==
    \A p \in up :
        \/ p = slot
        \/ \E c \in Callers : at[c] = p /\ pc[c] \in {"handshake", "insert"}
        \/ p \in dropped

\* Every return of call() takes its entry along, whatever became of the server,
\* the answer and the reader meanwhile: an entry belongs to a caller that is
\* still waiting for just that request, or to a handshake whose process is going,
\* or its call was dropped before it returned.  Such an entry stays until the
\* answer comes or the reader ends.
NoEntryLeft ==
    \A p \in Procs : \A r \in pending[p] :
        \/ at[r.from] = p /\ (IF r.n = 0 THEN pc[r.from] = "handshake"
                              ELSE r = Req(r.from) /\ pc[r.from] \in {"send", "wait"})
        \/ r.n = 0 /\ Closing(p)
        \/ r \in left[p]
=============================================================================
