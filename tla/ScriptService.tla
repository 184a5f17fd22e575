--------------------------- MODULE ScriptService ---------------------------
(***************************************************************************)
(* The script service (scripting/service.rs): each extension script runs   *)
(* in a thread of its own with a Deno runtime, fed by a channel of         *)
(* commands; the service finds it in a map under a read-write lock that    *)
(* several operations keep while they wait for the thread's reply.         *)
(*                                                                         *)
(* One script path is modelled, with one tool; its threads are numbered in *)
(* the order they are spawned.  Clients are the turns, the CLI and the     *)
(* system introspection tool that call the service.  The lock is tokio's:  *)
(* first come, first served.                                               *)
(***************************************************************************)
EXTENDS Naturals, Sequences, FiniteSets, SequencesExt

CONSTANTS
    Clients,    \* tasks that use the service
    MaxExts,    \* bound: threads spawned
    MaxOps,     \* bound: operations of each client
    Cap         \* room in a thread's channel (32 in the code)

Exts == 1..MaxExts

VARIABLES
    slot,       \* the thread in ScriptService::extensions, 0 if there is none
    made,       \* threads spawned so far
    thread,     \* state of each thread
    chan,       \* commands in each thread's channel: a client, or a signal
    toolMap,    \* the tool is in tool_map
    lock,       \* holders of and waiters for the lock of the map, in order
    pc,         \* where each client is in its operation
    at,         \* the thread it works with
    reply,      \* its oneshot: "empty", "sent" or "dropped"
    ops         \* operations it has begun

map == <<slot, made, toolMap>>
threads == <<thread, chan>>
client == <<pc, at, reply, ops>>
vars == <<map, threads, lock, client>>

Init ==
    /\ slot = 0 /\ made = 0 /\ toolMap = FALSE
    /\ thread = [i \in Exts |-> "none"]
    /\ chan = [i \in Exts |-> <<>>]
    /\ lock = <<>>
    /\ pc = [c \in Clients |-> "free"]
    /\ at = [c \in Clients |-> 0]
    /\ reply = [c \in Clients |-> "empty"]
    /\ ops = [c \in Clients |-> 0]

Goto(c, s) == pc' = [pc EXCEPT ![c] = s]
Free(c) == Goto(c, "free") /\ at' = [at EXCEPT ![c] = 0] /\ reply' = [reply EXCEPT ![c] = "empty"]

\* extensions.read().await and write().await: get in line; the lock is held by
\* the first in line, and by the readers that follow a reader.
Want(c, mode) == lock' = Append(lock, [who |-> c, mode |-> mode])
Holds(c) ==
    \E i \in DOMAIN lock :
        /\ lock[i].who = c
        /\ i = 1 \/ \A j \in 1..i : lock[j].mode = "read"
Release(c) == lock' = SelectSeq(lock, LAMBDA l : l.who # c)

Alive(i) == i \in Exts /\ thread[i] \in {"start", "run"}
Room(i) == Len(chan[i]) < Cap
Send(i, cmd) == chan' = [chan EXCEPT ![i] = Append(@, cmd)]

(***************************************************************************)
(* load_script, reload_extension                                           *)
(***************************************************************************)
\* spawn_extension, and the parent context as its first command.
LoadBegin(c) ==
    /\ pc[c] = "free" /\ ops[c] < MaxOps /\ made < MaxExts
    /\ ops' = [ops EXCEPT ![c] = @ + 1]
    /\ made' = made + 1
    /\ thread' = [thread EXCEPT ![made + 1] = "start"]
    /\ chan' = [chan EXCEPT ![made + 1] = <<"context">>]
    /\ at' = [at EXCEPT ![c] = made + 1]
    /\ Want(c, "write")
    /\ Goto(c, "loadSwap")
    /\ UNCHANGED <<slot, toolMap, reply>>

\* Under the write lock the old thread is told to stop, which may wait for room
\* in its channel, and the new one takes its place.  Then the read lock.
LoadSwap(c) ==
    /\ pc[c] = "loadSwap" /\ Holds(c)
    /\ IF Alive(slot)
       THEN Room(slot) /\ Send(slot, "shutdown")
       ELSE UNCHANGED chan
    /\ slot' = at[c]
    /\ lock' = Append(SelectSeq(lock, LAMBDA l : l.who # c), [who |-> c, mode |-> "read"])
    /\ at' = [at EXCEPT ![c] = 0]
    /\ Goto(c, "loadAsk")
    /\ UNCHANGED <<made, toolMap, thread, reply, ops>>

\* GetTools goes to the thread that is in the map now; the read lock is kept.
LoadAsk(c) ==
    /\ pc[c] = "loadAsk" /\ Holds(c) /\ Alive(slot) /\ Room(slot)
    /\ Send(slot, c)
    /\ at' = [at EXCEPT ![c] = slot]
    /\ Goto(c, "loadReply")
    /\ UNCHANGED <<map, thread, lock, reply, ops>>

\* The handle is lost, or its thread has ended: an error.
LoadFails(c) ==
    /\ \/ pc[c] = "loadAsk" /\ Holds(c) /\ ~Alive(slot)
       \/ pc[c] = "loadReply" /\ reply[c] = "dropped"
    /\ Release(c)
    /\ Free(c)
    /\ UNCHANGED <<map, threads, ops>>

\* The lock is released, and the tool map updated.
LoadGot(c) ==
    /\ pc[c] = "loadReply" /\ reply[c] = "sent"
    /\ Release(c)
    /\ Goto(c, "loadMap")
    /\ UNCHANGED <<map, threads, at, reply, ops>>

LoadEnd(c) ==
    /\ pc[c] = "loadMap"
    /\ toolMap' = TRUE
    /\ Free(c)
    /\ UNCHANGED <<slot, made, threads, lock, ops>>

(***************************************************************************)
(* execute_tool, evaluate_generator, remove_extension                      *)
(***************************************************************************)
\* The tool's path is looked up in the tool map.
ExecBegin(c) ==
    /\ pc[c] = "free" /\ ops[c] < MaxOps /\ toolMap
    /\ ops' = [ops EXCEPT ![c] = @ + 1]
    /\ Want(c, "read")
    /\ Goto(c, "execFind")
    /\ UNCHANGED <<map, threads, at, reply>>

\* The sender is cloned under the read lock.
ExecFind(c) ==
    /\ pc[c] = "execFind" /\ Holds(c)
    /\ Release(c)
    /\ IF slot = 0
       THEN Free(c)
       ELSE /\ at' = [at EXCEPT ![c] = slot]
            /\ Goto(c, "execSend")
            /\ UNCHANGED reply
    /\ UNCHANGED <<map, threads, ops>>

ExecSend(c) ==
    /\ pc[c] = "execSend" /\ Alive(at[c]) /\ Room(at[c])
    /\ Send(at[c], c)
    /\ Goto(c, "execReply")
    /\ UNCHANGED <<map, thread, lock, at, reply, ops>>

\* Mutant: the clone of the sender outlives the call.
ExecEndKeepsSender(c) ==
    /\ pc[c] = "execReply" /\ reply[c] = "sent"
    /\ Goto(c, "free")
    /\ reply' = [reply EXCEPT ![c] = "empty"]
    /\ UNCHANGED <<map, threads, lock, at, ops>>

ExecEnd(c) ==
    /\ pc[c] = "execReply" /\ reply[c] = "sent"
    /\ Free(c)
    /\ UNCHANGED <<map, threads, lock, ops>>

\* The thread has ended: whatever thread is in the map for this path is removed,
\* under the write lock, then the tools of the path.
ExecCrashed(c) ==
    /\ \/ pc[c] = "execSend" /\ ~Alive(at[c])
       \/ pc[c] = "execReply" /\ reply[c] = "dropped"
    /\ Want(c, "write")
    /\ Goto(c, "remove")
    /\ UNCHANGED <<map, threads, at, reply, ops>>

RemoveExt(c) ==
    /\ pc[c] = "remove" /\ Holds(c)
    /\ slot' = 0
    /\ Release(c)
    /\ Goto(c, "removeTools")
    /\ UNCHANGED <<made, toolMap, threads, at, reply, ops>>

RemoveTools(c) ==
    /\ pc[c] = "removeTools"
    /\ toolMap' = FALSE
    /\ Free(c)
    /\ UNCHANGED <<slot, made, threads, lock, ops>>

\* evaluate_generator, once the script is loaded: the command is sent under the
\* read lock, the reply awaited without it, and a thread that has ended stays.
GenBegin(c) ==
    /\ pc[c] = "free" /\ ops[c] < MaxOps
    /\ ops' = [ops EXCEPT ![c] = @ + 1]
    /\ Want(c, "read")
    /\ Goto(c, "genAsk")
    /\ UNCHANGED <<map, threads, at, reply>>

GenAsk(c) ==
    /\ pc[c] = "genAsk" /\ Holds(c) /\ Alive(slot) /\ Room(slot)
    /\ Send(slot, c)
    /\ Release(c)
    /\ at' = [at EXCEPT ![c] = slot]
    /\ Goto(c, "genReply")
    /\ UNCHANGED <<map, thread, reply, ops>>

GenEnd(c) ==
    /\ \/ pc[c] = "genAsk" /\ Holds(c) /\ ~Alive(slot)
       \/ pc[c] = "genReply" /\ reply[c] # "empty"
    /\ Release(c)
    /\ Free(c)
    /\ UNCHANGED <<map, threads, ops>>

(***************************************************************************)
(* get_tools, get_status_lines, set_parent_context                         *)
(***************************************************************************)
ListBegin(c) ==
    /\ pc[c] = "free" /\ ops[c] < MaxOps
    /\ ops' = [ops EXCEPT ![c] = @ + 1]
    /\ Want(c, "read")
    /\ Goto(c, "listAsk")
    /\ UNCHANGED <<map, threads, at, reply>>

\* The read lock is kept while the thread is asked.  set_parent_context sends
\* without waiting for a reply.
ListAsk(c) ==
    /\ pc[c] = "listAsk" /\ Holds(c) /\ Alive(slot) /\ Room(slot)
    /\ \/ /\ Send(slot, c)
          /\ at' = [at EXCEPT ![c] = slot]
          /\ Goto(c, "listReply")
          /\ UNCHANGED <<lock, reply>>
       \/ /\ Send(slot, "context")
          /\ Release(c)
          /\ Free(c)
    /\ UNCHANGED <<map, thread, ops>>

\* Mutant: the lock is not released when the thread has ended.
ListEndKeepsLock(c) ==
    /\ \/ pc[c] = "listAsk" /\ Holds(c) /\ ~Alive(slot)
       \/ pc[c] = "listReply" /\ reply[c] # "empty"
    /\ IF reply[c] = "dropped" THEN UNCHANGED lock ELSE Release(c)
    /\ Free(c)
    /\ UNCHANGED <<map, threads, ops>>

\* The reply, or nothing from a thread that has ended.
ListEnd(c) ==
    /\ \/ pc[c] = "listAsk" /\ Holds(c) /\ ~Alive(slot)
       \/ pc[c] = "listReply" /\ reply[c] # "empty"
    /\ Release(c)
    /\ Free(c)
    /\ UNCHANGED <<map, threads, ops>>

(***************************************************************************)
(* The thread of an extension                                              *)
(***************************************************************************)
\* It ends: its channel is closed and every reply still owed is dropped.
Ends(i) ==
    /\ thread' = [thread EXCEPT ![i] = "ended"]
    /\ chan' = [chan EXCEPT ![i] = <<>>]
    /\ reply' = [c \in Clients |->
                    IF c \in Range(chan[i]) THEN "dropped" ELSE reply[c]]

\* The runtime is built and the script loaded, or loading it failed, which is
\* logged.
ThreadReady(i) ==
    /\ thread[i] = "start"
    /\ thread' = [thread EXCEPT ![i] = "run"]
    /\ UNCHANGED <<map, chan, lock, client>>

\* The runtime cannot be built.
ThreadFails(i) ==
    /\ thread[i] = "start"
    /\ Ends(i)
    /\ UNCHANGED <<map, lock, pc, at, ops>>

\* The next command is carried out, at whatever length, and answered.
ThreadServes(i) ==
    /\ thread[i] = "run" /\ chan[i] # <<>>
    /\ IF Head(chan[i]) = "shutdown"
       THEN Ends(i)
       ELSE /\ chan' = [chan EXCEPT ![i] = Tail(@)]
            /\ reply' = [c \in Clients |-> IF c = Head(chan[i]) THEN "sent" ELSE reply[c]]
            /\ UNCHANGED thread
    /\ UNCHANGED <<map, lock, pc, at, ops>>

\* The script brings its thread down.
ThreadCrashes(i) ==
    /\ thread[i] = "run" /\ chan[i] # <<>>
    /\ Ends(i)
    /\ UNCHANGED <<map, lock, pc, at, ops>>

\* The last sender is dropped.
ThreadOrphaned(i) ==
    /\ thread[i] = "run" /\ chan[i] = <<>> /\ i # slot /\ \A c \in Clients : at[c] # i
    /\ Ends(i)
    /\ UNCHANGED <<map, lock, pc, at, ops>>

Operation(c) ==
    \/ LoadSwap(c) \/ LoadAsk(c) \/ LoadFails(c) \/ LoadGot(c) \/ LoadEnd(c)
    \/ ExecFind(c) \/ ExecSend(c) \/ ExecEnd(c) \/ ExecCrashed(c)
    \/ RemoveExt(c) \/ RemoveTools(c) \/ GenAsk(c) \/ GenEnd(c)
    \/ ListAsk(c) \/ ListEnd(c)

Thread(i) ==
    \/ ThreadReady(i) \/ ThreadFails(i) \/ ThreadServes(i) \/ ThreadCrashes(i)
    \/ ThreadOrphaned(i)

Next ==
    \/ \E c \in Clients : LoadBegin(c) \/ ExecBegin(c) \/ GenBegin(c)
                       \/ ListBegin(c) \/ Operation(c)
    \/ \E i \in Exts : Thread(i)

\* The runtime runs what can run, and the commands of a script come to an end.
\* Nobody has to begin an operation.
Fairness ==
    /\ \A c \in Clients : WF_vars(Operation(c))
    /\ \A i \in Exts : WF_vars(Thread(i))

Spec == Init /\ [][Next]_vars /\ Fairness

(***************************************************************************)
(* Properties                                                              *)
(***************************************************************************)
\* The variables have their types, and no channel is over its limit.
TypeOK ==
    /\ slot \in 0..made /\ made \in 0..MaxExts /\ toolMap \in BOOLEAN
    /\ thread \in [Exts -> {"none", "start", "run", "ended"}]
    /\ \A i \in Exts : Len(chan[i]) <= Cap
    /\ lock \in Seq([who : Clients, mode : {"read", "write"}])
    /\ at \in [Clients -> 0..made]
    /\ reply \in [Clients -> {"empty", "sent", "dropped"}]

\* Although operations wait for a reply with the lock in their hands, others
\* wait for the lock behind them, and a reload waits for room in the channel of
\* the thread it replaces: every operation comes to its end, whatever threads
\* crash, stop or are replaced meanwhile.  It rests on scripts that finish: one
\* that does not holds up every operation behind it.
OperationsReturn ==
    \A c \in Clients : pc[c] # "free" ~> pc[c] = "free"

\* A thread that was replaced or removed ends, and none is forgotten: the
\* service has at most one thread of a script that stays.
ReplacedEnds ==
    \A i \in Exts : Alive(i) /\ i # slot ~> ~Alive(i) \/ i = slot
=============================================================================
