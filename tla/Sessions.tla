------------------------------ MODULE Sessions ------------------------------
(***************************************************************************)
(* Sessions in memory and on disk.                                         *)
(*                                                                         *)
(* The daemon keeps one live session per chat in a map that its ingress    *)
(* tasks fill (state/session_manager.rs); an auto-save task writes the     *)
(* dirty ones to <session id>.jsonl.  A CLI process has a session of its   *)
(* own, new or resumed from such a file, and saves it after each turn      *)
(* (agent/session.rs, cli/chat.rs).  A file is truncated and written anew, *)
(* message by message.  Any process may be killed anywhere.                *)
(*                                                                         *)
(* Messages are numbered.  A session is empty at first and its id is the   *)
(* chat's name; new_session() gives it a random id, here the next number.  *)
(***************************************************************************)
EXTENDS Naturals, Sequences, FiniteSets, Functions

CONSTANTS
    Chats,      \* ids of owner chats ("telegram:<id>"), keys of the map
    Tasks,      \* ingress tasks of the daemon
    Clis,       \* CLI processes
    saver,      \* the auto-save task of the daemon
    MaxMsgs,    \* bound: messages altogether
    MaxIds,     \* bound: random session ids drawn
    MaxObjs,    \* bound: Session objects the daemon creates
    Nobody      \* no chat, session or process

ASSUME SessionsAssumption ==
    /\ MaxMsgs \in Nat /\ MaxIds \in Nat /\ MaxObjs \in Nat
    /\ Clis \intersect (1..MaxObjs) = {} /\ Chats \intersect (1..MaxIds) = {}
    /\ Tasks \intersect Clis = {} /\ saver \notin Tasks \union Clis
    /\ Nobody \notin (1..MaxObjs) \union (1..MaxIds) \union Clis \union Tasks \union Chats

Ids == Chats \union 1..MaxIds

\* Session objects: the daemon's, numbered, and one per CLI process.
Objs == 1..MaxObjs \union Clis

Writers == Clis \union {saver}

VARIABLES
    map,        \* GlobalSessionManager::sessions
    made,       \* Session objects the daemon has created
    obj,        \* the Session objects: id, messages, dirty
    drawn,      \* random ids drawn so far
    sent,       \* messages so far
    pc,         \* where each task and CLI process is
    chat,       \* the chat whose message a task handles
    handle,     \* the Arc<RwLock<Session>> a task has
    saving,     \* the object each writer is saving, under its write lock
    file,       \* the lines of each <id>.jsonl, "absent" if there is none
    shared      \* ids that two live sessions have had at once

live == <<map, made, obj, drawn, sent, shared>>
task == <<pc, chat, handle>>
disk == <<saving, file>>
vars == <<live, task, disk>>

NoSession == [id |-> Nobody, msgs |-> <<>>, dirty |-> FALSE]

Init ==
    /\ map = [k \in Chats |-> Nobody]
    /\ made = 0
    /\ obj = [o \in Objs |-> NoSession]
    /\ drawn = 0
    /\ sent = 0
    /\ pc = [a \in Tasks \union Clis |-> IF a \in Tasks THEN "idle" ELSE "off"]
    /\ chat = [t \in Tasks |-> Nobody]
    /\ handle = [t \in Tasks |-> Nobody]
    /\ saving = [w \in Writers |-> Nobody]
    /\ file = [i \in Ids |-> "absent"]
    /\ shared = {}

Goto(a, s) == pc' = [pc EXCEPT ![a] = s]

\* A task ends: its locals are gone.
Return(t) ==
    /\ Goto(t, "idle")
    /\ chat' = [chat EXCEPT ![t] = Nobody]
    /\ handle' = [handle EXCEPT ![t] = Nobody]

\* Nobody is saving o, so that its write lock can be had.
Unlocked(o) == \A w \in Writers : saving[w] # o

\* The session an actor works on.
Session(a) == IF a \in Tasks THEN handle[a] ELSE a

\* Where an actor is when it has a message or a command to act on.
Waiting(a) == IF a \in Tasks THEN "turn" ELSE "ready"

\* The ids of sessions other than o's, in whatever process.
IdsBeside(o) == {obj[p].id : p \in Objs \ {o}}

\* Session::new(): empty, dirty, with a random id.
Fresh == [id |-> drawn + 1, msgs |-> <<>>, dirty |-> TRUE]

\* Session::load() of a file that exists: what lines it has, broken ones left out.
Loaded(i) == [id |-> i, msgs |-> file[i], dirty |-> FALSE]

-----------------------------------------------------------------------------
(* get_or_create_session() for the chat of a task.                         *)

\* A message of chat k is handled; the map is looked up under its read lock.
Lookup(t, k) ==
    /\ pc[t] = "idle"
    /\ chat' = [chat EXCEPT ![t] = k]
    /\ handle' = [handle EXCEPT ![t] = map[k]]
    /\ Goto(t, IF map[k] # Nobody THEN "enter" ELSE "miss")
    /\ UNCHANGED <<live, disk>>

\* The session s becomes the live one of t's chat.
Enlist(t, s) ==
    /\ made < MaxObjs
    /\ made' = made + 1
    /\ obj' = [obj EXCEPT ![made + 1] = s]
    /\ map' = [map EXCEPT ![chat[t]] = made + 1]
    /\ handle' = [handle EXCEPT ![t] = made + 1]
    /\ shared' = shared \union ({s.id} \intersect IdsBeside(made + 1))
    /\ Goto(t, "enter")
    /\ UNCHANGED <<drawn, sent>>

\* Another task was faster: its session is taken.
Adopt(t) ==
    /\ handle' = [handle EXCEPT ![t] = map[chat[t]]]
    /\ Goto(t, "enter")
    /\ UNCHANGED live

\* get_session() under the map's write lock: look again, then on disk.
LoadOrMiss(t) ==
    /\ pc[t] = "miss"
    /\ \/ map[chat[t]] # Nobody /\ Adopt(t)
       \/ map[chat[t]] = Nobody /\ file[chat[t]] # "absent" /\ Enlist(t, Loaded(chat[t]))
       \/ map[chat[t]] = Nobody /\ file[chat[t]] = "absent" /\ Goto(t, "create")
          /\ UNCHANGED <<live, handle>>
    /\ UNCHANGED <<chat, disk>>

\* Mutant: the map is not looked at once more.
CreateUnchecked(t) ==
    /\ pc[t] = "create"
    /\ Enlist(t, [id |-> chat[t], msgs |-> <<>>, dirty |-> TRUE])
    /\ UNCHANGED <<chat, disk>>

\* The write lock was let go: look a third time, then new_with_id().
Create(t) ==
    /\ pc[t] = "create"
    /\ IF map[chat[t]] # Nobody
         THEN Adopt(t)
         ELSE Enlist(t, [id |-> chat[t], msgs |-> <<>>, dirty |-> TRUE])
    /\ UNCHANGED <<chat, disk>>

-----------------------------------------------------------------------------
(* Turns.                                                                  *)

\* The actor's session is replaced in place by a new one.
Renew(a) ==
    /\ Unlocked(Session(a))
    /\ drawn < MaxIds
    /\ drawn' = drawn + 1
    /\ obj' = [obj EXCEPT ![Session(a)] = Fresh]
    /\ UNCHANGED <<map, made, sent, shared>>

\* process_ingress_message reads status(): an empty session is to be set up.
Enter(t) ==
    /\ pc[t] = "enter"
    /\ Unlocked(handle[t])
    /\ Goto(t, IF obj[handle[t]].msgs = <<>> THEN "setup" ELSE "turn")
    /\ UNCHANGED <<live, chat, handle, disk>>

\* new_session() of a task, before its turn or at the end of "!clear".  It builds
\* the system prompt first; when that fails, the session stays and the error is
\* only logged.
SetUp(t) ==
    /\ pc[t] \in {"setup", "cleared"}
    /\ Renew(t) \/ UNCHANGED live
    /\ \/ pc[t] = "setup" /\ Goto(t, "turn") /\ UNCHANGED <<chat, handle>>
       \/ pc[t] = "cleared" /\ Return(t)
    /\ UNCHANGED <<disk>>

\* clear_session() on "!clear"; "/clear" and "/new" at the terminal.
Clear(a) ==
    /\ pc[a] = Waiting(a)
    /\ Renew(a)
    /\ Goto(a, IF a \in Tasks THEN "cleared" ELSE "ready")
    /\ UNCHANGED <<chat, handle, disk>>

\* add_message(): a turn as far as the session is concerned.
AddMessage(a) ==
    /\ pc[a] = Waiting(a)
    /\ Unlocked(Session(a))
    /\ sent < MaxMsgs
    /\ sent' = sent + 1
    /\ obj' = [obj EXCEPT ![Session(a)].msgs = Append(@, sent + 1),
                          ![Session(a)].dirty = TRUE]
    /\ Goto(a, "ask")
    /\ UNCHANGED <<map, made, drawn, shared, chat, handle, disk>>

\* compact_native() marks the shortened session, truncate_history() does not.
Compact(a) ==
    /\ pc[a] = "ask"
    /\ Unlocked(Session(a))
    /\ Len(obj[Session(a)].msgs) > 1
    /\ \E mark \in BOOLEAN :
         obj' = [obj EXCEPT ![Session(a)].msgs = Tail(@),
                            ![Session(a)].dirty = @ \/ mark]
    /\ UNCHANGED <<map, made, drawn, sent, shared, task, disk>>

\* The turn ends.
EndTurn(t) ==
    /\ pc[t] = "ask"
    /\ Return(t)
    /\ UNCHANGED <<live, disk>>

-----------------------------------------------------------------------------
(* Saving: save() holds the session's write lock from File::create to the  *)
(* end.                                                                    *)

SaveBegin(w, o) ==
    /\ saving[w] = Nobody
    /\ Unlocked(o)
    /\ saving' = [saving EXCEPT ![w] = o]
    /\ file' = [file EXCEPT ![obj[o].id] = <<>>]

\* The auto-save task finds the session of k dirty and its lock free.
AutoSave(k) ==
    /\ map[k] # Nobody
    /\ obj[map[k]].dirty
    /\ SaveBegin(saver, map[k])
    /\ UNCHANGED <<live, task>>

\* Where w's file ends is where its next line goes; a concurrent writer of the
\* same file has its own position, and the later line wins.
WriteLine(w) ==
    /\ saving[w] # Nobody
    /\ LET s == obj[saving[w]] IN
         /\ Len(file[s.id]) < Len(s.msgs)
         /\ file' = [file EXCEPT ![s.id] = SubSeq(s.msgs, 1, Len(@) + 1)]
    /\ UNCHANGED <<live, task, saving>>

\* Mutant: the flag is cleared whether or not the lines were written.
SaveEndEarly(w) ==
    /\ saving[w] # Nobody
    /\ obj' = [obj EXCEPT ![saving[w]].dirty = FALSE]
    /\ saving' = [saving EXCEPT ![w] = Nobody]
    /\ UNCHANGED <<map, made, drawn, sent, shared, task, file>>

SaveEnd(w) ==
    /\ saving[w] # Nobody
    /\ Len(file[obj[saving[w]].id]) >= Len(obj[saving[w]].msgs)
    /\ obj' = [obj EXCEPT ![saving[w]].dirty = FALSE]
    /\ saving' = [saving EXCEPT ![w] = Nobody]
    /\ UNCHANGED <<map, made, drawn, sent, shared, task, file>>

\* A write fails: the file stays as it is and the session dirty.
SaveFails(w) ==
    /\ saving[w] # Nobody
    /\ saving' = [saving EXCEPT ![w] = Nobody]
    /\ UNCHANGED <<live, task, file>>

-----------------------------------------------------------------------------
(* A CLI process.                                                          *)

\* `chat` starts with a new session, or resumes the one of a file: the last one
\* created, or the one the user names.  "/resume" does the same later on.
CliStart(c) ==
    /\ pc[c] \in {"off", "ready"}
    /\ \/ /\ pc[c] = "off"
          /\ Renew(c)
       \/ \E i \in Ids :
            /\ file[i] # "absent"
            /\ obj' = [obj EXCEPT ![c] = Loaded(i)]
            /\ shared' = shared \union ({i} \intersect IdsBeside(c))
            /\ UNCHANGED <<map, made, drawn, sent>>
    /\ saving[c] = Nobody
    /\ Goto(c, "ready")
    /\ UNCHANGED <<chat, handle, disk>>

\* The turn ends with auto_save_session(): a dirty session with messages is saved,
\* unless the disk is nearly full.
CliEndTurn(c) ==
    /\ pc[c] = "ask"
    /\ \/ obj[c].dirty /\ obj[c].msgs # <<>> /\ SaveBegin(c, c)
       \/ UNCHANGED disk
    /\ Goto(c, "ready")
    /\ UNCHANGED <<live, chat, handle>>

\* "/save"
CliSave(c) ==
    /\ pc[c] = "ready"
    /\ SaveBegin(c, c)
    /\ UNCHANGED <<live, task>>

-----------------------------------------------------------------------------
(* A process is killed: its locks are free, its memory is gone, files stay *)
(* as they are.  A daemon that starts again has an empty map.              *)

KillCli(c) ==
    /\ pc[c] # "off"
    /\ Goto(c, "off")
    /\ obj' = [obj EXCEPT ![c] = NoSession]
    /\ saving' = [saving EXCEPT ![c] = Nobody]
    /\ UNCHANGED <<map, made, drawn, sent, shared, chat, handle, file>>

RestartDaemon ==
    /\ made \in 1..(MaxObjs - 1)
    /\ map' = [k \in Chats |-> Nobody]
    /\ obj' = [o \in Objs |-> IF o \in Clis THEN obj[o] ELSE NoSession]
    /\ pc' = [a \in Tasks \union Clis |-> IF a \in Tasks THEN "idle" ELSE pc[a]]
    /\ chat' = [t \in Tasks |-> Nobody]
    /\ handle' = [t \in Tasks |-> Nobody]
    /\ saving' = [saving EXCEPT ![saver] = Nobody]
    /\ UNCHANGED <<made, drawn, sent, shared, file>>

-----------------------------------------------------------------------------
Next ==
    \/ \E t \in Tasks : \/ \E k \in Chats : Lookup(t, k)
                        \/ LoadOrMiss(t) \/ Create(t) \/ Enter(t) \/ SetUp(t) \/ EndTurn(t)
    \/ \E a \in Tasks \union Clis :
         \/ Clear(a) \/ AddMessage(a) \/ Compact(a)
    \/ \E k \in Chats : AutoSave(k)
    \/ \E w \in Writers : WriteLine(w) \/ SaveEnd(w) \/ SaveFails(w)
    \/ \E c \in Clis : \/ CliStart(c) \/ CliEndTurn(c) \/ CliSave(c) \/ KillCli(c)
    \/ RestartDaemon

Spec == Init /\ [][Next]_vars

-----------------------------------------------------------------------------
(* Properties.                                                             *)

TypeOK ==
    /\ map \in [Chats -> 0..made \union {Nobody}]
    /\ obj \in [Objs -> [id : Ids \union {Nobody}, msgs : Seq(1..MaxMsgs), dirty : BOOLEAN]]
    /\ made \in 0..MaxObjs /\ drawn \in 0..MaxIds /\ sent \in 0..MaxMsgs
    /\ \A t \in Tasks : pc[t] \in {"enter", "setup", "turn", "ask"} => handle[t] \in 1..made
    /\ saving \in [Writers -> Objs \union {Nobody}]
    /\ \A i \in Ids : file[i] = "absent" \/ file[i] \in Seq(1..MaxMsgs)
    /\ shared \subseteq Ids

\* The double-checked lookup: two tasks of one chat never work on two copies of
\* its session, however their lookups interleave with loading and creating.
OneSessionPerChat ==
    \A t \in Tasks :
        pc[t] \in {"enter", "setup", "turn", "cleared", "ask"} => handle[t] = map[chat[t]]

\* What autosave skips is safe: a session of the daemon that is not dirty has all
\* its messages on disk, after any sequence of failed and interrupted saves,
\* restarts and compactions, as long as no other session has had its id.  (Not
\* so at the terminal: "/save" rewrites the file of a clean session, too, and a
\* failure leaves the session clean and the file short.)
CleanIsOnDisk ==
    \A o \in 1..MaxObjs :
        obj[o].id \in Ids \ shared /\ ~obj[o].dirty /\ Unlocked(o) =>
            Range(obj[o].msgs) \subseteq Range(file[obj[o].id])

\* README: with the Full strategy, that of Telegram chats, the "session persists
\* across turns".  The session of a chat is replaced only while it is empty, or
\* on "!clear".
PersistsAcrossTurns ==
    [][\A k \in Chats :
         LET o == map[k] IN
         o # Nobody /\ map'[k] = o /\ obj'[o].id # obj[o].id =>
            \/ obj[o].msgs = <<>>
            \/ \E t \in Tasks : pc'[t] # pc[t] /\ "cleared" \in {pc[t], pc'[t]}]_vars
=============================================================================
