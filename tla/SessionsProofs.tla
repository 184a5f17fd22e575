--------------------------- MODULE SessionsProofs ---------------------------
(***************************************************************************)
(* The map of live sessions and the files they are saved to, for any       *)
(* number of chats, tasks and CLI processes.                               *)
(***************************************************************************)
EXTENDS Sessions, TLAPS

-----------------------------------------------------------------------------
(* The map.                                                                *)

\* Where a task is once it has the session of its chat.
Working == {"enter", "setup", "turn", "cleared", "ask"}
Spots == Working \union {"idle", "miss", "create", "off", "ready"}

\* A task that works has the listed session of its chat, which stays listed.
MapInv ==
    /\ made \in 0..MaxObjs
    /\ pc \in [Tasks \union Clis -> Spots]
    /\ map \in [Chats -> (1..made) \union {Nobody}]
    /\ chat \in [Tasks -> Chats \union {Nobody}]
    /\ handle \in [Tasks -> (1..made) \union {Nobody}]
    /\ \A t \in Tasks :
        /\ pc[t] # "idle" => chat[t] \in Chats
        /\ pc[t] \in Working => handle[t] = map[chat[t]] /\ handle[t] # Nobody

LEMMA MapStarts == Init => MapInv
  BY SessionsAssumption DEF Init, MapInv, Spots, Working

LEMMA MapUntouched ==
    ASSUME MapInv, UNCHANGED <<made, pc, map, chat, handle>>
    PROVE  MapInv'
  BY DEF MapInv

\* A task that works, or a CLI process, goes on.
LEMMA ActorMoves ==
    ASSUME NEW a \in Tasks \union Clis, NEW s \in Spots, MapInv,
           pc' = [pc EXCEPT ![a] = s], UNCHANGED <<made, map, chat, handle>>,
           a \in Tasks => pc[a] \in Working
    PROVE  MapInv'
  <1>1. pc' \in [Tasks \union Clis -> Spots]
    BY DEF MapInv
  <1>2. ASSUME NEW t \in Tasks
        PROVE  /\ pc'[t] # "idle" => chat[t] \in Chats
               /\ pc'[t] \in Working => handle[t] = map[chat[t]] /\ handle[t] # Nobody
    <2>1. CASE t = a
      <3>1. pc[t] \in Working /\ pc[t] # "idle"
        BY <2>1 DEF Working
      <3> QED
        BY <3>1 DEF MapInv
    <2>2. CASE t # a
      <3>1. pc'[t] = pc[t]
        BY <2>2 DEF MapInv
      <3> QED
        BY <3>1 DEF MapInv
    <2> QED
      BY <2>1, <2>2
  <1> QED
    BY <1>1, <1>2 DEF MapInv

\* A task looks its chat up.
LEMMA MapLookup == ASSUME NEW t \in Tasks, NEW k \in Chats, MapInv, Lookup(t, k) PROVE MapInv'
  <1>1. /\ chat' = [chat EXCEPT ![t] = k] /\ handle' = [handle EXCEPT ![t] = map[k]]
        /\ pc' = [pc EXCEPT ![t] = IF map[k] # Nobody THEN "enter" ELSE "miss"]
        /\ UNCHANGED <<made, map>>
    BY DEF Lookup, Goto, live
  <1>2. /\ chat' \in [Tasks -> Chats \union {Nobody}]
        /\ handle' \in [Tasks -> (1..made) \union {Nobody}]
        /\ pc' \in [Tasks \union Clis -> Spots]
    BY <1>1 DEF MapInv, Spots, Working
  <1>3. ASSUME NEW u \in Tasks
        PROVE  /\ pc'[u] # "idle" => chat'[u] \in Chats
               /\ pc'[u] \in Working => handle'[u] = map[chat'[u]] /\ handle'[u] # Nobody
    <2>1. CASE u = t
      <3>1. /\ chat'[u] = k /\ handle'[u] = map[k]
            /\ pc'[u] = IF map[k] # Nobody THEN "enter" ELSE "miss"
        BY <1>1, <2>1 DEF MapInv
      <3>2. pc'[u] \in Working => map[k] # Nobody
        BY <3>1 DEF Working
      <3> QED
        BY <3>1, <3>2
    <2>2. CASE u # t
      <3>1. chat'[u] = chat[u] /\ handle'[u] = handle[u] /\ pc'[u] = pc[u]
        BY <1>1, <2>2 DEF MapInv
      <3> QED
        BY <3>1 DEF MapInv
    <2> QED
      BY <2>1, <2>2
  <1> QED
    BY <1>1, <1>2, <1>3 DEF MapInv

\* Another task was faster.
LEMMA MapAdopt ==
    ASSUME NEW t \in Tasks, MapInv, pc[t] \in {"miss", "create"}, map[chat[t]] # Nobody,
           Adopt(t), UNCHANGED chat
    PROVE  MapInv'
  <1>1. /\ handle' = [handle EXCEPT ![t] = map[chat[t]]] /\ pc' = [pc EXCEPT ![t] = "enter"]
        /\ UNCHANGED <<made, map>>
    BY DEF Adopt, Goto, live
  <1>2. chat[t] \in Chats /\ map[chat[t]] \in 1..made
    BY DEF MapInv
  <1>3. /\ handle' \in [Tasks -> (1..made) \union {Nobody}]
        /\ pc' \in [Tasks \union Clis -> Spots]
    BY <1>1, <1>2 DEF MapInv, Spots, Working
  <1>4. ASSUME NEW u \in Tasks
        PROVE  /\ pc'[u] # "idle" => chat[u] \in Chats
               /\ pc'[u] \in Working => handle'[u] = map[chat[u]] /\ handle'[u] # Nobody
    <2>1. CASE u = t
      BY <1>1, <1>2, <2>1 DEF MapInv
    <2>2. CASE u # t
      <3>1. handle'[u] = handle[u] /\ pc'[u] = pc[u]
        BY <1>1, <2>2 DEF MapInv
      <3> QED
        BY <3>1 DEF MapInv
    <2> QED
      BY <2>1, <2>2
  <1> QED
    BY <1>1, <1>3, <1>4 DEF MapInv

\* A session is listed for a chat that had none: no task works on that chat yet.
LEMMA MapEnlist ==
    ASSUME NEW t \in Tasks, NEW s, MapInv, pc[t] \in {"miss", "create"}, map[chat[t]] = Nobody,
           Enlist(t, s), UNCHANGED chat
    PROVE  MapInv'
  <1>1. /\ made < MaxObjs /\ made' = made + 1 /\ pc' = [pc EXCEPT ![t] = "enter"]
    BY DEF Enlist, Goto
  <1>2. PICK n : /\ n = made + 1 /\ map' = [map EXCEPT ![chat[t]] = n]
                 /\ handle' = [handle EXCEPT ![t] = n]
    BY DEF Enlist
  <1>3. made \in Nat /\ MaxObjs \in Nat
    BY SessionsAssumption DEF MapInv
  <1>4. /\ made' \in 0..MaxObjs /\ n \in 1..made' /\ n \in 1..MaxObjs
        /\ \A i \in 1..made : i \in 1..made'
    BY <1>1, <1>2, <1>3
  <1>5. n # Nobody
    BY <1>4, SessionsAssumption
  <1>6. chat[t] \in Chats
    BY DEF MapInv
  <1>7. /\ map \in [Chats -> (1..made') \union {Nobody}]
        /\ handle \in [Tasks -> (1..made') \union {Nobody}]
    BY <1>4 DEF MapInv
  <1>8. /\ map' \in [Chats -> (1..made') \union {Nobody}]
        /\ handle' \in [Tasks -> (1..made') \union {Nobody}]
        /\ pc' \in [Tasks \union Clis -> Spots]
    BY <1>1, <1>2, <1>4, <1>7 DEF MapInv, Spots, Working
  <1>9. ASSUME NEW u \in Tasks
        PROVE  /\ pc'[u] # "idle" => chat[u] \in Chats
               /\ pc'[u] \in Working => handle'[u] = map'[chat[u]] /\ handle'[u] # Nobody
    <2>1. CASE u = t
      <3>1. handle'[u] = n /\ map'[chat[u]] = n
        BY <1>2, <1>6, <1>7, <2>1
      <3> QED
        BY <1>5, <1>6, <2>1, <3>1
    <2>2. CASE u # t
      <3>1. handle'[u] = handle[u] /\ pc'[u] = pc[u]
        BY <1>1, <1>2, <1>7, <2>2 DEF MapInv
      <3>2. ASSUME pc[u] \in Working PROVE map'[chat[u]] = map[chat[u]]
        <4>1. handle[u] = map[chat[u]] /\ handle[u] # Nobody
          BY <3>2 DEF MapInv
        <4>2. pc[u] # "idle"
          BY <3>2 DEF Working
        <4>3. chat[u] # chat[t] /\ chat[u] \in Chats
          BY <4>1, <4>2 DEF MapInv
        <4> QED
          BY <1>2, <1>7, <4>3
      <3> QED
        BY <3>1, <3>2 DEF MapInv
    <2> QED
      BY <2>1, <2>2
  <1> QED
    BY <1>4, <1>8, <1>9 DEF MapInv

\* A task is done with its message.
LEMMA MapReturn == ASSUME NEW t \in Tasks, MapInv, Return(t), UNCHANGED <<made, map>> PROVE MapInv'
  <1>1. /\ chat' = [chat EXCEPT ![t] = Nobody] /\ handle' = [handle EXCEPT ![t] = Nobody]
        /\ pc' = [pc EXCEPT ![t] = "idle"]
    BY DEF Return, Goto
  <1>2. /\ chat' \in [Tasks -> Chats \union {Nobody}]
        /\ handle' \in [Tasks -> (1..made) \union {Nobody}]
        /\ pc' \in [Tasks \union Clis -> Spots]
    BY <1>1 DEF MapInv, Spots
  <1>3. ASSUME NEW u \in Tasks
        PROVE  /\ pc'[u] # "idle" => chat'[u] \in Chats
               /\ pc'[u] \in Working => handle'[u] = map[chat'[u]] /\ handle'[u] # Nobody
    <2>1. CASE u = t
      <3>1. pc'[u] = "idle"
        BY <1>1, <2>1 DEF MapInv
      <3> QED
        BY <3>1 DEF Working
    <2>2. CASE u # t
      <3>1. chat'[u] = chat[u] /\ handle'[u] = handle[u] /\ pc'[u] = pc[u]
        BY <1>1, <2>2 DEF MapInv
      <3> QED
        BY <3>1 DEF MapInv
    <2> QED
      BY <2>1, <2>2
  <1> QED
    BY <1>2, <1>3 DEF MapInv
LEMMA MapLoadOrMiss == ASSUME NEW t \in Tasks, MapInv, LoadOrMiss(t) PROVE MapInv'
  <1>1. pc[t] = "miss" /\ UNCHANGED chat
    BY DEF LoadOrMiss
  <1>2. CASE map[chat[t]] # Nobody /\ Adopt(t)
    BY <1>1, <1>2, MapAdopt
  <1>3. CASE map[chat[t]] = Nobody /\ Enlist(t, Loaded(chat[t]))
    BY <1>1, <1>3, MapEnlist
  <1>4. CASE Goto(t, "create") /\ UNCHANGED <<live, handle>>
    <2>1. pc' = [pc EXCEPT ![t] = "create"] /\ UNCHANGED <<made, map, handle>>
      BY <1>4 DEF Goto, live
    <2>2. pc' \in [Tasks \union Clis -> Spots]
      BY <2>1 DEF MapInv, Spots
    <2>3. \A u \in Tasks : pc'[u] = IF u = t THEN "create" ELSE pc[u]
      BY <2>1 DEF MapInv
    <2> QED
      BY <1>1, <2>1, <2>2, <2>3 DEF MapInv, Working
  <1> QED
    BY <1>2, <1>3, <1>4 DEF LoadOrMiss

LEMMA MapCreate == ASSUME NEW t \in Tasks, MapInv, Create(t) PROVE MapInv'
  <1>1. pc[t] = "create" /\ UNCHANGED chat
    BY DEF Create
  <1>2. CASE map[chat[t]] # Nobody
    <2>1. Adopt(t)
      BY <1>2 DEF Create
    <2> QED
      BY <1>1, <1>2, <2>1, MapAdopt
  <1>3. CASE map[chat[t]] = Nobody
    <2>1. Enlist(t, [id |-> chat[t], msgs |-> <<>>, dirty |-> TRUE])
      BY <1>3 DEF Create
    <2> QED
      BY <1>1, <1>3, <2>1, MapEnlist
  <1> QED
    BY <1>2, <1>3

LEMMA MapSetUp == ASSUME NEW t \in Tasks, MapInv, SetUp(t) PROVE MapInv'
  <1>1. UNCHANGED <<made, map>> /\ pc[t] \in Working
    BY DEF SetUp, Renew, live, Working
  <1>2. CASE Goto(t, "turn") /\ UNCHANGED <<chat, handle>>
    <2>1. pc' = [pc EXCEPT ![t] = "turn"] /\ "turn" \in Spots
      BY <1>2 DEF Goto, Spots, Working
    <2> QED
      BY <1>1, <1>2, <2>1, ActorMoves
  <1>3. CASE Return(t)
    BY <1>1, <1>3, MapReturn
  <1> QED
    BY <1>2, <1>3 DEF SetUp

LEMMA MapTurn ==
    ASSUME NEW a \in Tasks \union Clis, MapInv, Clear(a) \/ AddMessage(a) \/ Compact(a)
    PROVE  MapInv'
  <1>1. UNCHANGED <<made, map, chat, handle>>
    BY DEF Clear, AddMessage, Compact, Renew, task
  <1>2. a \in Tasks => pc[a] \in Working
    BY DEF Clear, AddMessage, Compact, Waiting, Working
  <1>3. CASE Clear(a) \/ AddMessage(a)
    <2>1. PICK s \in Spots : pc' = [pc EXCEPT ![a] = s]
      <3>1. "cleared" \in Spots /\ "ready" \in Spots /\ "ask" \in Spots
        BY DEF Spots, Working
      <3> QED
        BY <1>3, <3>1 DEF Clear, AddMessage, Goto
    <2> QED
      BY <1>1, <1>2, <2>1, ActorMoves
  <1>4. CASE Compact(a)
    <2>1. UNCHANGED pc
      BY <1>4 DEF Compact, task
    <2> QED
      BY <1>1, <2>1, MapUntouched
  <1> QED
    BY <1>3, <1>4

LEMMA MapCli ==
    ASSUME NEW c \in Clis, MapInv, CliStart(c) \/ CliEndTurn(c) \/ CliSave(c) \/ KillCli(c)
    PROVE  MapInv'
  <1>1. UNCHANGED <<made, map, chat, handle>>
    BY DEF CliStart, CliEndTurn, CliSave, KillCli, Renew, live, task
  <1>2. c \notin Tasks /\ "ready" \in Spots /\ "off" \in Spots
    BY SessionsAssumption DEF Spots
  <1>3. CASE CliSave(c)
    BY <1>1, <1>3, MapUntouched DEF CliSave, task
  <1>4. CASE CliStart(c) \/ CliEndTurn(c) \/ KillCli(c)
    <2>1. PICK s \in Spots : pc' = [pc EXCEPT ![c] = s]
      BY <1>2, <1>4 DEF CliStart, CliEndTurn, KillCli, Goto
    <2> QED
      BY <1>1, <1>2, <2>1, ActorMoves
  <1> QED
    BY <1>3, <1>4

LEMMA MapRestart == ASSUME MapInv, RestartDaemon PROVE MapInv'
  <1>1. /\ made' = made /\ map' = [k \in Chats |-> Nobody]
        /\ pc' = [a \in Tasks \union Clis |-> IF a \in Tasks THEN "idle" ELSE pc[a]]
        /\ chat' = [t \in Tasks |-> Nobody] /\ handle' = [t \in Tasks |-> Nobody]
    BY DEF RestartDaemon
  <1>2. pc' \in [Tasks \union Clis -> Spots]
    BY <1>1 DEF MapInv, Spots
  <1>3. \A t \in Tasks : pc'[t] = "idle"
    BY <1>1
  <1> QED
    BY <1>1, <1>2, <1>3 DEF MapInv, Working

LEMMA MapInductive == MapInv /\ [Next]_vars => MapInv'
  <1> SUFFICES ASSUME MapInv, [Next]_vars PROVE MapInv'
    OBVIOUS
  <1>1. CASE UNCHANGED vars
    BY <1>1, MapUntouched DEF vars, live, task
  <1>2. ASSUME NEW t \in Tasks, Enter(t) PROVE MapInv'
    <2>1. UNCHANGED <<made, map, chat, handle>> /\ pc[t] \in Working
      BY <1>2 DEF Enter, live, Working
    <2>2. PICK s \in Spots : pc' = [pc EXCEPT ![t] = s]
      <3>1. "setup" \in Spots /\ "turn" \in Spots
        BY DEF Spots, Working
      <3> QED
        BY <1>2, <3>1 DEF Enter, Goto
    <2> QED
      BY <2>1, <2>2, ActorMoves
  <1>3. ASSUME NEW t \in Tasks, EndTurn(t) PROVE MapInv'
    BY <1>3, MapReturn DEF EndTurn, live
  <1>4. ASSUME \/ \E k \in Chats : AutoSave(k)
               \/ \E w \in Writers : WriteLine(w) \/ SaveEnd(w) \/ SaveFails(w)
        PROVE  MapInv'
    <2>1. UNCHANGED <<made, pc, map, chat, handle>>
      BY <1>4 DEF AutoSave, WriteLine, SaveEnd, SaveFails, live, task
    <2> QED
      BY <2>1, MapUntouched
  <1> QED
    BY <1>1, <1>2, <1>3, <1>4, MapLookup, MapLoadOrMiss, MapCreate, MapSetUp, MapTurn, MapCli,
       MapRestart DEF Next

\* get_or_create_session() never gives two tasks of one chat two copies of its session,
\* for any number of tasks and chats, however lookups, loading, creation, clearing and
\* restarts interleave.
THEOREM OneCopyPerChat == Spec => []OneSessionPerChat
  <1>1. MapInv => OneSessionPerChat
    BY DEF MapInv, OneSessionPerChat, Working
  <1> QED
    BY <1>1, MapStarts, MapInductive, PTL DEF Spec

-----------------------------------------------------------------------------
(* The files.                                                              *)

Recs == [id : Ids \union {Nobody}, msgs : Seq(Nat), dirty : BOOLEAN]

StoreTypes ==
    /\ drawn \in 0..MaxIds /\ sent \in Nat
    /\ obj \in [Objs -> Recs]
    /\ file \in [Ids -> Seq(Nat) \union {"absent"}]
    /\ saving \in [Writers -> Objs \union {Nobody}]

\* The ids in use were drawn before, so a random id is a new one.
Known == Chats \union (1..drawn)
DrawnInv ==
    /\ \A o \in Objs : obj[o].id \in Known \union {Nobody}
    /\ \A i \in Ids : file[i] # "absent" => i \in Known

\* Listed sessions and those of running CLI processes have an id.
LiveInv ==
    /\ \A k \in Chats : map[k] # Nobody => obj[map[k]].id \in Ids
    /\ \A c \in Clis : pc[c] # "off" => obj[c].id \in Ids

\* An id of two sessions is recorded.
SharedInv ==
    \A o, p \in Objs : o # p /\ obj[o].id = obj[p].id /\ obj[o].id \in Ids => obj[o].id \in shared

\* Who may be saving what.
SavingInv ==
    /\ saving[saver] \in (1..made) \union {Nobody}
    /\ \A c \in Clis : saving[c] \in {c, Nobody}
    /\ \A w \in Writers : saving[w] # Nobody =>
        obj[saving[w]].id \in Ids /\ file[obj[saving[w]].id] \in Seq(Nat)

\* What auto-save is writing is dirty, and its file a first part of it.
Prefix(s, f) == Len(f) <= Len(s.msgs) /\ f = SubSeq(s.msgs, 1, Len(f))
PrefixInv ==
    saving[saver] # Nobody =>
        /\ obj[saving[saver]].dirty
        /\ obj[saving[saver]].id \notin shared =>
            Prefix(obj[saving[saver]], file[obj[saving[saver]].id])

\* CleanIsOnDisk for one session.
OnDisk(o) ==
    obj[o].id \in Ids \ shared /\ ~obj[o].dirty /\ Unlocked(o) =>
        Range(obj[o].msgs) \subseteq Range(file[obj[o].id])

StoreInv ==
    /\ StoreTypes /\ DrawnInv /\ LiveInv /\ SharedInv /\ SavingInv /\ PrefixInv
    /\ \A o \in 1..MaxObjs : OnDisk(o)

\* The two kinds of objects and of writers.
LEMMA Kinds2 ==
    ASSUME MapInv
    PROVE  /\ \A o \in 1..made : o \in 1..MaxObjs
           /\ \A o \in 1..MaxObjs : o \in Objs /\ o \notin Clis /\ o # Nobody
           /\ \A c \in Clis : c \in Objs /\ c # Nobody /\ c \in Writers /\ c # saver /\ c \notin Tasks
           /\ saver \in Writers
           /\ \A w \in Writers : w = saver \/ w \in Clis
           /\ Nobody \notin Ids
  <1>1. \A o \in 1..made : o \in 1..MaxObjs
    BY SessionsAssumption DEF MapInv
  <1> QED
    BY <1>1, SessionsAssumption DEF Objs, Writers, Ids

\* A locked session is one that its writer is saving.
LEMMA OnlyOneWriter ==
    ASSUME MapInv, SavingInv, NEW v \in Writers, NEW w \in Writers, saving[v] = saving[w],
           saving[v] # Nobody
    PROVE  v = w
  BY Kinds2 DEF SavingInv

LEMMA StoreStarts == Init => StoreInv
  <1> SUFFICES ASSUME Init PROVE StoreInv
    OBVIOUS
  <1>0. MapInv
    BY MapStarts
  <1>1. /\ map = [k \in Chats |-> Nobody] /\ made = 0 /\ drawn = 0 /\ sent = 0
        /\ obj = [o \in Objs |-> NoSession] /\ saving = [w \in Writers |-> Nobody]
        /\ file = [i \in Ids |-> "absent"]
        /\ pc = [a \in Tasks \union Clis |-> IF a \in Tasks THEN "idle" ELSE "off"]
    BY DEF Init
  <1>2. NoSession \in Recs /\ NoSession.id = Nobody
    BY DEF NoSession, Recs
  <1>3. /\ \A o \in Objs : obj[o] = NoSession
        /\ \A w \in Writers : saving[w] = Nobody
        /\ \A i \in Ids : file[i] = "absent"
        /\ \A k \in Chats : map[k] = Nobody
    BY <1>1
  <1>4. StoreTypes
    <2>1. drawn \in 0..MaxIds /\ sent \in Nat
      BY <1>1, SessionsAssumption
    <2>2. obj \in [Objs -> Recs]
      BY <1>1, <1>2
    <2>3. file \in [Ids -> Seq(Nat) \union {"absent"}]
      BY <1>1
    <2>4. saving \in [Writers -> Objs \union {Nobody}]
      BY <1>1
    <2> QED
      BY <2>1, <2>2, <2>3, <2>4 DEF StoreTypes
  <1>5. DrawnInv
    BY <1>2, <1>3 DEF DrawnInv
  <1>6. LiveInv
    <2>1. \A c \in Clis : pc[c] = "off"
      BY <1>0, <1>1, Kinds2
    <2> QED
      BY <1>3, <2>1 DEF LiveInv
  <1>7. SharedInv
    <2>1. Nobody \notin Ids
      BY <1>0, Kinds2
    <2> QED
      BY <1>2, <1>3, <2>1 DEF SharedInv
  <1>8. SavingInv /\ PrefixInv
    BY <1>0, <1>3, Kinds2 DEF SavingInv, PrefixInv
  <1>9. ASSUME NEW o \in 1..MaxObjs PROVE OnDisk(o)
    <2>1. obj[o].id = Nobody /\ Nobody \notin Ids
      BY <1>0, <1>2, <1>3, Kinds2
    <2> QED
      BY <2>1 DEF OnDisk
  <1> QED
    BY <1>4, <1>5, <1>6, <1>7, <1>8, <1>9 DEF StoreInv

\* A step of tasks and CLI processes that changes no session and no file.
LEMMA StoreUntouched ==
    ASSUME MapInv, MapInv', StoreInv, UNCHANGED <<map, made, obj, drawn, sent, shared, saving, file>>,
           \A c \in Clis : pc'[c] # "off" => pc[c] # "off"
    PROVE  StoreInv'
  <1>1. StoreTypes' /\ DrawnInv' /\ SharedInv' /\ SavingInv' /\ PrefixInv'
    BY DEF StoreInv, StoreTypes, DrawnInv, SharedInv, SavingInv, PrefixInv, Known
  <1>2. LiveInv'
    BY DEF StoreInv, LiveInv
  <1>3. \A o \in 1..MaxObjs : OnDisk(o)'
    BY DEF StoreInv, OnDisk, Unlocked
  <1> QED
    BY <1>1, <1>2, <1>3 DEF StoreInv

\* One session that nobody is saving is replaced by r.
LEMMA ObjChanges ==
    ASSUME NEW o \in Objs, NEW r \in Recs, MapInv, MapInv', StoreInv,
           obj' = [obj EXCEPT ![o] = r], Unlocked(o), UNCHANGED <<saving, file>>,
           drawn' \in 0..MaxIds, drawn <= drawn', sent' \in Nat, shared \subseteq shared',
           r.id \in Known', made <= made',
           \A p \in Objs : p # o /\ obj[p].id = r.id => r.id \in shared',
           o \in 1..MaxObjs /\ ~r.dirty /\ r.id \notin shared' =>
                Range(r.msgs) \subseteq Range(file[r.id]),
           \A k \in Chats : map'[k] \in {map[k], o},
           \A c \in Clis : pc'[c] # "off" => pc[c] # "off" \/ c = o
    PROVE  StoreInv'
  <1>1. /\ obj \in [Objs -> Recs] /\ drawn \in 0..MaxIds
        /\ file \in [Ids -> Seq(Nat) \union {"absent"}]
        /\ saving \in [Writers -> Objs \union {Nobody}]
    BY DEF StoreInv, StoreTypes
  <1>2. obj'[o] = r /\ \A p \in Objs : p # o => obj'[p] = obj[p]
    BY <1>1
  <1>3. obj' \in [Objs -> Recs]
    BY <1>1
  <1>4. \A i \in Known : i \in Known'
    BY <1>1, SessionsAssumption DEF Known
  <1>5. r.id \in Ids
    <2>1. \A i \in 1..drawn' : i \in 1..MaxIds
      BY SessionsAssumption
    <2> QED
      BY <2>1 DEF Known, Ids
  <1>6. \A w \in Writers : saving[w] # o
    BY DEF Unlocked
  <1>7. StoreTypes'
    BY <1>1, <1>3 DEF StoreTypes
  <1>8. DrawnInv'
    <2>1. \A p \in Objs : obj'[p].id \in Known' \union {Nobody}
      BY <1>2, <1>4 DEF StoreInv, DrawnInv
    <2>2. \A i \in Ids : file'[i] # "absent" => i \in Known'
      BY <1>4 DEF StoreInv, DrawnInv
    <2> QED
      BY <2>1, <2>2 DEF DrawnInv
  <1>9. LiveInv'
    <2>1. ASSUME NEW k \in Chats, map'[k] # Nobody PROVE obj'[map'[k]].id \in Ids
      <3>1. CASE map'[k] = o
        BY <1>2, <1>5, <3>1
      <3>2. CASE map'[k] # o
        <4>1. map'[k] = map[k] /\ map[k] \in 1..made
          BY <2>1, <3>2 DEF MapInv
        <4>2. map[k] \in Objs
          BY <4>1, Kinds2
        <4>3. obj[map[k]].id \in Ids
          BY <2>1, <4>1 DEF StoreInv, LiveInv
        <4> QED
          BY <1>2, <3>2, <4>1, <4>2, <4>3
      <3> QED
        BY <3>1, <3>2
    <2>2. ASSUME NEW c \in Clis, pc'[c] # "off" PROVE obj'[c].id \in Ids
      <3>1. CASE c = o
        BY <1>2, <1>5, <3>1
      <3>2. CASE c # o
        <4>1. c \in Objs /\ obj[c].id \in Ids
          BY <2>2, <3>2, Kinds2 DEF StoreInv, LiveInv
        <4> QED
          BY <1>2, <3>2, <4>1
      <3> QED
        BY <3>1, <3>2
    <2> QED
      BY <2>1, <2>2 DEF LiveInv
  <1>10. SharedInv'
    <2> SUFFICES ASSUME NEW p \in Objs, NEW q \in Objs, p # q, obj'[p].id = obj'[q].id,
                        obj'[p].id \in Ids
                 PROVE  obj'[p].id \in shared'
      BY DEF SharedInv
    <2>1. CASE p = o
      BY <1>2, <2>1
    <2>2. CASE q = o
      BY <1>2, <2>2
    <2>3. CASE p # o /\ q # o
      BY <1>2, <2>3 DEF StoreInv, SharedInv
    <2> QED
      BY <2>1, <2>2, <2>3
  <1>11. \A w \in Writers : saving[w] # Nobody => saving[w] \in Objs /\ obj'[saving[w]] = obj[saving[w]]
    BY <1>1, <1>2, <1>6
  <1>12. SavingInv'
    <2>1. saving[saver] \in (1..made') \union {Nobody}
      <3>1. \A i \in 1..made : i \in 1..made'
        BY DEF MapInv
      <3> QED
        BY <3>1 DEF StoreInv, SavingInv
    <2> QED
      BY <1>11, <2>1 DEF StoreInv, SavingInv
  <1>13. PrefixInv'
    <2>1. saver \in Writers
      BY Kinds2
    <2> QED
      BY <1>11, <2>1 DEF StoreInv, PrefixInv
  <1>14. ASSUME NEW p \in 1..MaxObjs PROVE OnDisk(p)'
    <2>1. p \in Objs
      BY Kinds2
    <2>2. CASE p = o
      BY <1>2, <2>2 DEF OnDisk
    <2>3. CASE p # o
      <3>1. obj'[p] = obj[p] /\ Unlocked(p)' = Unlocked(p)
        BY <1>2, <2>1, <2>3 DEF Unlocked
      <3>2. OnDisk(p)
        BY DEF StoreInv
      <3> QED
        BY <3>1, <3>2 DEF OnDisk, Unlocked
    <2> QED
      BY <2>2, <2>3
  <1> QED
    BY <1>7, <1>8, <1>9, <1>10, <1>12, <1>13, <1>14 DEF StoreInv

\* The session an actor works on has an id, and is not another process's.
LEMMA ActsOn ==
    ASSUME NEW a \in Tasks \union Clis, MapInv, StoreInv, pc[a] \in Working \union {"ready"},
           a \in Tasks => pc[a] \in Working
    PROVE  /\ Session(a) \in Objs
           /\ obj[Session(a)] \in Recs
           /\ obj[Session(a)].id \in Known
           /\ a \in Clis => Session(a) = a
           /\ a \in Tasks => Session(a) \in 1..MaxObjs
  <1>1. /\ \A o \in Objs : obj[o].id \in Known \union {Nobody}
        /\ obj \in [Objs -> Recs]
    BY DEF StoreInv, DrawnInv, StoreTypes
  <1>2. CASE a \in Tasks
    <2>1. a \notin Clis
      BY <1>2, SessionsAssumption
    <2>2. chat[a] \in Chats /\ handle[a] = map[chat[a]] /\ handle[a] # Nobody /\ handle[a] \in 1..made
      <3>1. pc[a] # "idle"
        BY <1>2 DEF Working
      <3> QED
        BY <1>2, <3>1 DEF MapInv
    <2>3. handle[a] \in 1..MaxObjs /\ handle[a] \in Objs
      BY <2>2, Kinds2
    <2>4. obj[handle[a]].id \in Ids
      BY <2>2 DEF StoreInv, LiveInv
    <2>5. obj[handle[a]].id \in Known
      BY <1>1, <2>3, <2>4, Kinds2
    <2> QED
      BY <1>1, <1>2, <2>1, <2>3, <2>5 DEF Session
  <1>3. CASE a \notin Tasks
    <2>1. a \in Clis /\ Session(a) = a
      BY <1>3 DEF Session
    <2>2. pc[a] # "off"
      BY DEF Working
    <2>3. obj[a].id \in Ids /\ a \in Objs
      BY <2>1, <2>2, Kinds2 DEF StoreInv, LiveInv
    <2>4. obj[a].id \in Known
      BY <1>1, <2>3, Kinds2
    <2> QED
      BY <1>1, <1>3, <2>1, <2>3, <2>4
  <1> QED
    BY <1>2, <1>3

\* new_session() draws an id that no session and no file has.
LEMMA StoreRenew ==
    ASSUME NEW a \in Tasks \union Clis, MapInv, MapInv', StoreInv, Renew(a), Session(a) \in Objs,
           UNCHANGED <<saving, file>>,
           \A c \in Clis : pc'[c] # "off" => pc[c] # "off" \/ c = Session(a)
    PROVE  StoreInv'
  <1>1. /\ drawn \in 0..MaxIds /\ drawn < MaxIds /\ drawn' = drawn + 1 /\ sent \in Nat
        /\ UNCHANGED <<map, made, sent, shared>> /\ Unlocked(Session(a))
        /\ obj' = [obj EXCEPT ![Session(a)] = Fresh]
    BY DEF StoreInv, StoreTypes, Renew
  <1>2. PICK d \in Nat : d = drawn + 1 /\ d \in 1..MaxIds
    BY <1>1, SessionsAssumption
  <1>3. Fresh = [id |-> d, msgs |-> <<>>, dirty |-> TRUE]
    BY <1>2 DEF Fresh
  <1>4. Fresh \in Recs /\ Fresh.id = d /\ Fresh.dirty = TRUE
    BY <1>2, <1>3 DEF Recs, Ids
  <1>5. drawn' = d /\ drawn' \in 0..MaxIds /\ drawn <= drawn' /\ d \in 1..drawn'
    BY <1>1, <1>2, SessionsAssumption
  <1>6. Fresh.id \in Known'
    BY <1>4, <1>5 DEF Known
  <1>7. \A p \in Objs : obj[p].id # d
    <2>1. d \notin 1..drawn
      BY <1>1, <1>2
    <2>2. d \notin Chats /\ d # Nobody
      BY <1>2, SessionsAssumption
    <2> QED
      BY <2>1, <2>2 DEF StoreInv, DrawnInv, Known
  <1>8. made <= made'
    BY <1>1 DEF MapInv
  <1> QED
    BY <1>1, <1>4, <1>5, <1>6, <1>7, <1>8, ObjChanges

\* A session's messages change: it is marked, or it has no new ones.
LEMMA MessagesChange ==
    ASSUME NEW o \in Objs, NEW m \in Seq(Nat), NEW d \in BOOLEAN, MapInv, MapInv', StoreInv,
           obj[o].id \in Known, Unlocked(o),
           obj' = [obj EXCEPT ![o] = [id |-> obj[o].id, msgs |-> m, dirty |-> d]],
           ~d => ~obj[o].dirty /\ Range(m) \subseteq Range(obj[o].msgs),
           UNCHANGED <<map, made, drawn, shared, saving, file>>, sent' \in Nat,
           \A c \in Clis : pc'[c] # "off" => pc[c] # "off"
    PROVE  StoreInv'
  <1>1. obj \in [Objs -> Recs] /\ drawn \in 0..MaxIds
    BY DEF StoreInv, StoreTypes
  <1>2. obj[o].id \in Ids
    <2>1. obj[o].id \in Ids \union {Nobody}
      BY <1>1 DEF Recs
    <2>2. \A i \in 1..drawn : i \in 1..MaxIds
      BY <1>1, SessionsAssumption
    <2> QED
      BY <2>2 DEF Known, Ids
  <1>3. PICK r \in Recs : r = [id |-> obj[o].id, msgs |-> m, dirty |-> d]
    BY <1>2 DEF Recs
  <1>4. r.id = obj[o].id /\ r.msgs = m /\ r.dirty = d
    BY <1>3
  <1>5. \A p \in Objs : p # o /\ obj[p].id = r.id => r.id \in shared'
    BY <1>2, <1>4 DEF StoreInv, SharedInv
  <1>6. o \in 1..MaxObjs /\ ~r.dirty /\ r.id \notin shared' => Range(r.msgs) \subseteq Range(file[r.id])
    <2> SUFFICES ASSUME o \in 1..MaxObjs, ~d, obj[o].id \notin shared
                 PROVE  Range(m) \subseteq Range(file[obj[o].id])
      BY <1>4
    <2>1. OnDisk(o)
      BY DEF StoreInv
    <2>2. Range(obj[o].msgs) \subseteq Range(file[obj[o].id])
      BY <1>2, <2>1 DEF OnDisk
    <2> QED
      BY <2>2
  <1>7. r.id \in Known'
    BY <1>4 DEF Known
  <1>8. made <= made' /\ drawn <= drawn' /\ drawn' \in 0..MaxIds
    BY <1>1 DEF MapInv
  <1> QED
    BY <1>3, <1>5, <1>6, <1>7, <1>8, ObjChanges

\* The steps of actors that leave a CLI process running as it was.
LEMMA CliPlace ==
    ASSUME NEW a \in Tasks \union Clis, NEW s \in Spots, MapInv, pc' = [pc EXCEPT ![a] = s],
           a \in Tasks \/ pc[a] # "off"
    PROVE  \A c \in Clis : pc'[c] # "off" => pc[c] # "off"
  <1> SUFFICES ASSUME NEW c \in Clis, pc'[c] # "off" PROVE pc[c] # "off"
    OBVIOUS
  <1>1. c \notin Tasks
    BY SessionsAssumption
  <1>2. pc'[c] = IF c = a THEN s ELSE pc[c]
    BY DEF MapInv
  <1> QED
    BY <1>1, <1>2

\* What the assignments to fields of a session amount to.
LEMMA OneField ==
    ASSUME NEW x \in Recs, NEW d \in BOOLEAN
    PROVE  [x EXCEPT !.dirty = d] = [id |-> x.id, msgs |-> x.msgs, dirty |-> d]
  <1>1. x = [id |-> x.id, msgs |-> x.msgs, dirty |-> x.dirty]
    BY DEF Recs
  <1>2. [[id |-> x.id, msgs |-> x.msgs, dirty |-> x.dirty] EXCEPT !.dirty = d]
          = [id |-> x.id, msgs |-> x.msgs, dirty |-> d]
    OBVIOUS
  <1> QED
    BY <1>1, <1>2, Zenon

LEMMA TwoFields ==
    ASSUME NEW x \in Recs, NEW m \in Seq(Nat), NEW d \in BOOLEAN
    PROVE  [[x EXCEPT !.msgs = m] EXCEPT !.dirty = d] = [id |-> x.id, msgs |-> m, dirty |-> d]
  <1>1. [x EXCEPT !.msgs = m] = [id |-> x.id, msgs |-> m, dirty |-> x.dirty]
    <2>1. x = [id |-> x.id, msgs |-> x.msgs, dirty |-> x.dirty]
      BY DEF Recs
    <2>2. [[id |-> x.id, msgs |-> x.msgs, dirty |-> x.dirty] EXCEPT !.msgs = m]
            = [id |-> x.id, msgs |-> m, dirty |-> x.dirty]
      OBVIOUS
    <2> QED
      BY <2>1, <2>2, Zenon
  <1>2. [[id |-> x.id, msgs |-> m, dirty |-> x.dirty] EXCEPT !.dirty = d]
          = [id |-> x.id, msgs |-> m, dirty |-> d]
    OBVIOUS
  <1> QED
    BY <1>1, <1>2, Zenon

LEMMA StoreAddMessage ==
    ASSUME NEW a \in Tasks \union Clis, MapInv, MapInv', StoreInv, AddMessage(a)
    PROVE  StoreInv'
  <1>1. /\ pc[a] = Waiting(a) /\ Unlocked(Session(a)) /\ sent' = sent + 1
        /\ obj' = [obj EXCEPT ![Session(a)].msgs = Append(@, sent + 1), ![Session(a)].dirty = TRUE]
        /\ pc' = [pc EXCEPT ![a] = "ask"]
        /\ UNCHANGED <<map, made, drawn, shared, saving, file>>
    BY DEF AddMessage, disk, Goto
  <1>2. pc[a] \in Working \union {"ready"} /\ pc[a] # "off" /\ (a \in Tasks => pc[a] \in Working)
    BY <1>1 DEF Waiting, Working
  <1>3. Session(a) \in Objs /\ obj[Session(a)] \in Recs /\ obj[Session(a)].id \in Known
    BY <1>2, ActsOn
  <1>4. PICK o \in Objs : o = Session(a)
    BY <1>3
  <1>5. PICK n \in Nat : n = sent + 1
    BY DEF StoreInv, StoreTypes
  <1>6. obj \in [Objs -> Recs]
    BY DEF StoreInv, StoreTypes
  <1>7. obj[o].msgs \in Seq(Nat)
    BY <1>3, <1>4 DEF Recs
  <1>8. PICK m \in Seq(Nat) : m = Append(obj[o].msgs, n)
    <2>1. Append(obj[o].msgs, n) \in Seq(Nat)
      BY <1>7
    <2> QED
      BY <2>1, Zenon
  <1>9. obj' = [obj EXCEPT ![o] = [id |-> obj[o].id, msgs |-> m, dirty |-> TRUE]]
    <2>1. PICK x \in Recs : x = obj[o]
      BY <1>6
    <2>2. obj' = [obj EXCEPT ![o] = [[x EXCEPT !.msgs = m] EXCEPT !.dirty = TRUE]]
      BY <1>1, <1>4, <1>5, <1>6, <1>8, <2>1
    <2>3. [[x EXCEPT !.msgs = m] EXCEPT !.dirty = TRUE] = [id |-> x.id, msgs |-> m, dirty |-> TRUE]
      BY TwoFields, Zenon
    <2> QED
      BY <2>1, <2>2, <2>3, Zenon
  <1>10. \A c \in Clis : pc'[c] # "off" => pc[c] # "off"
    <2>1. "ask" \in Spots
      BY DEF Spots, Working
    <2> QED
      BY <1>1, <1>2, <2>1, CliPlace
  <1>11. sent' \in Nat
    BY <1>1, <1>5
  <1> QED
    BY <1>1, <1>3, <1>4, <1>9, <1>10, <1>11, MessagesChange

LEMMA StoreCompact ==
    ASSUME NEW a \in Tasks \union Clis, MapInv, MapInv', StoreInv, Compact(a)
    PROVE  StoreInv'
  <1>1. /\ pc[a] = "ask" /\ Unlocked(Session(a)) /\ Len(obj[Session(a)].msgs) > 1
        /\ UNCHANGED <<map, made, drawn, sent, shared, saving, file, pc>>
    BY DEF Compact, disk, task
  <1>2. Session(a) \in Objs /\ obj[Session(a)] \in Recs /\ obj[Session(a)].id \in Known
    BY <1>1, ActsOn DEF Working
  <1>3. PICK o \in Objs : o = Session(a)
    BY <1>2
  <1>4. obj \in [Objs -> Recs] /\ sent' \in Nat
    BY <1>1 DEF StoreInv, StoreTypes
  <1>5. obj[o].msgs \in Seq(Nat) /\ Len(obj[o].msgs) > 1 /\ obj[o].dirty \in BOOLEAN
    BY <1>1, <1>2, <1>3 DEF Recs
  <1>6. PICK m \in Seq(Nat) : m = Tail(obj[o].msgs)
    <2>1. Tail(obj[o].msgs) \in Seq(Nat)
      BY <1>5
    <2> QED
      BY <2>1, Zenon
  <1>7. Range(m) \subseteq Range(obj[o].msgs)
    <2> SUFFICES ASSUME NEW i \in DOMAIN m PROVE \E j \in DOMAIN obj[o].msgs : obj[o].msgs[j] = m[i]
      BY DEF Range
    <2>1. i + 1 \in DOMAIN obj[o].msgs /\ obj[o].msgs[i + 1] = m[i]
      BY <1>5, <1>6
    <2> QED
      BY <2>1
  <1>8. PICK mark \in BOOLEAN :
          obj' = [obj EXCEPT ![o].msgs = Tail(@), ![o].dirty = @ \/ mark]
    BY <1>3 DEF Compact
  <1>9. PICK d \in BOOLEAN : d = (obj[o].dirty \/ mark)
    OBVIOUS
  <1>10. obj' = [obj EXCEPT ![o] = [id |-> obj[o].id, msgs |-> m, dirty |-> d]]
    <2>1. PICK x \in Recs : x = obj[o]
      BY <1>4
    <2>2. obj' = [obj EXCEPT ![o] = [[x EXCEPT !.msgs = m] EXCEPT !.dirty = d]]
      BY <1>4, <1>6, <1>8, <1>9, <2>1
    <2>3. [[x EXCEPT !.msgs = m] EXCEPT !.dirty = d] = [id |-> x.id, msgs |-> m, dirty |-> d]
      BY TwoFields, Zenon
    <2> QED
      BY <2>1, <2>2, <2>3, Zenon
  <1>11. ~d => ~obj[o].dirty
    BY <1>9
  <1> QED
    BY <1>1, <1>2, <1>3, <1>4, <1>7, <1>10, <1>11, MessagesChange

LEMMA StoreClear ==
    ASSUME NEW a \in Tasks \union Clis, MapInv, MapInv', StoreInv, Clear(a)
    PROVE  StoreInv'
  <1>1. pc[a] = Waiting(a) /\ Renew(a) /\ UNCHANGED <<saving, file>>
    BY DEF Clear, disk
  <1>2. pc[a] \in Working \union {"ready"} /\ pc[a] # "off" /\ (a \in Tasks => pc[a] \in Working)
    BY <1>1 DEF Waiting, Working
  <1>3. Session(a) \in Objs
    BY <1>2, ActsOn
  <1>4. PICK s \in Spots : pc' = [pc EXCEPT ![a] = s]
    <2>1. "cleared" \in Spots /\ "ready" \in Spots
      BY DEF Spots, Working
    <2> QED
      BY <2>1 DEF Clear, Goto
  <1>5. \A c \in Clis : pc'[c] # "off" => pc[c] # "off"
    BY <1>2, <1>4, CliPlace
  <1> QED
    BY <1>1, <1>3, <1>5, StoreRenew

LEMMA StoreSetUp ==
    ASSUME NEW t \in Tasks, MapInv, MapInv', StoreInv, SetUp(t)
    PROVE  StoreInv'
  <1>1. pc[t] \in Working /\ UNCHANGED <<saving, file>> /\ (Renew(t) \/ UNCHANGED live)
    BY DEF SetUp, disk, Working
  <1>2. Session(t) \in Objs
    BY <1>1, ActsOn
  <1>3. PICK s \in Spots : pc' = [pc EXCEPT ![t] = s]
    <2>1. "idle" \in Spots /\ "turn" \in Spots
      BY DEF Spots, Working
    <2> QED
      BY <2>1 DEF SetUp, Goto, Return
  <1>4. \A c \in Clis : pc'[c] # "off" => pc[c] # "off"
    BY <1>3, CliPlace
  <1>5. CASE Renew(t)
    BY <1>1, <1>2, <1>4, <1>5, StoreRenew
  <1>6. CASE UNCHANGED live
    BY <1>1, <1>4, <1>6, StoreUntouched DEF live
  <1> QED
    BY <1>1, <1>5, <1>6

\* A session becomes the live one of a chat, loaded or new.
LEMMA StoreEnlist ==
    ASSUME NEW t \in Tasks, NEW s \in Recs, MapInv, MapInv', StoreInv, Enlist(t, s), s.id \in Known,
           ~s.dirty => Range(s.msgs) \subseteq Range(file[s.id]), UNCHANGED <<saving, file>>
    PROVE  StoreInv'
  <1>1. /\ made < MaxObjs /\ made' = made + 1 /\ drawn' = drawn /\ sent' = sent
        /\ obj' = [obj EXCEPT ![made + 1] = s]
        /\ map' = [map EXCEPT ![chat[t]] = made + 1]
        /\ shared' = shared \union ({s.id} \intersect IdsBeside(made + 1))
        /\ pc' = [pc EXCEPT ![t] = "enter"]
    BY DEF Enlist, Goto
  <1>2. made \in Nat /\ drawn \in 0..MaxIds /\ sent \in Nat
    BY DEF MapInv, StoreInv, StoreTypes
  <1>3. PICK o \in 1..MaxObjs : o = made + 1
    BY <1>1, <1>2, SessionsAssumption
  <1>4. o \in Objs /\ o \notin Clis /\ o # Nobody
    BY Kinds2
  <1>5. Unlocked(o)
    <2>1. saving[saver] # o
      <3>1. o \notin 1..made
        BY <1>2, <1>3
      <3> QED
        BY <1>4, <3>1 DEF StoreInv, SavingInv
    <2>2. \A c \in Clis : saving[c] # o
      BY <1>4 DEF StoreInv, SavingInv
    <2> QED
      BY <2>1, <2>2, Kinds2 DEF Unlocked
  <1>6. obj' = [obj EXCEPT ![o] = s]
    BY <1>1, <1>3
  <1>7. \A p \in Objs : p # o /\ obj[p].id = s.id => s.id \in shared'
    BY <1>1, <1>3 DEF IdsBeside
  <1>8. s.id \in Known'
    BY <1>1 DEF Known
  <1>9. \A k \in Chats : map'[k] \in {map[k], o}
    BY <1>1, <1>3 DEF MapInv
  <1>10. \A c \in Clis : pc'[c] # "off" => pc[c] # "off"
    <2>1. "enter" \in Spots
      BY DEF Spots, Working
    <2> QED
      BY <1>1, <2>1, CliPlace
  <1>11. made <= made' /\ drawn' \in 0..MaxIds /\ drawn <= drawn' /\ sent' \in Nat /\ shared \subseteq shared'
    BY <1>1, <1>2
  <1> QED
    BY <1>4, <1>5, <1>6, <1>7, <1>8, <1>9, <1>10, <1>11, ObjChanges

\* What Session::load() makes of a file.
LEMMA LoadedFile ==
    ASSUME NEW i \in Ids, StoreInv, file[i] # "absent"
    PROVE  /\ Loaded(i) \in Recs
           /\ Loaded(i).id = i /\ Loaded(i).msgs = file[i] /\ Loaded(i).dirty = FALSE
           /\ i \in Known
  <1>1. file[i] \in Seq(Nat)
    BY DEF StoreInv, StoreTypes
  <1>2. i \in Known
    BY DEF StoreInv, DrawnInv
  <1> QED
    BY <1>1, <1>2 DEF Loaded, Recs

LEMMA StoreLookup ==
    ASSUME NEW t \in Tasks, MapInv, MapInv', StoreInv,
           (\E k \in Chats : Lookup(t, k)) \/ Enter(t) \/ EndTurn(t)
    PROVE  StoreInv'
  <1>1. PICK s \in Spots : pc' = [pc EXCEPT ![t] = s]
    <2>1. {"enter", "miss", "setup", "turn", "idle"} \subseteq Spots
      BY DEF Spots, Working
    <2> QED
      BY <2>1 DEF Lookup, Enter, EndTurn, Return, Goto
  <1>2. UNCHANGED <<map, made, obj, drawn, sent, shared, saving, file>>
    BY DEF Lookup, Enter, EndTurn, live, disk
  <1> QED
    BY <1>1, <1>2, CliPlace, StoreUntouched

LEMMA StoreAdopt ==
    ASSUME NEW t \in Tasks, MapInv, MapInv', StoreInv, Adopt(t), UNCHANGED <<saving, file>>
    PROVE  StoreInv'
  <1>1. "enter" \in Spots /\ pc' = [pc EXCEPT ![t] = "enter"]
    BY DEF Spots, Working, Adopt, Goto
  <1>2. UNCHANGED <<map, made, obj, drawn, sent, shared>>
    BY DEF Adopt, live
  <1> QED
    BY <1>1, <1>2, CliPlace, StoreUntouched

LEMMA StoreLoadOrMiss ==
    ASSUME NEW t \in Tasks, MapInv, MapInv', StoreInv, LoadOrMiss(t)
    PROVE  StoreInv'
  <1>1. pc[t] = "miss" /\ UNCHANGED <<saving, file>>
    BY DEF LoadOrMiss, disk
  <1>2. chat[t] \in Chats /\ chat[t] \in Ids
    BY <1>1 DEF MapInv, Ids
  <1>3. CASE Adopt(t)
    BY <1>1, <1>3, StoreAdopt
  <1>4. CASE file[chat[t]] # "absent" /\ Enlist(t, Loaded(chat[t]))
    <2>1. PICK s \in Recs : s = Loaded(chat[t]) /\ s.id = chat[t] /\ s.msgs = file[chat[t]]
                            /\ s.id \in Known
      BY <1>2, <1>4, LoadedFile
    <2>2. Enlist(t, s) /\ Range(s.msgs) \subseteq Range(file[s.id])
      BY <1>4, <2>1
    <2> QED
      BY <1>1, <2>1, <2>2, StoreEnlist
  <1>5. CASE Goto(t, "create") /\ UNCHANGED live
    <2>1. "create" \in Spots /\ pc' = [pc EXCEPT ![t] = "create"]
      BY <1>5 DEF Goto, Spots
    <2>2. UNCHANGED <<map, made, obj, drawn, sent, shared>>
      BY <1>5 DEF live
    <2> QED
      BY <1>1, <2>1, <2>2, CliPlace, StoreUntouched
  <1> QED
    BY <1>3, <1>4, <1>5 DEF LoadOrMiss

LEMMA StoreCreate ==
    ASSUME NEW t \in Tasks, MapInv, MapInv', StoreInv, Create(t)
    PROVE  StoreInv'
  <1>1. pc[t] = "create" /\ UNCHANGED <<saving, file>>
    BY DEF Create, disk
  <1>2. chat[t] \in Chats /\ chat[t] \in Ids /\ chat[t] \in Known
    BY <1>1 DEF MapInv, Ids, Known
  <1>3. CASE Adopt(t)
    BY <1>1, <1>3, StoreAdopt
  <1>4. CASE Enlist(t, [id |-> chat[t], msgs |-> <<>>, dirty |-> TRUE])
    <2>1. PICK s \in Recs : s = [id |-> chat[t], msgs |-> <<>>, dirty |-> TRUE]
      <3>1. [id |-> chat[t], msgs |-> <<>>, dirty |-> TRUE] \in Recs
        BY <1>2 DEF Recs
      <3> QED
        BY <3>1, Zenon
    <2>2. Enlist(t, s) /\ s.id \in Known /\ s.dirty
      BY <1>2, <1>4, <2>1
    <2> QED
      BY <1>1, <2>2, StoreEnlist
  <1> QED
    BY <1>3, <1>4 DEF Create

LEMMA StoreCliStart ==
    ASSUME NEW c \in Clis, MapInv, MapInv', StoreInv, CliStart(c)
    PROVE  StoreInv'
  <1>1. UNCHANGED <<saving, file>> /\ saving[c] = Nobody /\ pc' = [pc EXCEPT ![c] = "ready"]
    BY DEF CliStart, disk, Goto
  <1>2. c \in Objs /\ c \notin Tasks /\ c # Nobody /\ c \notin 1..MaxObjs /\ Session(c) = c
    BY Kinds2 DEF Session
  <1>3. \A d \in Clis : pc'[d] # "off" => pc[d] # "off" \/ d = c
    BY <1>1 DEF MapInv
  <1>4. CASE Renew(c)
    BY <1>1, <1>2, <1>3, <1>4, StoreRenew
  <1>5. ASSUME NEW i \in Ids, file[i] # "absent", obj' = [obj EXCEPT ![c] = Loaded(i)],
               shared' = shared \union ({i} \intersect IdsBeside(c)),
               UNCHANGED <<map, made, drawn, sent>>
        PROVE  StoreInv'
    <2>1. PICK s \in Recs : s = Loaded(i) /\ s.id = i /\ s.id \in Known
      BY <1>5, LoadedFile
    <2>2. Unlocked(c)
      <3>1. saving[saver] # c
        BY <1>2, Kinds2 DEF StoreInv, SavingInv
      <3>2. \A d \in Clis : saving[d] # c
        BY <1>1, <1>2 DEF StoreInv, SavingInv
      <3> QED
        BY <3>1, <3>2, Kinds2 DEF Unlocked
    <2>3. obj' = [obj EXCEPT ![c] = s]
      BY <1>5, <2>1
    <2>4. \A p \in Objs : p # c /\ obj[p].id = s.id => s.id \in shared'
      BY <1>5, <2>1 DEF IdsBeside
    <2>5. s.id \in Known'
      BY <1>5, <2>1 DEF Known
    <2>6. /\ drawn' \in 0..MaxIds /\ drawn <= drawn' /\ sent' \in Nat /\ shared \subseteq shared'
          /\ made <= made'
      BY <1>5 DEF StoreInv, StoreTypes, MapInv
    <2>7. \A k \in Chats : map'[k] \in {map[k], c}
      BY <1>5
    <2> QED
      BY <1>1, <1>2, <1>3, <2>2, <2>3, <2>4, <2>5, <2>6, <2>7, ObjChanges
  <1> QED
    BY <1>4, <1>5 DEF CliStart

\* A writer that holds the lock of o sets what the file of o's id has.
LEMMA StoreWrites ==
    ASSUME NEW w \in Writers, NEW o \in Objs, NEW f \in Seq(Nat), MapInv, MapInv', StoreInv,
           UNCHANGED <<map, made, obj, drawn, sent, shared>>,
           saving' = [saving EXCEPT ![w] = o], file' = [file EXCEPT ![obj[o].id] = f],
           saving[w] \in {Nobody, o}, obj[o].id \in Known,
           w \in Clis => o = w,
           w = saver => o \in 1..made /\ obj[o].dirty /\ Prefix(obj[o], f),
           \A c \in Clis : pc'[c] # "off" => pc[c] # "off"
    PROVE  StoreInv'
  <1>1. /\ obj \in [Objs -> Recs] /\ drawn \in 0..MaxIds
        /\ file \in [Ids -> Seq(Nat) \union {"absent"}]
        /\ saving \in [Writers -> Objs \union {Nobody}]
    BY DEF StoreInv, StoreTypes
  <1>2. obj[o].id \in Ids
    <2>1. \A i \in 1..drawn : i \in 1..MaxIds
      BY <1>1, SessionsAssumption
    <2> QED
      BY <2>1 DEF Known, Ids
  <1>3. PICK n \in Ids : n = obj[o].id
    BY <1>2
  <1>4. file'[n] = f /\ \A i \in Ids : i # n => file'[i] = file[i]
    BY <1>1, <1>3
  <1>5. saving'[w] = o /\ \A v \in Writers : v # w => saving'[v] = saving[v]
    BY <1>1
  <1>6. StoreTypes'
    <2>1. file' \in [Ids -> Seq(Nat) \union {"absent"}]
      BY <1>1, <1>3
    <2>2. saving' \in [Writers -> Objs \union {Nobody}]
      BY <1>1
    <2> QED
      BY <2>1, <2>2 DEF StoreInv, StoreTypes
  <1>7. DrawnInv'
    <2>1. n \in Known' /\ Known' = Known
      BY <1>3 DEF Known
    <2> QED
      BY <1>4, <2>1 DEF StoreInv, DrawnInv
  <1>8. LiveInv' /\ SharedInv'
    BY DEF StoreInv, LiveInv, SharedInv
  <1>9. SavingInv'
    <2>1. saving'[saver] \in (1..made) \union {Nobody}
      BY <1>5, Kinds2 DEF StoreInv, SavingInv
    <2>2. \A c \in Clis : saving'[c] \in {c, Nobody}
      BY <1>5, Kinds2 DEF StoreInv, SavingInv
    <2>3. ASSUME NEW v \in Writers, saving'[v] # Nobody
          PROVE  obj[saving'[v]].id \in Ids /\ file'[obj[saving'[v]].id] \in Seq(Nat)
      <3>1. CASE v = w
        BY <1>3, <1>4, <1>5, <3>1
      <3>2. CASE v # w
        <4>1. saving'[v] = saving[v]
          BY <1>5, <3>2
        <4>2. obj[saving[v]].id \in Ids /\ file[obj[saving[v]].id] \in Seq(Nat)
          BY <2>3, <4>1 DEF StoreInv, SavingInv
        <4>3. file'[obj[saving[v]].id] \in Seq(Nat)
          BY <1>4, <4>2
        <4> QED
          BY <4>1, <4>2, <4>3
      <3> QED
        BY <3>1, <3>2
    <2> QED
      BY <2>1, <2>2, <2>3 DEF SavingInv
  <1>10. ASSUME NEW p \in Objs, p # o, obj[p].id \in Ids \ shared
         PROVE  file'[obj[p].id] = file[obj[p].id]
    <2>1. obj[p].id # n
      BY <1>3, <1>10 DEF StoreInv, SharedInv
    <2> QED
      BY <1>4, <1>10, <2>1
  <1>11. PrefixInv'
    <2>1. CASE w = saver
      BY <1>3, <1>4, <1>5, <2>1 DEF PrefixInv
    <2>2. CASE w # saver
      <3> SUFFICES ASSUME saving'[saver] # Nobody
                   PROVE  /\ obj[saving'[saver]].dirty
                          /\ obj[saving'[saver]].id \notin shared =>
                              Prefix(obj[saving'[saver]], file'[obj[saving'[saver]].id])
        BY DEF PrefixInv, Prefix
      <3>1. saving'[saver] = saving[saver] /\ saving[saver] # Nobody
        BY <1>5, <2>2, Kinds2
      <3>2. saving[saver] \in 1..made /\ w \in Clis
        BY <2>2, <3>1, Kinds2 DEF StoreInv, SavingInv
      <3>3. saving[saver] \in Objs /\ saving[saver] # o
        BY <3>2, Kinds2
      <3>4. obj[saving[saver]].id \in Ids
        BY <3>1, Kinds2 DEF StoreInv, SavingInv
      <3>5. /\ obj[saving[saver]].dirty
            /\ obj[saving[saver]].id \notin shared =>
                Prefix(obj[saving[saver]], file[obj[saving[saver]].id])
        BY <3>1 DEF StoreInv, PrefixInv
      <3>6. obj[saving[saver]].id \notin shared =>
              file'[obj[saving[saver]].id] = file[obj[saving[saver]].id]
        BY <1>10, <3>3, <3>4
      <3> QED
        BY <3>1, <3>5, <3>6
    <2> QED
      BY <2>1, <2>2
  <1>12. ASSUME NEW p \in 1..MaxObjs PROVE OnDisk(p)'
    <2>0. p \in Objs /\ p # Nobody
      BY Kinds2
    <2> SUFFICES ASSUME obj[p].id \in Ids \ shared, ~obj[p].dirty, \A v \in Writers : saving'[v] # p
                 PROVE  Range(obj[p].msgs) \subseteq Range(file'[obj[p].id])
      BY DEF OnDisk, Unlocked
    <2>1. p # o
      BY <1>5
    <2>2. \A v \in Writers : saving[v] # p
      BY <1>5, <2>0, <2>1
    <2>3. OnDisk(p)
      BY DEF StoreInv
    <2>4. Range(obj[p].msgs) \subseteq Range(file[obj[p].id])
      BY <2>2, <2>3 DEF OnDisk, Unlocked
    <2> QED
      BY <1>10, <2>0, <2>1, <2>4
  <1> QED
    BY <1>6, <1>7, <1>8, <1>9, <1>11, <1>12 DEF StoreInv

\* A writer lets go of the session o, which keeps its id or is gone.
LEMMA StoreReleases ==
    ASSUME NEW w \in Writers, NEW o \in Objs, MapInv, MapInv', StoreInv,
           UNCHANGED <<map, made, drawn, sent, shared, file>>,
           obj' \in [Objs -> Recs], \A p \in Objs : p # o => obj'[p] = obj[p],
           saving' = [saving EXCEPT ![w] = Nobody],
           saving[w] \in {Nobody, o}, \A v \in Writers : v # w => saving[v] # o,
           obj'[o].id \in {obj[o].id, Nobody},
           o \in 1..MaxObjs => OnDisk(o)',
           o \in 1..MaxObjs \/ pc'[o] # "off" => obj'[o].id = obj[o].id,
           \A c \in Clis : pc'[c] # "off" => pc[c] # "off"
    PROVE  StoreInv'
  <1>1. /\ obj \in [Objs -> Recs]
        /\ saving \in [Writers -> Objs \union {Nobody}]
    BY DEF StoreInv, StoreTypes
  <1>2. \A p \in Objs : p # o => obj'[p] = obj[p]
    OBVIOUS
  <1>3. saving'[w] = Nobody /\ \A v \in Writers : v # w => saving'[v] = saving[v]
    BY <1>1
  <1>4. StoreTypes'
    BY DEF StoreInv, StoreTypes
  <1>5. DrawnInv'
    <2>1. Known' = Known
      BY DEF Known
    <2> QED
      BY <1>2, <2>1 DEF StoreInv, DrawnInv
  <1>6. LiveInv'
    <2>1. ASSUME NEW k \in Chats, map[k] # Nobody PROVE obj'[map[k]].id \in Ids
      <3>1. map[k] \in Objs
        BY <2>1, Kinds2 DEF MapInv
      <3>2. obj[map[k]].id \in Ids
        BY <2>1 DEF StoreInv, LiveInv
      <3>3. map[k] \in 1..MaxObjs
        BY <2>1, Kinds2 DEF MapInv
      <3> QED
        BY <1>2, <3>1, <3>2, <3>3
    <2>2. ASSUME NEW c \in Clis, pc'[c] # "off" PROVE obj'[c].id \in Ids
      <3>1. c \in Objs /\ obj[c].id \in Ids
        BY <2>2, Kinds2 DEF StoreInv, LiveInv
      <3> QED
        BY <1>2, <2>2, <3>1
    <2> QED
      BY <2>1, <2>2 DEF LiveInv
  <1>7. SharedInv'
    <2> SUFFICES ASSUME NEW p \in Objs, NEW q \in Objs, p # q, obj'[p].id = obj'[q].id,
                        obj'[p].id \in Ids
                 PROVE  obj'[p].id \in shared
      BY DEF SharedInv
    <2>1. Nobody \notin Ids
      BY Kinds2
    <2>2. obj'[p].id = obj[p].id /\ obj'[q].id = obj[q].id
      BY <1>2, <2>1
    <2> QED
      BY <2>2 DEF StoreInv, SharedInv
  <1>8. \A v \in Writers : saving'[v] # Nobody =>
          saving'[v] = saving[v] /\ saving[v] \in Objs /\ saving[v] # o
    BY <1>1, <1>3
  <1>9. \A v \in Writers : saving'[v] # Nobody => obj'[saving'[v]] = obj[saving[v]]
    BY <1>2, <1>8
  <1>10. SavingInv'
    <2>1. /\ saving'[saver] \in (1..made) \union {Nobody}
          /\ \A c \in Clis : saving'[c] \in {c, Nobody}
      BY <1>8, Kinds2 DEF StoreInv, SavingInv
    <2>2. \A v \in Writers : saving'[v] # Nobody =>
            obj'[saving'[v]].id \in Ids /\ file[obj'[saving'[v]].id] \in Seq(Nat)
      BY <1>8, <1>9 DEF StoreInv, SavingInv
    <2> QED
      BY <2>1, <2>2 DEF SavingInv
  <1>11. PrefixInv'
    BY <1>8, <1>9, Kinds2 DEF StoreInv, PrefixInv
  <1>12. ASSUME NEW p \in 1..MaxObjs PROVE OnDisk(p)'
    <2>0. p \in Objs /\ p # Nobody
      BY Kinds2
    <2>1. CASE p = o
      BY <2>1
    <2>2. CASE p # o
      <3> SUFFICES ASSUME obj[p].id \in Ids \ shared, ~obj[p].dirty, \A v \in Writers : saving'[v] # p
                   PROVE  Range(obj[p].msgs) \subseteq Range(file[obj[p].id])
        BY <1>2, <2>0, <2>2 DEF OnDisk, Unlocked
      <3>1. \A v \in Writers : saving[v] # p
        BY <1>3, <2>0, <2>2
      <3>2. OnDisk(p)
        BY DEF StoreInv
      <3> QED
        BY <3>1, <3>2 DEF OnDisk, Unlocked
    <2> QED
      BY <2>1, <2>2
  <1> QED
    BY <1>4, <1>5, <1>6, <1>7, <1>10, <1>11, <1>12 DEF StoreInv

\* save() starts with a file that has no lines.
LEMMA StoreSaveBegin ==
    ASSUME NEW w \in Writers, NEW o \in Objs, MapInv, MapInv', StoreInv, SaveBegin(w, o),
           UNCHANGED <<map, made, obj, drawn, sent, shared>>, obj[o].id \in Known,
           w \in Clis => o = w, w = saver => o \in 1..made /\ obj[o].dirty,
           \A c \in Clis : pc'[c] # "off" => pc[c] # "off"
    PROVE  StoreInv'
  <1>1. PICK f \in Seq(Nat) : f = <<>>
    <2>1. <<>> \in Seq(Nat)
      OBVIOUS
    <2> QED
      BY <2>1, Zenon
  <1>2. /\ saving[w] = Nobody /\ saving' = [saving EXCEPT ![w] = o]
        /\ file' = [file EXCEPT ![obj[o].id] = f]
    BY <1>1 DEF SaveBegin
  <1>3. Prefix(obj[o], f)
    <2>1. obj[o].msgs \in Seq(Nat)
      BY DEF StoreInv, StoreTypes, Recs
    <2> QED
      BY <1>1, <2>1 DEF Prefix
  <1> QED
    BY <1>2, <1>3, StoreWrites

LEMMA StoreAutoSave ==
    ASSUME NEW k \in Chats, MapInv, MapInv', StoreInv, AutoSave(k)
    PROVE  StoreInv'
  <1>1. /\ map[k] # Nobody /\ obj[map[k]].dirty /\ SaveBegin(saver, map[k])
        /\ UNCHANGED <<map, made, obj, drawn, sent, shared, pc>>
    BY DEF AutoSave, live, task
  <1>2. map[k] \in 1..made /\ obj[map[k]].id \in Ids
    BY <1>1 DEF MapInv, StoreInv, LiveInv
  <1>3. PICK o \in Objs : o = map[k]
    BY <1>2, Kinds2
  <1>4. obj[o].id \in Known
    BY <1>2, <1>3, Kinds2 DEF StoreInv, DrawnInv
  <1> QED
    BY <1>1, <1>2, <1>3, <1>4, Kinds2, StoreSaveBegin

LEMMA StoreCliSave ==
    ASSUME NEW c \in Clis, MapInv, MapInv', StoreInv, CliEndTurn(c) \/ CliSave(c)
    PROVE  StoreInv'
  <1>1. UNCHANGED <<map, made, obj, drawn, sent, shared>> /\ pc[c] \in {"ask", "ready"}
    BY DEF CliEndTurn, CliSave, live
  <1>2. /\ c \in Objs /\ c \in Writers /\ c # saver /\ c \notin Tasks
        /\ obj[c].id \in Known
    BY <1>1, Kinds2, ActsOn DEF Working
  <1>3. \A d \in Clis : pc'[d] # "off" => pc[d] # "off"
    <2>1. pc' = [pc EXCEPT ![c] = "ready"] \/ pc' = pc
      BY DEF CliEndTurn, CliSave, task, Goto
    <2>2. "ready" \in Spots /\ pc[c] # "off"
      BY <1>1 DEF Spots
    <2> QED
      BY <2>1, <2>2, CliPlace
  <1>4. CASE SaveBegin(c, c)
    BY <1>1, <1>2, <1>3, <1>4, StoreSaveBegin
  <1>5. CASE UNCHANGED disk
    BY <1>1, <1>3, <1>5, StoreUntouched DEF disk
  <1> QED
    BY <1>4, <1>5 DEF CliEndTurn, CliSave

\* What a writer is saving.
LEMMA SavedObject ==
    ASSUME NEW w \in Writers, MapInv, StoreInv, saving[w] # Nobody
    PROVE  /\ saving[w] \in Objs /\ obj[saving[w]] \in Recs /\ obj[saving[w]].id \in Known
           /\ obj[saving[w]].id \in Ids /\ file[obj[saving[w]].id] \in Seq(Nat)
           /\ w \in Clis => saving[w] = w
           /\ w = saver => saving[w] \in 1..made /\ obj[saving[w]].dirty
           /\ \A v \in Writers : v # w => saving[v] # saving[w]
  <1>1. saving[w] \in Objs /\ obj[saving[w]] \in Recs
    BY DEF StoreInv, StoreTypes
  <1>2. obj[saving[w]].id \in Ids /\ file[obj[saving[w]].id] \in Seq(Nat)
    BY DEF StoreInv, SavingInv
  <1>3. obj[saving[w]].id \in Known
    BY <1>1, <1>2, Kinds2 DEF StoreInv, DrawnInv
  <1>4. w \in Clis => saving[w] = w
    BY DEF StoreInv, SavingInv
  <1>5. w = saver => saving[w] \in 1..made /\ obj[saving[w]].dirty
    BY DEF StoreInv, SavingInv, PrefixInv
  <1>6. \A v \in Writers : v # w => saving[v] # saving[w]
    BY OnlyOneWriter DEF StoreInv
  <1> QED
    BY <1>1, <1>2, <1>3, <1>4, <1>5, <1>6

LEMMA StoreWriteLine ==
    ASSUME NEW w \in Writers, MapInv, MapInv', StoreInv, WriteLine(w)
    PROVE  StoreInv'
  <1>1. /\ saving[w] # Nobody /\ UNCHANGED <<map, made, obj, drawn, sent, shared, pc, saving>>
        /\ Len(file[obj[saving[w]].id]) < Len(obj[saving[w]].msgs)
        /\ file' = [file EXCEPT ![obj[saving[w]].id] = SubSeq(obj[saving[w]].msgs, 1, Len(@) + 1)]
    BY DEF WriteLine, live, task
  <1>2. PICK o \in Objs : o = saving[w]
    BY <1>1, SavedObject
  <1>3. /\ obj[o] \in Recs /\ obj[o].id \in Known
        /\ obj[o].id \in Ids /\ file[obj[o].id] \in Seq(Nat)
        /\ w \in Clis => o = w
        /\ w = saver => o \in 1..made /\ obj[o].dirty
    BY <1>1, <1>2, SavedObject
  <1>4. file \in [Ids -> Seq(Nat) \union {"absent"}] /\ saving \in [Writers -> Objs \union {Nobody}]
    BY DEF StoreInv, StoreTypes
  <1>5. PICK m \in Seq(Nat) : m = obj[o].msgs
    BY <1>3 DEF Recs
  <1>6. PICK g \in Seq(Nat) : g = file[obj[o].id]
    BY <1>3
  <1>7. Len(g) < Len(m)
    BY <1>1, <1>2, <1>5, <1>6
  <1>8. PICK n \in Nat : n = Len(g) + 1 /\ n <= Len(m)
    BY <1>7
  <1>9. SubSeq(m, 1, n) \in Seq(Nat) /\ Len(SubSeq(m, 1, n)) = n
    BY <1>8
  <1>10. PICK f \in Seq(Nat) : f = SubSeq(m, 1, n)
    BY <1>9, Zenon
  <1>11. Len(f) = n
    BY <1>9, <1>10, Zenon
  <1>12. Prefix(obj[o], f)
    BY <1>5, <1>8, <1>10, <1>11 DEF Prefix
  <1>13. file' = [file EXCEPT ![obj[o].id] = f]
    <2>1. file' = [file EXCEPT ![obj[o].id] = SubSeq(m, 1, Len(g) + 1)]
      BY <1>1, <1>2, <1>3, <1>4, <1>5, <1>6
    <2> QED
      BY <1>8, <1>10, <2>1
  <1>14. saving' = [saving EXCEPT ![w] = o]
    BY <1>1, <1>2, <1>4
  <1> QED
    BY <1>1, <1>2, <1>3, <1>12, <1>13, <1>14, StoreWrites

\* save() succeeds: of a session with an id of its own, every message is in the file.
LEMMA StoreSaveEnd ==
    ASSUME NEW w \in Writers, MapInv, MapInv', StoreInv, SaveEnd(w)
    PROVE  StoreInv'
  <1>1. /\ saving[w] # Nobody /\ UNCHANGED <<map, made, drawn, sent, shared, pc, file>>
        /\ Len(file[obj[saving[w]].id]) >= Len(obj[saving[w]].msgs)
        /\ obj' = [obj EXCEPT ![saving[w]].dirty = FALSE]
        /\ saving' = [saving EXCEPT ![w] = Nobody]
    BY DEF SaveEnd, task
  <1>2. PICK o \in Objs : o = saving[w]
    BY <1>1, SavedObject
  <1>3. /\ obj[o] \in Recs /\ obj[o].id \in Ids /\ file[obj[o].id] \in Seq(Nat)
        /\ w \in Clis => o = w
        /\ \A v \in Writers : v # w => saving[v] # o
    BY <1>1, <1>2, SavedObject
  <1>4. PICK m \in Seq(Nat) : m = obj[o].msgs
    BY <1>3 DEF Recs
  <1>5. PICK r \in Recs : r = [id |-> obj[o].id, msgs |-> m, dirty |-> FALSE]
    <2>1. [id |-> obj[o].id, msgs |-> m, dirty |-> FALSE] \in Recs
      BY <1>3 DEF Recs
    <2> QED
      BY <2>1, Zenon
  <1>6. r.id = obj[o].id /\ r.msgs = m
    BY <1>5
  <1>7. obj' = [obj EXCEPT ![o] = r]
    <2>1. PICK x \in Recs : x = obj[o]
      BY <1>3
    <2>4. [x EXCEPT !.dirty = FALSE] = [id |-> x.id, msgs |-> x.msgs, dirty |-> FALSE]
      BY OneField, Zenon
    <2>5. obj' = [obj EXCEPT ![o] = [x EXCEPT !.dirty = FALSE]]
      BY <1>1, <1>2, <2>1, Zenon
    <2>6. [x EXCEPT !.dirty = FALSE] = r
      BY <1>4, <1>5, <2>1, <2>4, Zenon
    <2> QED
      BY <2>5, <2>6, Zenon
  <1>8. o \in 1..MaxObjs /\ r.id \notin shared => Range(r.msgs) \subseteq Range(file[r.id])
    <2> SUFFICES ASSUME o \in 1..MaxObjs, obj[o].id \notin shared
                 PROVE  Range(m) \subseteq Range(file[obj[o].id])
      BY <1>6
    <2>1. w = saver
      BY <1>3, Kinds2
    <2>2. PICK f \in Seq(Nat) : f = file[obj[o].id]
      BY <1>3
    <2>3. Len(f) <= Len(m) /\ f = SubSeq(m, 1, Len(f))
      BY <1>1, <1>2, <1>4, <2>1, <2>2 DEF StoreInv, PrefixInv, Prefix
    <2>4. Len(f) = Len(m)
      BY <1>1, <1>2, <1>4, <2>2, <2>3
    <2>5. \A i \in DOMAIN m : i \in DOMAIN f /\ f[i] = m[i]
      BY <2>3, <2>4
    <2>6. Range(m) \subseteq Range(f)
      BY <2>5 DEF Range
    <2> QED
      BY <2>2, <2>6
  <1>9. obj' \in [Objs -> Recs] /\ obj'[o] = r /\ \A p \in Objs : p # o => obj'[p] = obj[p]
    BY <1>7 DEF StoreInv, StoreTypes
  <1>10. o \in 1..MaxObjs => OnDisk(o)'
    BY <1>1, <1>8, <1>9 DEF OnDisk
  <1>11. /\ saving' = [saving EXCEPT ![w] = Nobody] /\ saving[w] \in {Nobody, o}
         /\ obj'[o].id = obj[o].id
         /\ UNCHANGED <<map, made, drawn, sent, shared, pc, file>>
    BY <1>1, <1>2, <1>6, <1>9
  <1> QED
    BY <1>3, <1>9, <1>10, <1>11, StoreReleases

\* save() fails: what auto-save was writing stays dirty.
LEMMA StoreSaveFails ==
    ASSUME NEW w \in Writers, MapInv, MapInv', StoreInv, SaveFails(w)
    PROVE  StoreInv'
  <1>1. /\ saving[w] # Nobody /\ UNCHANGED <<map, made, obj, drawn, sent, shared, pc, file>>
        /\ saving' = [saving EXCEPT ![w] = Nobody]
    BY DEF SaveFails, live, task
  <1>2. PICK o \in Objs : o = saving[w]
    BY <1>1, SavedObject
  <1>3. /\ obj[o] \in Recs
        /\ w \in Clis => o = w
        /\ w = saver => obj[o].dirty
        /\ \A v \in Writers : v # w => saving[v] # o
    BY <1>1, <1>2, SavedObject
  <1>4. o \in 1..MaxObjs => obj[o].dirty
    BY <1>3, Kinds2
  <1>5. o \in 1..MaxObjs => OnDisk(o)'
    BY <1>1, <1>4 DEF OnDisk
  <1>6. obj' \in [Objs -> Recs]
    BY <1>1 DEF StoreInv, StoreTypes
  <1> QED
    BY <1>1, <1>2, <1>3, <1>5, <1>6, StoreReleases

LEMMA StoreKillCli ==
    ASSUME NEW c \in Clis, MapInv, MapInv', StoreInv, KillCli(c)
    PROVE  StoreInv'
  <1>1. /\ pc' = [pc EXCEPT ![c] = "off"] /\ obj' = [obj EXCEPT ![c] = NoSession]
        /\ saving' = [saving EXCEPT ![c] = Nobody]
        /\ UNCHANGED <<map, made, drawn, sent, shared, file>>
    BY DEF KillCli, Goto
  <1>2. c \in Objs /\ c \in Writers /\ c # saver /\ c # Nobody /\ c \notin 1..MaxObjs
    BY Kinds2
  <1>3. NoSession \in Recs /\ NoSession.id = Nobody
    BY DEF NoSession, Recs
  <1>4. saving[c] \in {Nobody, c} /\ \A v \in Writers : v # c => saving[v] # c
    <2>1. saving[c] \in {Nobody, c} /\ \A d \in Clis : d # c => saving[d] # c
      BY <1>2 DEF StoreInv, SavingInv
    <2>2. saving[saver] # c
      BY <1>2, Kinds2 DEF StoreInv, SavingInv
    <2> QED
      BY <2>1, <2>2, Kinds2
  <1>6. \A d \in Clis : pc'[d] # "off" => pc[d] # "off"
    BY <1>1 DEF MapInv
  <1>7. /\ obj' \in [Objs -> Recs] /\ obj'[c].id = Nobody /\ pc'[c] = "off"
        /\ \A p \in Objs : p # c => obj'[p] = obj[p]
    BY <1>1, <1>2, <1>3 DEF StoreInv, StoreTypes, MapInv
  <1>8. UNCHANGED <<map, made, drawn, sent, shared, file>> /\ saving' = [saving EXCEPT ![c] = Nobody]
    BY <1>1
  <1> QED
    BY <1>2, <1>4, <1>6, <1>7, <1>8, StoreReleases

LEMMA StoreRestart ==
    ASSUME MapInv, MapInv', StoreInv, RestartDaemon
    PROVE  StoreInv'
  <1>1. /\ map' = [k \in Chats |-> Nobody]
        /\ obj' = [o \in Objs |-> IF o \in Clis THEN obj[o] ELSE NoSession]
        /\ pc' = [a \in Tasks \union Clis |-> IF a \in Tasks THEN "idle" ELSE pc[a]]
        /\ saving' = [saving EXCEPT ![saver] = Nobody]
        /\ UNCHANGED <<made, drawn, sent, shared, file>>
    BY DEF RestartDaemon
  <1>2. NoSession \in Recs /\ NoSession.id = Nobody /\ Nobody \notin Ids
    BY Kinds2 DEF NoSession, Recs
  <1>3. /\ \A c \in Clis : obj'[c] = obj[c] /\ pc'[c] = pc[c]
        /\ \A o \in Objs : o \notin Clis => obj'[o].id = Nobody
    BY <1>1, <1>2, Kinds2
  <1>4. saving'[saver] = Nobody /\ \A c \in Clis : saving'[c] = saving[c]
    BY <1>1, Kinds2 DEF StoreInv, StoreTypes
  <1>5. StoreTypes'
    <2>1. obj' \in [Objs -> Recs]
      BY <1>1, <1>2 DEF StoreInv, StoreTypes
    <2>2. saving' \in [Writers -> Objs \union {Nobody}]
      BY <1>1 DEF StoreInv, StoreTypes
    <2> QED
      BY <1>1, <2>1, <2>2 DEF StoreInv, StoreTypes
  <1>6. DrawnInv'
    <2>1. Known' = Known
      BY <1>1 DEF Known
    <2> QED
      BY <1>1, <1>3, <2>1 DEF StoreInv, DrawnInv
  <1>7. LiveInv'
    BY <1>1, <1>3 DEF StoreInv, LiveInv
  <1>8. SharedInv'
    <2> SUFFICES ASSUME NEW p \in Objs, NEW q \in Objs, p # q, obj'[p].id = obj'[q].id,
                        obj'[p].id \in Ids
                 PROVE  obj'[p].id \in shared
      BY <1>1 DEF SharedInv
    <2>1. p \in Clis /\ q \in Clis
      BY <1>2, <1>3
    <2> QED
      BY <1>3, <2>1 DEF StoreInv, SharedInv
  <1>9. SavingInv'
    <2>1. ASSUME NEW w \in Writers, saving'[w] # Nobody
          PROVE  obj'[saving'[w]].id \in Ids /\ file[obj'[saving'[w]].id] \in Seq(Nat)
      <3>1. w \in Clis /\ saving'[w] = saving[w] /\ saving[w] = w
        BY <1>4, <2>1, Kinds2 DEF StoreInv, SavingInv
      <3> QED
        BY <1>3, <2>1, <3>1 DEF StoreInv, SavingInv
    <2> QED
      BY <1>1, <1>4, <2>1 DEF StoreInv, SavingInv
  <1>10. PrefixInv'
    BY <1>4 DEF PrefixInv
  <1>11. ASSUME NEW p \in 1..MaxObjs PROVE OnDisk(p)'
    BY <1>2, <1>3, Kinds2 DEF OnDisk
  <1> QED
    BY <1>5, <1>6, <1>7, <1>8, <1>9, <1>10, <1>11 DEF StoreInv

LEMMA StoreInductive == MapInv /\ MapInv' /\ StoreInv /\ [Next]_vars => StoreInv'
  <1> SUFFICES ASSUME MapInv, MapInv', StoreInv, [Next]_vars PROVE StoreInv'
    OBVIOUS
  <1>1. CASE UNCHANGED vars
    BY <1>1, StoreUntouched DEF vars, live, task, disk
  <1> QED
    BY <1>1, StoreLookup, StoreLoadOrMiss, StoreCreate, StoreSetUp, StoreClear, StoreAddMessage,
       StoreCompact, StoreAutoSave, StoreWriteLine, StoreSaveEnd, StoreSaveFails, StoreCliStart,
       StoreCliSave, StoreKillCli, StoreRestart DEF Next

\* What auto-save passes over is safe: a session of the daemon that is not dirty has all its
\* messages in its file unless another session has had its id, for any number of chats, tasks
\* and CLI processes, whatever saves fail or are cut short by a kill, and whatever was compacted.
THEOREM CleanSessionsOnDisk == Spec => []CleanIsOnDisk
  <1>1. StoreInv => CleanIsOnDisk
    BY DEF StoreInv, OnDisk, CleanIsOnDisk
  <1> QED
    BY <1>1, MapStarts, MapInductive, StoreStarts, StoreInductive, PTL DEF Spec
=============================================================================
