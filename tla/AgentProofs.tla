---------------------------- MODULE AgentProofs ----------------------------
(***************************************************************************)
(* What an agent relies on, for any number of callers, processes, models,  *)
(* files and workers: the MCP manager loses neither a process nor a        *)
(* request, a model call falls back only where that is allowed and records *)
(* only whole answers, a model's settings are those of its nearest         *)
(* ancestors, and the memory index agrees with itself and, after a         *)
(* reindex, with the disk.                                                 *)
(*                                                                         *)
(* The MCP manager: the argument rests on who may act on a process: a task *)
(* that is starting one has it for itself until it is put into the map     *)
(* (StarterInv), and what is in a caller's oneshot was taken out of the    *)
(* map of pending requests (BoxInv).                                       *)
(***************************************************************************)
EXTENDS Agent, FiniteSetTheorems, SequenceTheorems, WellFoundedInduction, TLAPS

Starting(c) == pc[c] \in {"handshake", "insert"}

\* Where a task can be, and what it has there.
ControlInv ==
    /\ \A c \in Everyone : pc[c] \in {"free", "stale", "spawn", "unhealthy"} <=> at[c] = 0
    /\ \A c \in Everyone : pc[c] \in {"register", "send", "wait"} => calls[c] # 0
    /\ pc[health] \notin {"stale", "spawn", "handshake", "insert"}

\* A process that is being started is in one pair of hands.
StarterInv ==
    \A c \in Everyone : Starting(c) =>
        /\ at[c] # slot
        /\ \A d \in Everyone : d # c /\ Starting(d) => at[d] # at[c]

\* A oneshot is used only by a task that works with a process, and that of a
\* handshake after the entry was taken out of the map.
BoxInv ==
    \A c \in Everyone : box[c] # "empty" =>
        /\ at[c] # 0
        /\ pc[c] = "handshake" => Handshake(c) \notin pending[at[c]]

\* The entry r of process q belongs to a task that waits for it.
Owned(r, q) ==
    /\ at[r.from] = q
    /\ IF r.n = 0 THEN pc[r.from] = "handshake"
                  ELSE r.n = calls[r.from] /\ pc[r.from] \in {"send", "wait"}

\* NoEntryLeft, of requests with their types.
EntryInv ==
    \A q \in Procs : \A r \in pending[q] :
        Owned(r, q) \/ (r.n = 0 /\ Closing(q)) \/ r \in left[q]

\* What a dropped call left is of an earlier call of its caller, and never a
\* handshake: nobody calls a process that is still being started.
LeftInv ==
    \A q \in Procs : \A r \in left[q] :
        /\ q \in 1..made /\ r.n # 0 /\ r.n <= calls[r.from]
        /\ at[r.from] = q =>
              pc[r.from] \in {"register", "send", "wait"} /\ r.n < calls[r.from]

\* The types, by what they are types of.
ProcTypes ==
    /\ slot \in 0..made /\ made \in 0..MaxProcs
    /\ up \subseteq 1..made /\ reading \subseteq 1..made /\ writing \subseteq 1..made
    /\ dropped \subseteq up
TaskTypes ==
    /\ chan \in [Procs -> Seq(Requests)]
    /\ taken \in [Procs -> SUBSET Requests]
    /\ pending \in [Procs -> SUBSET Requests]
    /\ left \in [Procs -> SUBSET Requests]
CallerTypes ==
    /\ pc \in [Everyone -> {"free", "stale", "spawn", "handshake", "insert", "register",
                            "send", "wait", "unhealthy"}]
    /\ at \in [Everyone -> 0..made] /\ calls \in [Everyone -> 0..MaxCalls]
    /\ box \in [Everyone -> {"empty", "answer", "error", "gone"}]
IdleType == idle \in BOOLEAN

IInv ==
    /\ ProcTypes /\ TaskTypes /\ CallerTypes /\ IdleType
    /\ ControlInv /\ StarterInv /\ BoxInv /\ NoStrayServer /\ EntryInv /\ LeftInv

USE McpAssumption DEF Everyone, Procs

\* A call and a handshake are requests, and a task that works with a process
\* works with one that was made.
LEMMA RequestTypes ==
    ASSUME CallerTypes, NEW c \in Everyone
    PROVE  Req(c) \in Requests /\ Handshake(c) \in Requests
  BY DEF CallerTypes, Req, Handshake, Requests

LEMMA AtProc ==
    ASSUME ProcTypes, CallerTypes, ControlInv, NEW c \in Everyone,
           pc[c] \in {"handshake", "insert", "register", "send", "wait"}
    PROVE  at[c] \in Procs /\ at[c] \in 1..made
  BY DEF ProcTypes, CallerTypes, ControlInv

\* An entry is a request, and it has an owner or waits for its reader to end.
LEMMA EntryFacts ==
    ASSUME TaskTypes, EntryInv, NEW q \in Procs, NEW r \in pending[q]
    PROVE  /\ r.from \in Everyone /\ r.n \in 0..MaxCalls /\ r = [from |-> r.from, n |-> r.n]
           /\ Owned(r, q) \/ (r.n = 0 /\ Closing(q)) \/ r \in left[q]
<1>1. r \in Requests
  BY DEF TaskTypes
<1>2. Owned(r, q) \/ (r.n = 0 /\ Closing(q)) \/ r \in left[q]
  BY DEF EntryInv
<1> QED BY <1>1, <1>2 DEF Requests

\* What was left is a request, of an earlier call.
LEMMA LeftFacts ==
    ASSUME TaskTypes, LeftInv, NEW q \in Procs, NEW r \in left[q]
    PROVE  /\ r \in Requests /\ r.from \in Everyone /\ r.n \in 0..MaxCalls
           /\ r = [from |-> r.from, n |-> r.n]
           /\ q \in 1..made /\ r.n # 0 /\ r.n <= calls[r.from]
           /\ at[r.from] = q =>
                 pc[r.from] \in {"register", "send", "wait"} /\ r.n < calls[r.from]
<1>1. r \in Requests
  BY DEF TaskTypes
<1>2. /\ q \in 1..made /\ r.n # 0 /\ r.n <= calls[r.from]
      /\ at[r.from] = q =>
            pc[r.from] \in {"register", "send", "wait"} /\ r.n < calls[r.from]
  BY DEF LeftInv
<1> QED BY <1>1, <1>2 DEF Requests

\* It stays so while callers go on with the process they are at, or begin a new call.
LEMMA LeftKept ==
    ASSUME TaskTypes, LeftInv, CallerTypes, CallerTypes', 1..made \subseteq 1..made',
           \A q \in Procs : left'[q] \subseteq left[q],
           \A d \in Everyone :
               \/ at'[d] \notin 1..made /\ calls'[d] >= calls[d]
               \/ /\ at'[d] = at[d] /\ calls'[d] = calls[d]
                  /\ pc[d] \in {"register", "send", "wait"} =>
                        pc'[d] \in {"register", "send", "wait"}
               \/ pc'[d] = "register" /\ calls'[d] > calls[d]
    PROVE  LeftInv'
<1> SUFFICES ASSUME NEW q \in Procs, NEW r \in left'[q]
             PROVE  /\ q \in 1..made' /\ r.n # 0 /\ r.n <= calls'[r.from]
                    /\ at'[r.from] = q =>
                          pc'[r.from] \in {"register", "send", "wait"} /\ r.n < calls'[r.from]
  BY DEF LeftInv
<1>1. /\ r.from \in Everyone /\ r.n \in 0..MaxCalls
      /\ q \in 1..made /\ r.n # 0 /\ r.n <= calls[r.from]
      /\ at[r.from] = q =>
            pc[r.from] \in {"register", "send", "wait"} /\ r.n < calls[r.from]
  BY LeftFacts
<1>2. calls[r.from] \in Nat /\ calls'[r.from] \in Nat
  BY <1>1 DEF CallerTypes
<1> QED BY <1>1, <1>2

-----------------------------------------------------------------------------
(* One lemma per action.                                                   *)

\* The check under the read lock changes nothing but where its caller goes.
LEMMA EnsureCheckInv ==
    ASSUME IInv, NEW c \in Everyone, EnsureCheck(c) PROVE IInv'
<1> USE DEF EnsureCheck, Goto, procs, tasks, callers, IInv
<1>1. ProcTypes' /\ CallerTypes' /\ ControlInv'
  BY DEF ProcTypes, CallerTypes, ControlInv
<1>2. StarterInv' /\ NoStrayServer'
  BY DEF ProcTypes, CallerTypes, ControlInv, StarterInv, Starting, NoStrayServer
<1>3. TaskTypes'
  BY DEF ProcTypes, CallerTypes, ControlInv, TaskTypes
<1>4. IdleType'
  BY DEF IdleType
<1>5. BoxInv'
  BY DEF ProcTypes, CallerTypes, ControlInv, TaskTypes, BoxInv, EntryInv, Owned, Req, Handshake,
         Requests
<1>6. EntryInv'
  <2>1. ASSUME NEW q \in Procs, Closing(q) PROVE Closing(q)'
    BY <2>1 DEF ProcTypes, CallerTypes, ControlInv, Closing
  <2>2. ASSUME NEW q \in Procs, NEW r \in pending'[q]
        PROVE  Owned(r, q)' \/ (r.n = 0 /\ Closing(q)') \/ r \in left'[q]
    <3>1. r \in pending[q]
      BY DEF TaskTypes
    <3>2. /\ r.from \in Everyone
          /\ Owned(r, q) \/ (r.n = 0 /\ Closing(q)) \/ r \in left[q]
      BY <3>1, EntryFacts
    <3>3. CASE r.n = 0 /\ Closing(q)
      BY <2>1, <3>3
    <3>4. CASE Owned(r, q)
      BY <3>2, <3>4 DEF Owned, CallerTypes
    <3> QED BY <3>2, <3>3, <3>4
  <2> QED BY <2>2 DEF EntryInv
<1>7. LeftInv'
  BY LeftKept DEF ProcTypes, CallerTypes, ControlInv, TaskTypes
<1> QED BY <1>1, <1>2, <1>3, <1>4, <1>5, <1>6, <1>7

\* A handle is removed only when its process no longer runs.
LEMMA EnsureRemoveStaleInv ==
    ASSUME IInv, NEW c \in Everyone, EnsureRemoveStale(c) PROVE IInv'
<1> USE DEF EnsureRemoveStale, Goto, procs, tasks, callers, IInv
<1>1. ProcTypes' /\ CallerTypes' /\ ControlInv'
  BY DEF ProcTypes, CallerTypes, ControlInv
<1>2. StarterInv' /\ NoStrayServer'
  BY DEF ProcTypes, CallerTypes, ControlInv, StarterInv, Starting, NoStrayServer
<1>3. TaskTypes'
  BY DEF ProcTypes, CallerTypes, ControlInv, TaskTypes
<1>4. IdleType'
  BY DEF IdleType
<1>5. BoxInv'
  BY DEF ProcTypes, CallerTypes, ControlInv, TaskTypes, BoxInv, EntryInv, Owned, Req, Handshake,
         Requests
<1>6. EntryInv'
  <2>1. ASSUME NEW q \in Procs, Closing(q) PROVE Closing(q)'
    BY <2>1 DEF ProcTypes, CallerTypes, ControlInv, Closing
  <2>2. ASSUME NEW q \in Procs, NEW r \in pending'[q]
        PROVE  Owned(r, q)' \/ (r.n = 0 /\ Closing(q)') \/ r \in left'[q]
    BY <2>1, <2>2 DEF ProcTypes, CallerTypes, ControlInv, TaskTypes, Requests, EntryInv, Owned
  <2> QED BY <2>2 DEF EntryInv
<1>7. LeftInv'
  BY LeftKept DEF ProcTypes, CallerTypes, ControlInv, TaskTypes
<1> QED BY <1>1, <1>2, <1>3, <1>4, <1>5, <1>6, <1>7

\* A new process is in the hands of its starter, and of nobody else.
LEMMA EnsureSpawnInv ==
    ASSUME IInv, NEW c \in Everyone, EnsureSpawn(c) PROVE IInv'
<1> USE DEF EnsureSpawn, Goto, Handshake, procs, tasks, callers, IInv
<1>1. ProcTypes' /\ CallerTypes' /\ ControlInv'
  BY DEF ProcTypes, CallerTypes, ControlInv
<1>2. StarterInv' /\ NoStrayServer'
  BY DEF ProcTypes, CallerTypes, ControlInv, StarterInv, Starting, NoStrayServer
<1>3. TaskTypes'
  <2>1. Handshake(c) \in Requests /\ <<Handshake(c)>> \in Seq(Requests)
    BY RequestTypes
  <2> HIDE DEF Handshake
  <2> QED BY <2>1 DEF TaskTypes
<1>4. IdleType'
  BY DEF IdleType
<1>5. BoxInv'
  BY DEF ProcTypes, CallerTypes, ControlInv, TaskTypes, BoxInv, EntryInv, Owned, Req, Handshake,
         Requests
<1>6. EntryInv'
  <2>1. ASSUME NEW q \in 1..made, Closing(q) PROVE Closing(q)'
    BY <2>1 DEF ProcTypes, CallerTypes, ControlInv, Closing
  <2>2. ASSUME NEW q \in Procs, NEW r \in pending'[q]
        PROVE  Owned(r, q)' \/ (r.n = 0 /\ Closing(q)') \/ r \in left'[q]
    <3>1. CASE q = made + 1
      BY <3>1, <2>2 DEF Owned, TaskTypes, CallerTypes, ProcTypes
    <3>2. CASE q # made + 1
      <4>1. r \in pending[q]
        BY <3>2 DEF TaskTypes, ProcTypes
      <4>2. /\ r.from \in Everyone
            /\ Owned(r, q) \/ (r.n = 0 /\ Closing(q)) \/ r \in left[q]
        BY <4>1, EntryFacts
      <4>3. CASE r.n = 0 /\ Closing(q)
        BY <3>2, <2>1, <4>3 DEF Closing, CallerTypes, ProcTypes
      <4>4. CASE Owned(r, q)
        BY <4>2, <4>4 DEF Owned, CallerTypes
      <4> QED BY <4>2, <4>3, <4>4
    <3> QED BY <3>1, <3>2
  <2> QED BY <2>2 DEF EntryInv
<1>7. LeftInv'
  BY LeftKept DEF ProcTypes, CallerTypes, ControlInv, TaskTypes
<1> QED BY <1>1, <1>2, <1>3, <1>4, <1>5, <1>6, <1>7

\* A failed spawn leaves nothing.
LEMMA EnsureSpawnFailsInv ==
    ASSUME IInv, NEW c \in Everyone, EnsureSpawnFails(c) PROVE IInv'
<1> USE DEF EnsureSpawnFails, Goto, Free, procs, tasks, callers, IInv
<1>1. ProcTypes' /\ CallerTypes' /\ ControlInv'
  BY DEF ProcTypes, CallerTypes, ControlInv
<1>2. StarterInv' /\ NoStrayServer'
  BY DEF ProcTypes, CallerTypes, ControlInv, StarterInv, Starting, NoStrayServer
<1>3. TaskTypes'
  BY DEF ProcTypes, CallerTypes, ControlInv, TaskTypes
<1>4. IdleType'
  BY DEF IdleType
<1>5. BoxInv'
  BY DEF ProcTypes, CallerTypes, ControlInv, TaskTypes, BoxInv, EntryInv, Owned, Req, Handshake,
         Requests
<1>6. EntryInv'
  <2>1. ASSUME NEW q \in Procs, Closing(q) PROVE Closing(q)'
    BY <2>1 DEF ProcTypes, CallerTypes, ControlInv, Closing
  <2>2. ASSUME NEW q \in Procs, NEW r \in pending'[q]
        PROVE  Owned(r, q)' \/ (r.n = 0 /\ Closing(q)') \/ r \in left'[q]
    BY <2>1, <2>2 DEF ProcTypes, CallerTypes, ControlInv, TaskTypes, Requests, EntryInv, Owned
  <2> QED BY <2>2 DEF EntryInv
<1>7. LeftInv'
  BY LeftKept DEF ProcTypes, CallerTypes, ControlInv, TaskTypes
<1> QED BY <1>1, <1>2, <1>3, <1>4, <1>5, <1>6, <1>7

\* When the server has answered, the entry of the handshake is gone.
LEMMA EnsureReadyInv ==
    ASSUME IInv, NEW c \in Everyone, EnsureReady(c) PROVE IInv'
<1> USE DEF EnsureReady, Goto, procs, tasks, callers, IInv
<1>1. ProcTypes' /\ CallerTypes' /\ ControlInv'
  BY DEF ProcTypes, CallerTypes, ControlInv
<1>2. StarterInv' /\ NoStrayServer'
  BY DEF ProcTypes, CallerTypes, ControlInv, StarterInv, Starting, NoStrayServer
<1>3. TaskTypes'
  BY DEF ProcTypes, CallerTypes, ControlInv, TaskTypes
<1>4. IdleType'
  BY DEF IdleType
<1>5. BoxInv'
  BY DEF ProcTypes, CallerTypes, ControlInv, TaskTypes, BoxInv, EntryInv, Owned, Req, Handshake,
         Requests
<1>6. EntryInv'
  <2>1. ASSUME NEW q \in Procs, Closing(q) PROVE Closing(q)'
    BY <2>1 DEF ProcTypes, CallerTypes, ControlInv, Closing
  <2>2. ASSUME NEW q \in Procs, NEW r \in pending'[q]
        PROVE  Owned(r, q)' \/ (r.n = 0 /\ Closing(q)') \/ r \in left'[q]
    <3>1. r \in pending[q]
      BY DEF TaskTypes
    <3>2. /\ r.from \in Everyone
          /\ Owned(r, q) \/ (r.n = 0 /\ Closing(q)) \/ r \in left[q]
      BY <3>1, EntryFacts
    <3>3. CASE r.n = 0 /\ Closing(q)
      BY <2>1, <3>3
    <3>4. CASE Owned(r, q)
      <4>1. CASE r.from = c
        <5>1. r = Handshake(c) /\ q = at[c]
          BY <3>1, <3>4, <4>1, EntryFacts DEF Owned, Handshake
        <5> QED BY <3>1, <5>1 DEF BoxInv
      <4>2. CASE r.from # c
        BY <3>2, <3>4, <4>2 DEF Owned, CallerTypes
      <4> QED BY <4>1, <4>2
    <3> QED BY <3>2, <3>3, <3>4
  <2> QED BY <2>2 DEF EntryInv
<1>7. LeftInv'
  BY LeftKept DEF ProcTypes, CallerTypes, ControlInv, TaskTypes
<1> QED BY <1>1, <1>2, <1>3, <1>4, <1>5, <1>6, <1>7

\* The process is killed; the entry of its handshake waits for the reader to end.
LEMMA EnsureHandshakeFailsInv ==
    ASSUME IInv, NEW c \in Everyone, EnsureHandshakeFails(c) PROVE IInv'
<1> USE DEF EnsureHandshakeFails, Goto, Free, KillProc, other, procs, tasks, callers, IInv
<1>1. ProcTypes' /\ CallerTypes' /\ ControlInv'
  <2>1. ProcTypes'
    BY DEF ProcTypes, CallerTypes, ControlInv
  <2>2. CallerTypes' /\ ControlInv'
    BY DEF ProcTypes, CallerTypes, ControlInv
  <2> QED BY <2>1, <2>2
<1>2. StarterInv' /\ NoStrayServer'
  BY DEF ProcTypes, CallerTypes, ControlInv, StarterInv, Starting, NoStrayServer
<1>3. TaskTypes'
  BY DEF ProcTypes, CallerTypes, ControlInv, TaskTypes
<1>4. IdleType'
  BY DEF IdleType
<1>5. BoxInv'
  BY DEF ProcTypes, CallerTypes, ControlInv, TaskTypes, BoxInv, EntryInv, Owned, Req, Handshake,
         Requests
<1>6. EntryInv'
  <2>1. ASSUME NEW q \in Procs, Closing(q) PROVE Closing(q)'
    BY <2>1 DEF ProcTypes, CallerTypes, ControlInv, Closing
  <2>2. ASSUME NEW q \in Procs, NEW r \in pending'[q]
        PROVE  Owned(r, q)' \/ (r.n = 0 /\ Closing(q)') \/ r \in left'[q]
    <3>1. r \in pending[q]
      BY DEF TaskTypes
    <3>2. /\ r.from \in Everyone
          /\ Owned(r, q) \/ (r.n = 0 /\ Closing(q)) \/ r \in left[q]
      BY <3>1, EntryFacts
    <3>3. CASE r.n = 0 /\ Closing(q)
      BY <2>1, <3>3
    <3>4. CASE Owned(r, q)
      <4>1. CASE r.from = c
        <5>1. q = at[c] /\ r.n = 0 /\ q # slot
          BY <3>4, <4>1 DEF Owned, StarterInv, Starting
        <5>2. Closing(q)'
          BY <5>1, AtProc DEF StarterInv, Starting, Closing, CallerTypes, ProcTypes, ControlInv
        <5> QED BY <5>1, <5>2
      <4>2. CASE r.from # c
        BY <3>2, <3>4, <4>2 DEF Owned, CallerTypes
      <4> QED BY <4>1, <4>2
    <3> QED BY <3>2, <3>3, <3>4
  <2> QED BY <2>2 DEF EntryInv
<1>7. LeftInv'
  BY LeftKept DEF ProcTypes, CallerTypes, ControlInv, TaskTypes
<1> QED BY <1>1, <1>2, <1>3, <1>4, <1>5, <1>6, <1>7

\* The process is listed, or killed because another one is.
LEMMA EnsureInsertInv ==
    ASSUME IInv, NEW c \in Everyone, EnsureInsert(c) PROVE IInv'
<1> USE DEF EnsureInsert, Goto, Free, KillProc, other, procs, tasks, callers, IInv
<1>1. CallerTypes' /\ ControlInv'
  BY DEF ProcTypes, CallerTypes, ControlInv
<1>2. StarterInv'
  BY DEF ProcTypes, CallerTypes, ControlInv, StarterInv, Starting, NoStrayServer
<1>3. ProcTypes'
  <2>1. made' = made /\ reading' = reading /\ writing' = writing
    OBVIOUS
  <2>2. at[c] \in 1..made
    BY AtProc
  <2>3. slot' \in {slot, at[c]} /\ up' \subseteq up /\ dropped' \subseteq up'
    BY DEF ProcTypes
  <2> HIDE DEF EnsureInsert
  <2> QED BY <2>1, <2>2, <2>3 DEF ProcTypes
<1>4. TaskTypes'
  BY DEF ProcTypes, CallerTypes, ControlInv, TaskTypes
<1>5. IdleType'
  BY DEF IdleType
<1>6. NoStrayServer'
  <2>0. SUFFICES ASSUME NEW q \in up'
                 PROVE  \/ q = slot'
                        \/ \E d \in Callers : at'[d] = q /\ pc'[d] \in {"handshake", "insert"}
                        \/ q \in dropped'
    BY DEF NoStrayServer
  <2>1. q \in up /\ (q = at[c] => slot' = q)
    BY DEF ProcTypes
  <2>2. /\ slot # 0 => slot' = slot
        /\ q # at[c] /\ q \in dropped => q \in dropped'
        /\ \A d \in Callers : d # c => at'[d] = at[d] /\ pc'[d] = pc[d]
    BY DEF CallerTypes
  <2>3. q # 0
    BY <2>1 DEF ProcTypes
  <2> HIDE DEF EnsureInsert
  <2> QED BY <2>1, <2>2, <2>3 DEF NoStrayServer
<1>7. BoxInv'
  BY DEF ProcTypes, CallerTypes, ControlInv, TaskTypes, BoxInv, EntryInv, Owned, Req, Handshake,
         Requests
<1>8. EntryInv'
  <2>1. ASSUME NEW q \in Procs, Closing(q) PROVE Closing(q)'
    BY <2>1 DEF ProcTypes, CallerTypes, ControlInv, Closing
  <2>2. ASSUME NEW q \in Procs, NEW r \in pending'[q]
        PROVE  Owned(r, q)' \/ (r.n = 0 /\ Closing(q)') \/ r \in left'[q]
    <3>1. r \in pending[q]
      BY DEF TaskTypes
    <3>2. /\ r.from \in Everyone
          /\ Owned(r, q) \/ (r.n = 0 /\ Closing(q)) \/ r \in left[q]
      BY <3>1, EntryFacts
    <3>3. CASE r.n = 0 /\ Closing(q)
      BY <2>1, <3>3
    <3>4. CASE Owned(r, q)
      BY <3>2, <3>4 DEF Owned, CallerTypes
    <3> QED BY <3>2, <3>3, <3>4
  <2> QED BY <2>2 DEF EntryInv
<1>9. LeftInv'
  <2>1. made' = made /\ left' = left /\ calls' = calls
    OBVIOUS
  <2>2. /\ at'[c] = 0
        /\ \A d \in Everyone : d # c => at'[d] = at[d] /\ pc'[d] = pc[d]
    BY DEF CallerTypes
  <2> HIDE DEF EnsureInsert
  <2> QED BY <1>1, <2>1, <2>2, LeftKept DEF ProcTypes, CallerTypes
<1> QED BY <1>1, <1>2, <1>3, <1>4, <1>5, <1>6, <1>7, <1>8, <1>9

\* A cancelled start leaves a process that is known as dropped.
LEMMA EnsureCancelledInv ==
    ASSUME IInv, NEW c \in Everyone, EnsureCancelled(c) PROVE IInv'
<1> USE DEF EnsureCancelled, Goto, Free, procs, tasks, callers, IInv
<1>1. ProcTypes' /\ CallerTypes' /\ ControlInv'
  <2>1. ProcTypes'
    BY DEF ProcTypes, CallerTypes, ControlInv
  <2>2. CallerTypes' /\ ControlInv'
    BY DEF ProcTypes, CallerTypes, ControlInv
  <2> QED BY <2>1, <2>2
<1>2. StarterInv' /\ NoStrayServer'
  BY DEF ProcTypes, CallerTypes, ControlInv, StarterInv, Starting, NoStrayServer
<1>3. TaskTypes'
  BY DEF ProcTypes, CallerTypes, ControlInv, TaskTypes
<1>4. IdleType'
  BY DEF IdleType
<1>5. BoxInv'
  BY DEF ProcTypes, CallerTypes, ControlInv, TaskTypes, BoxInv, EntryInv, Owned, Req, Handshake,
         Requests
<1>6. EntryInv'
  <2>1. ASSUME NEW q \in Procs, Closing(q) PROVE Closing(q)'
    BY <2>1 DEF ProcTypes, CallerTypes, ControlInv, Closing
  <2>2. ASSUME NEW q \in Procs, NEW r \in pending'[q]
        PROVE  Owned(r, q)' \/ (r.n = 0 /\ Closing(q)') \/ r \in left'[q]
    <3>1. r \in pending[q]
      BY DEF TaskTypes
    <3>2. /\ r.from \in Everyone
          /\ Owned(r, q) \/ (r.n = 0 /\ Closing(q)) \/ r \in left[q]
      BY <3>1, EntryFacts
    <3>3. CASE r.n = 0 /\ Closing(q)
      BY <2>1, <3>3
    <3>4. CASE Owned(r, q)
      <4>1. CASE r.from = c
        <5>1. q = at[c] /\ r.n = 0 /\ q # slot
          BY <3>4, <4>1 DEF Owned, StarterInv, Starting
        <5>2. Closing(q)'
          BY <5>1, AtProc DEF StarterInv, Starting, Closing, CallerTypes, ProcTypes, ControlInv
        <5> QED BY <5>1, <5>2
      <4>2. CASE r.from # c
        BY <3>2, <3>4, <4>2 DEF Owned, CallerTypes
      <4> QED BY <4>1, <4>2
    <3> QED BY <3>2, <3>3, <3>4
  <2> QED BY <2>2 DEF EntryInv
<1>7. LeftInv'
  BY LeftKept DEF ProcTypes, CallerTypes, ControlInv, TaskTypes
<1> QED BY <1>1, <1>2, <1>3, <1>4, <1>5, <1>6, <1>7

\* The caller gets the listed process and a new request number.
LEMMA CallLookupInv ==
    ASSUME IInv, NEW c \in Everyone, CallLookup(c) PROVE IInv'
<1> USE DEF CallLookup, Goto, procs, tasks, callers, IInv
<1>1. ProcTypes' /\ CallerTypes' /\ ControlInv'
  BY DEF ProcTypes, CallerTypes, ControlInv
<1>2. StarterInv' /\ NoStrayServer'
  BY DEF ProcTypes, CallerTypes, ControlInv, StarterInv, Starting, NoStrayServer
<1>3. TaskTypes'
  BY DEF ProcTypes, CallerTypes, ControlInv, TaskTypes
<1>4. IdleType'
  BY DEF IdleType
<1>5. BoxInv'
  BY DEF ProcTypes, CallerTypes, ControlInv, TaskTypes, BoxInv, EntryInv, Owned, Req, Handshake,
         Requests
<1>6. EntryInv'
  <2>1. ASSUME NEW q \in Procs, Closing(q) PROVE Closing(q)'
    BY <2>1 DEF ProcTypes, CallerTypes, ControlInv, Closing
  <2>2. ASSUME NEW q \in Procs, NEW r \in pending'[q]
        PROVE  Owned(r, q)' \/ (r.n = 0 /\ Closing(q)') \/ r \in left'[q]
    <3>1. r \in pending[q]
      BY DEF TaskTypes
    <3>2. /\ r.from \in Everyone
          /\ Owned(r, q) \/ (r.n = 0 /\ Closing(q)) \/ r \in left[q]
      BY <3>1, EntryFacts
    <3>3. CASE r.n = 0 /\ Closing(q)
      BY <2>1, <3>3
    <3>4. CASE Owned(r, q)
      BY <3>2, <3>4 DEF Owned, CallerTypes
    <3> QED BY <3>2, <3>3, <3>4
  <2> QED BY <2>2 DEF EntryInv
<1>7. LeftInv'
  <2>1. made' = made /\ left' = left
    OBVIOUS
  <2>2. /\ calls'[c] = calls[c] + 1
        /\ at'[c] = 0 \/ pc'[c] = "register"
        /\ \A d \in Everyone : d # c => at'[d] = at[d] /\ pc'[d] = pc[d] /\ calls'[d] = calls[d]
    BY DEF CallerTypes, ControlInv
  <2> HIDE DEF CallLookup
  <2> QED BY <1>1, <2>1, <2>2, LeftKept DEF ProcTypes, CallerTypes
<1> QED BY <1>1, <1>2, <1>3, <1>4, <1>5, <1>6, <1>7

\* The entry belongs to its caller.
LEMMA CallRegisterInv ==
    ASSUME IInv, NEW c \in Everyone, CallRegister(c) PROVE IInv'
<1> USE DEF CallRegister, Goto, procs, tasks, callers, IInv
<1>1. ProcTypes' /\ CallerTypes' /\ ControlInv'
  BY DEF ProcTypes, CallerTypes, ControlInv
<1>2. StarterInv' /\ NoStrayServer'
  BY DEF ProcTypes, CallerTypes, ControlInv, StarterInv, Starting, NoStrayServer
<1>3. TaskTypes'
  BY RequestTypes, AtProc DEF TaskTypes
<1>4. IdleType'
  BY DEF IdleType
<1>5. BoxInv'
  BY DEF ProcTypes, CallerTypes, ControlInv, TaskTypes, BoxInv, EntryInv, Owned, Req, Handshake,
         Requests
<1>6. EntryInv'
  <2>1. ASSUME NEW q \in Procs, Closing(q) PROVE Closing(q)'
    BY <2>1 DEF ProcTypes, CallerTypes, ControlInv, Closing
  <2>2. ASSUME NEW q \in Procs, NEW r \in pending'[q]
        PROVE  Owned(r, q)' \/ (r.n = 0 /\ Closing(q)') \/ r \in left'[q]
    <3> USE AtProc
    <3>1. CASE r \in pending[q]
      <4>1. /\ r.from \in Everyone
            /\ Owned(r, q) \/ (r.n = 0 /\ Closing(q)) \/ r \in left[q]
        BY <3>1, EntryFacts
      <4> QED BY <2>1, <4>1 DEF Owned, CallerTypes
    <3>2. CASE r \notin pending[q]
      <4>1. r = Req(c) /\ q = at[c]
        BY <3>2 DEF TaskTypes
      <4> QED BY <4>1 DEF Req, Owned, CallerTypes, ControlInv
    <3> QED BY <3>1, <3>2
  <2> QED BY <2>2 DEF EntryInv
<1>7. LeftInv'
  BY LeftKept DEF ProcTypes, CallerTypes, ControlInv, TaskTypes
<1> QED BY <1>1, <1>2, <1>3, <1>4, <1>5, <1>6, <1>7

\* Sending keeps the entry.
LEMMA CallSendInv ==
    ASSUME IInv, NEW c \in Everyone, CallSend(c) PROVE IInv'
<1> USE DEF CallSend, Goto, procs, tasks, callers, IInv
<1>1. ProcTypes' /\ CallerTypes' /\ ControlInv'
  BY DEF ProcTypes, CallerTypes, ControlInv
<1>2. StarterInv' /\ NoStrayServer'
  BY DEF ProcTypes, CallerTypes, ControlInv, StarterInv, Starting, NoStrayServer
<1>3. TaskTypes'
  <2>1. at[c] \in Procs /\ Req(c) \in Requests
    BY RequestTypes, AtProc
  <2>2. Append(chan[at[c]], Req(c)) \in Seq(Requests)
    BY <2>1 DEF TaskTypes
  <2> QED BY <2>1, <2>2 DEF TaskTypes
<1>4. IdleType'
  BY DEF IdleType
<1>5. BoxInv'
  BY DEF ProcTypes, CallerTypes, ControlInv, TaskTypes, BoxInv, EntryInv, Owned, Req, Handshake,
         Requests
<1>6. EntryInv'
  <2>1. ASSUME NEW q \in Procs, Closing(q) PROVE Closing(q)'
    BY <2>1 DEF ProcTypes, CallerTypes, ControlInv, Closing
  <2>2. ASSUME NEW q \in Procs, NEW r \in pending'[q]
        PROVE  Owned(r, q)' \/ (r.n = 0 /\ Closing(q)') \/ r \in left'[q]
    BY <2>1, <2>2 DEF ProcTypes, CallerTypes, ControlInv, TaskTypes, Requests, EntryInv, Owned
  <2> QED BY <2>2 DEF EntryInv
<1>7. LeftInv'
  BY LeftKept DEF ProcTypes, CallerTypes, ControlInv, TaskTypes
<1> QED BY <1>1, <1>2, <1>3, <1>4, <1>5, <1>6, <1>7

\* A failed send takes its entry along.
LEMMA CallSendFailsInv ==
    ASSUME IInv, NEW c \in Everyone, CallSendFails(c) PROVE IInv'
<1> USE DEF CallSendFails, Goto, Free, After, Forget, procs, tasks, callers, IInv
<1>1. ProcTypes' /\ CallerTypes' /\ ControlInv'
  BY DEF ProcTypes, CallerTypes, ControlInv
<1>2. StarterInv' /\ NoStrayServer'
  BY DEF ProcTypes, CallerTypes, ControlInv, StarterInv, Starting, NoStrayServer
<1>3. TaskTypes'
  BY RequestTypes, AtProc DEF TaskTypes
<1>4. IdleType'
  BY DEF IdleType
<1>5. BoxInv'
  BY DEF ProcTypes, CallerTypes, ControlInv, TaskTypes, BoxInv, EntryInv, Owned, Req, Handshake,
         Requests
<1>6. EntryInv'
  <2>1. ASSUME NEW q \in Procs, Closing(q) PROVE Closing(q)'
    BY <2>1 DEF ProcTypes, CallerTypes, ControlInv, Closing
  <2>2. ASSUME NEW q \in Procs, NEW r \in pending'[q]
        PROVE  Owned(r, q)' \/ (r.n = 0 /\ Closing(q)') \/ r \in left'[q]
    BY <2>1, <2>2 DEF ProcTypes, CallerTypes, ControlInv, TaskTypes, Requests, EntryInv, Owned, Req
  <2> QED BY <2>2 DEF EntryInv
<1>7. LeftInv'
  BY LeftKept DEF ProcTypes, CallerTypes, ControlInv, TaskTypes
<1> QED BY <1>1, <1>2, <1>3, <1>4, <1>5, <1>6, <1>7

\* A call that returns takes its entry along.
LEMMA CallReturnsInv ==
    ASSUME IInv, NEW c \in Everyone, CallReturns(c) PROVE IInv'
<1> USE DEF CallReturns, Goto, Free, After, Forget, procs, tasks, callers, IInv
<1>1. ProcTypes' /\ CallerTypes' /\ ControlInv'
  BY DEF ProcTypes, CallerTypes, ControlInv
<1>2. StarterInv' /\ NoStrayServer'
  BY DEF ProcTypes, CallerTypes, ControlInv, StarterInv, Starting, NoStrayServer
<1>3. TaskTypes'
  BY RequestTypes, AtProc DEF TaskTypes
<1>4. IdleType'
  BY DEF IdleType
<1>5. BoxInv'
  BY DEF ProcTypes, CallerTypes, ControlInv, TaskTypes, BoxInv, EntryInv, Owned, Req, Handshake,
         Requests
<1>6. EntryInv'
  <2>1. ASSUME NEW q \in Procs, Closing(q) PROVE Closing(q)'
    BY <2>1 DEF ProcTypes, CallerTypes, ControlInv, Closing
  <2>2. ASSUME NEW q \in Procs, NEW r \in pending'[q]
        PROVE  Owned(r, q)' \/ (r.n = 0 /\ Closing(q)') \/ r \in left'[q]
    BY <2>1, <2>2 DEF ProcTypes, CallerTypes, ControlInv, TaskTypes, Requests, EntryInv, Owned, Req
  <2> QED BY <2>2 DEF EntryInv
<1>7. LeftInv'
  BY LeftKept DEF ProcTypes, CallerTypes, ControlInv, TaskTypes
<1> QED BY <1>1, <1>2, <1>3, <1>4, <1>5, <1>6, <1>7

\* So does one that times out.
LEMMA CallTimesOutInv ==
    ASSUME IInv, NEW c \in Everyone, CallTimesOut(c) PROVE IInv'
<1> USE DEF CallTimesOut, Goto, Free, After, Forget, procs, tasks, callers, IInv
<1>1. ProcTypes' /\ CallerTypes' /\ ControlInv'
  BY DEF ProcTypes, CallerTypes, ControlInv
<1>2. StarterInv' /\ NoStrayServer'
  BY DEF ProcTypes, CallerTypes, ControlInv, StarterInv, Starting, NoStrayServer
<1>3. TaskTypes'
  BY RequestTypes, AtProc DEF TaskTypes
<1>4. IdleType'
  BY DEF IdleType
<1>5. BoxInv'
  BY DEF ProcTypes, CallerTypes, ControlInv, TaskTypes, BoxInv, EntryInv, Owned, Req, Handshake,
         Requests
<1>6. EntryInv'
  <2>1. ASSUME NEW q \in Procs, Closing(q) PROVE Closing(q)'
    BY <2>1 DEF ProcTypes, CallerTypes, ControlInv, Closing
  <2>2. ASSUME NEW q \in Procs, NEW r \in pending'[q]
        PROVE  Owned(r, q)' \/ (r.n = 0 /\ Closing(q)') \/ r \in left'[q]
    BY <2>1, <2>2 DEF ProcTypes, CallerTypes, ControlInv, TaskTypes, Requests, EntryInv, Owned, Req
  <2> QED BY <2>2 DEF EntryInv
<1>7. LeftInv'
  BY LeftKept DEF ProcTypes, CallerTypes, ControlInv, TaskTypes
<1> QED BY <1>1, <1>2, <1>3, <1>4, <1>5, <1>6, <1>7

\* The entry of a call that is dropped is left.
LEMMA CallCancelledInv ==
    ASSUME IInv, NEW c \in Everyone, CallCancelled(c) PROVE IInv'
<1> USE DEF CallCancelled, Goto, Free, procs, tasks, callers, IInv
<1>0. at[c] \in Procs /\ at[c] \in 1..made /\ Req(c) \in Requests
  BY AtProc, RequestTypes
<1>1. ProcTypes' /\ CallerTypes' /\ ControlInv'
  BY DEF ProcTypes, CallerTypes, ControlInv
<1>2. StarterInv' /\ NoStrayServer'
  BY DEF ProcTypes, CallerTypes, ControlInv, StarterInv, Starting, NoStrayServer
<1>3. TaskTypes'
  BY <1>0 DEF TaskTypes
<1>4. IdleType'
  BY DEF IdleType
<1>5. BoxInv'
  BY DEF ProcTypes, CallerTypes, ControlInv, TaskTypes, BoxInv, EntryInv, Owned, Req, Handshake,
         Requests
<1>6. EntryInv'
  <2>1. ASSUME NEW q \in Procs, Closing(q) PROVE Closing(q)'
    BY <2>1 DEF ProcTypes, CallerTypes, ControlInv, Closing
  <2>2. ASSUME NEW q \in Procs, NEW r \in pending'[q]
        PROVE  Owned(r, q)' \/ (r.n = 0 /\ Closing(q)') \/ r \in left'[q]
    <3>1. r \in pending[q] /\ left[q] \subseteq left'[q]
      BY <1>0 DEF TaskTypes
    <3>2. /\ r.from \in Everyone /\ r = [from |-> r.from, n |-> r.n]
          /\ Owned(r, q) \/ (r.n = 0 /\ Closing(q)) \/ r \in left[q]
      BY <3>1, EntryFacts
    <3>3. CASE r.n = 0 /\ Closing(q)
      BY <2>1, <3>3
    <3>4. CASE Owned(r, q) /\ r.from = c
      <4>1. q = at[c] /\ r = Req(c)
        BY <3>2, <3>4 DEF Owned, Req
      <4> QED BY <1>0, <3>1, <4>1 DEF TaskTypes
    <3>5. CASE Owned(r, q) /\ r.from # c
      BY <3>2, <3>5 DEF Owned, CallerTypes
    <3> QED BY <3>1, <3>2, <3>3, <3>4, <3>5
  <2> QED BY <2>2 DEF EntryInv
<1>7. LeftInv'
  <2> SUFFICES ASSUME NEW q \in Procs, NEW r \in left'[q]
               PROVE  /\ q \in 1..made' /\ r.n # 0 /\ r.n <= calls'[r.from]
                      /\ at'[r.from] = q =>
                            pc'[r.from] \in {"register", "send", "wait"} /\ r.n < calls'[r.from]
    BY DEF LeftInv
  <2>1. CASE r \in left[q]
    <3>1. /\ r.from \in Everyone /\ q \in 1..made /\ r.n # 0 /\ r.n <= calls[r.from]
          /\ at[r.from] = q =>
                pc[r.from] \in {"register", "send", "wait"} /\ r.n < calls[r.from]
      BY <2>1, LeftFacts
    <3> QED BY <3>1 DEF CallerTypes
  <2>2. CASE r \notin left[q]
    <3>1. q = at[c] /\ r = Req(c)
      BY <1>0, <2>2 DEF TaskTypes
    <3>2. r.from = c /\ r.n = calls[c] /\ calls[c] # 0 /\ calls[c] \in Nat
      BY <3>1 DEF Req, ControlInv, CallerTypes
    <3> QED BY <1>0, <3>1, <3>2 DEF CallerTypes
  <2> QED BY <2>1, <2>2
<1> QED BY <1>1, <1>2, <1>3, <1>4, <1>5, <1>6, <1>7

\* The writer touches no entry.
LEMMA WriterWritesInv ==
    ASSUME IInv, NEW p \in Procs, WriterWrites(p) PROVE IInv'
<1> USE DEF WriterWrites, procs, tasks, callers, IInv
<1>1. ProcTypes' /\ CallerTypes' /\ ControlInv'
  BY DEF ProcTypes, CallerTypes, ControlInv
<1>2. StarterInv' /\ NoStrayServer'
  BY DEF ProcTypes, CallerTypes, ControlInv, StarterInv, Starting, NoStrayServer
<1>3. TaskTypes'
  <2>1. Head(chan[p]) \in Requests /\ Tail(chan[p]) \in Seq(Requests)
    BY DEF TaskTypes
  <2> QED BY <2>1 DEF TaskTypes
<1>4. IdleType'
  BY DEF IdleType
<1>5. BoxInv'
  BY DEF ProcTypes, CallerTypes, ControlInv, TaskTypes, BoxInv, EntryInv, Owned, Req, Handshake,
         Requests
<1>6. EntryInv'
  <2>1. ASSUME NEW q \in Procs, Closing(q) PROVE Closing(q)'
    BY <2>1 DEF ProcTypes, CallerTypes, ControlInv, Closing
  <2>2. ASSUME NEW q \in Procs, NEW r \in pending'[q]
        PROVE  Owned(r, q)' \/ (r.n = 0 /\ Closing(q)') \/ r \in left'[q]
    BY <2>1, <2>2 DEF ProcTypes, CallerTypes, ControlInv, TaskTypes, Requests, EntryInv, Owned
  <2> QED BY <2>2 DEF EntryInv
<1>7. LeftInv'
  BY LeftKept DEF ProcTypes, CallerTypes, ControlInv, TaskTypes
<1> QED BY <1>1, <1>2, <1>3, <1>4, <1>5, <1>6, <1>7

\* A writer that ends touches no entry.
LEMMA WriterEndsInv ==
    ASSUME IInv, NEW p \in Procs, WriterEnds(p) PROVE IInv'
<1> USE DEF WriterEnds, procs, tasks, callers, IInv
<1>1. ProcTypes' /\ CallerTypes' /\ ControlInv'
  BY DEF ProcTypes, CallerTypes, ControlInv
<1>2. StarterInv' /\ NoStrayServer'
  BY DEF ProcTypes, CallerTypes, ControlInv, StarterInv, Starting, NoStrayServer
<1>3. TaskTypes'
  BY DEF ProcTypes, CallerTypes, ControlInv, TaskTypes
<1>4. IdleType'
  BY DEF IdleType
<1>5. BoxInv'
  BY DEF ProcTypes, CallerTypes, ControlInv, TaskTypes, BoxInv, EntryInv, Owned, Req, Handshake,
         Requests
<1>6. EntryInv'
  <2>1. ASSUME NEW q \in Procs, Closing(q) PROVE Closing(q)'
    BY <2>1 DEF ProcTypes, CallerTypes, ControlInv, Closing
  <2>2. ASSUME NEW q \in Procs, NEW r \in pending'[q]
        PROVE  Owned(r, q)' \/ (r.n = 0 /\ Closing(q)') \/ r \in left'[q]
    BY <2>1, <2>2 DEF ProcTypes, CallerTypes, ControlInv, TaskTypes, Requests, EntryInv, Owned
  <2> QED BY <2>2 DEF EntryInv
<1>7. LeftInv'
  BY LeftKept DEF ProcTypes, CallerTypes, ControlInv, TaskTypes
<1> QED BY <1>1, <1>2, <1>3, <1>4, <1>5, <1>6, <1>7

\* An answer is handed to whoever waits for it, and its entry removed.
LEMMA ServerAnswersInv ==
    ASSUME IInv, NEW p \in Procs, ServerAnswers(p) PROVE IInv'
<1> USE DEF ServerAnswers, procs, tasks, callers, IInv
<1>0. PICK x \in taken[p], s \in {"answer", "error"} :
        /\ taken' = [taken EXCEPT ![p] = @ \ {x}]
        /\ IF p \in reading /\ x \in pending[p]
           THEN /\ pending' = [pending EXCEPT ![p] = @ \ {x}]
                /\ left' = [left EXCEPT ![p] = @ \ {x}]
                /\ box' = IF at[x.from] = p /\ x \in {Req(x.from), Handshake(x.from)}
                          THEN [box EXCEPT ![x.from] = s] ELSE box
           ELSE UNCHANGED <<pending, left, box>>
  BY DEF Replies
<1>1. ProcTypes' /\ CallerTypes' /\ ControlInv'
  BY DEF ProcTypes, CallerTypes, ControlInv, Replies
<1>2. StarterInv' /\ NoStrayServer'
  BY DEF ProcTypes, CallerTypes, ControlInv, StarterInv, Starting, NoStrayServer
<1>3. TaskTypes'
  <2>1. CASE p \in reading /\ x \in pending[p]
    <3>1. /\ taken' = [taken EXCEPT ![p] = @ \ {x}]
          /\ pending' = [pending EXCEPT ![p] = @ \ {x}]
          /\ left' = [left EXCEPT ![p] = @ \ {x}]
          /\ chan' = chan
      BY <1>0, <2>1
    <3> HIDE DEF ServerAnswers
    <3> QED BY <3>1 DEF TaskTypes
  <2>2. CASE ~(p \in reading /\ x \in pending[p])
    BY <1>0, <2>2 DEF TaskTypes
  <2> QED BY <2>1, <2>2
<1>4. IdleType'
  BY DEF IdleType
<1>5. BoxInv'
  <2> HIDE DEF ServerAnswers
  <2>u. UNCHANGED <<pc, at, calls>>
    BY DEF ServerAnswers
  <2>1. CASE p \in reading /\ x \in pending[p]
    <3>1. x.from \in Everyone /\ x.n \in 0..MaxCalls /\ x = [from |-> x.from, n |-> x.n]
      BY <2>1, EntryFacts
    <3>2. SUFFICES ASSUME NEW d \in Everyone, box'[d] # "empty"
                   PROVE  at[d] # 0 /\ (pc[d] = "handshake" => Handshake(d) \notin pending'[at[d]])
      BY <2>u DEF BoxInv, Handshake
    <3>3. CASE d = x.from /\ at[d] = p
      <4>1. pc[d] = "handshake" => Owned(x, p) \/ x.n = 0
        BY <2>1, <3>3, EntryFacts, LeftFacts
      <4>2. pc[d] = "handshake" => x = Handshake(d)
        BY <3>1, <3>3, <4>1 DEF Handshake, Owned
      <4> QED BY <1>0, <2>1, <3>3, <4>2 DEF TaskTypes
    <3>4. CASE ~(d = x.from /\ at[d] = p)
      <4>1. box[d] # "empty"
        BY <1>0, <2>1, <3>1, <3>2, <3>4 DEF CallerTypes
      <4>2. \A q \in Procs : pending'[q] \subseteq pending[q]
        BY <1>0, <2>1 DEF TaskTypes
      <4>3. pc[d] = "handshake" => at[d] \in Procs
        BY AtProc
      <4> QED BY <4>1, <4>2, <4>3 DEF BoxInv
    <3> QED BY <3>3, <3>4
  <2>2. CASE ~(p \in reading /\ x \in pending[p])
    BY <1>0, <2>2, <2>u DEF BoxInv, Handshake
  <2> QED BY <2>1, <2>2
<1>6. \A q \in Procs : /\ pending'[q] \subseteq pending[q] /\ left'[q] \subseteq left[q]
                      /\ left[q] \intersect pending'[q] \subseteq left'[q]
  <2> HIDE DEF ServerAnswers
  <2>1. CASE p \in reading /\ x \in pending[p]
    BY <1>0, <2>1 DEF TaskTypes
  <2>2. CASE ~(p \in reading /\ x \in pending[p])
    BY <1>0, <2>2
  <2> QED BY <2>1, <2>2
<1>7. EntryInv'
  <2>1. ASSUME NEW q \in Procs, Closing(q) PROVE Closing(q)'
    BY <2>1 DEF ProcTypes, CallerTypes, ControlInv, Closing
  <2>2. ASSUME NEW q \in Procs, NEW r \in pending'[q]
        PROVE  Owned(r, q)' \/ (r.n = 0 /\ Closing(q)') \/ r \in left'[q]
    <3>1. r \in pending[q] /\ (r \in left[q] => r \in left'[q])
      BY <1>6
    <3>2. r.from \in Everyone /\ (Owned(r, q) \/ (r.n = 0 /\ Closing(q)) \/ r \in left[q])
      BY <3>1, EntryFacts
    <3> HIDE DEF ServerAnswers
    <3>3. UNCHANGED <<pc, at, calls>>
      BY DEF ServerAnswers
    <3> QED BY <2>1, <3>1, <3>2, <3>3 DEF Owned
  <2> QED BY <2>2 DEF EntryInv
<1>8. LeftInv'
  <2>1. UNCHANGED <<made, pc, at, calls>>
    OBVIOUS
  <2> HIDE DEF ServerAnswers
  <2> QED BY <1>1, <1>6, <2>1, LeftKept DEF CallerTypes
<1> QED BY <1>1, <1>2, <1>3, <1>4, <1>5, <1>7, <1>8

\* The reader leaves no entry when it ends.
LEMMA ReaderEndsInv ==
    ASSUME IInv, NEW p \in Procs, ReaderEnds(p) PROVE IInv'
<1> USE DEF ReaderEnds, procs, tasks, callers, IInv
<1>1. ProcTypes' /\ CallerTypes' /\ ControlInv'
  BY DEF ProcTypes, CallerTypes, ControlInv
<1>2. StarterInv' /\ NoStrayServer'
  BY DEF ProcTypes, CallerTypes, ControlInv, StarterInv, Starting, NoStrayServer
<1>3. TaskTypes'
  BY DEF ProcTypes, CallerTypes, ControlInv, TaskTypes
<1>4. IdleType'
  BY DEF IdleType
<1>5. BoxInv'
  BY DEF ProcTypes, CallerTypes, ControlInv, TaskTypes, BoxInv, EntryInv, Owned, Req, Handshake,
         Requests
<1>6. EntryInv'
  <2>1. ASSUME NEW q \in Procs, Closing(q) PROVE Closing(q)'
    BY <2>1 DEF ProcTypes, CallerTypes, ControlInv, Closing
  <2>2. ASSUME NEW q \in Procs, NEW r \in pending'[q]
        PROVE  Owned(r, q)' \/ (r.n = 0 /\ Closing(q)') \/ r \in left'[q]
    BY <2>1, <2>2 DEF ProcTypes, CallerTypes, ControlInv, TaskTypes, Requests, EntryInv, Owned
  <2> QED BY <2>2 DEF EntryInv
<1>7. LeftInv'
  BY LeftKept DEF ProcTypes, CallerTypes, ControlInv, TaskTypes
<1> QED BY <1>1, <1>2, <1>3, <1>4, <1>5, <1>6, <1>7

\* A process that exits is no stray.
LEMMA ServerExitsInv ==
    ASSUME IInv, NEW p \in Procs, ServerExits(p) PROVE IInv'
<1> USE DEF ServerExits, KillProc, other, procs, tasks, callers, IInv
<1>1. ProcTypes' /\ CallerTypes' /\ ControlInv'
  BY DEF ProcTypes, CallerTypes, ControlInv
<1>2. StarterInv' /\ NoStrayServer'
  BY DEF ProcTypes, CallerTypes, ControlInv, StarterInv, Starting, NoStrayServer
<1>3. TaskTypes'
  BY DEF ProcTypes, CallerTypes, ControlInv, TaskTypes
<1>4. IdleType'
  BY DEF IdleType
<1>5. BoxInv'
  BY DEF ProcTypes, CallerTypes, ControlInv, TaskTypes, BoxInv, EntryInv, Owned, Req, Handshake,
         Requests
<1>6. EntryInv'
  <2>1. ASSUME NEW q \in Procs, Closing(q) PROVE Closing(q)'
    BY <2>1 DEF ProcTypes, CallerTypes, ControlInv, Closing
  <2>2. ASSUME NEW q \in Procs, NEW r \in pending'[q]
        PROVE  Owned(r, q)' \/ (r.n = 0 /\ Closing(q)') \/ r \in left'[q]
    BY <2>1, <2>2 DEF ProcTypes, CallerTypes, ControlInv, TaskTypes, Requests, EntryInv, Owned
  <2> QED BY <2>2 DEF EntryInv
<1>7. LeftInv'
  BY LeftKept DEF ProcTypes, CallerTypes, ControlInv, TaskTypes
<1> QED BY <1>1, <1>2, <1>3, <1>4, <1>5, <1>6, <1>7

\* The listed process is killed.
LEMMA ShutdownInv ==
    ASSUME IInv, Shutdown PROVE IInv'
<1> USE DEF Shutdown, RemoveSlot, KillProc, other, procs, tasks, callers, IInv
<1>1. ProcTypes' /\ CallerTypes' /\ ControlInv'
  BY DEF ProcTypes, CallerTypes, ControlInv
<1>2. StarterInv' /\ NoStrayServer'
  BY DEF ProcTypes, CallerTypes, ControlInv, StarterInv, Starting, NoStrayServer
<1>3. TaskTypes'
  BY DEF ProcTypes, CallerTypes, ControlInv, TaskTypes
<1>4. IdleType'
  BY DEF IdleType
<1>5. BoxInv'
  BY DEF ProcTypes, CallerTypes, ControlInv, TaskTypes, BoxInv, EntryInv, Owned, Req, Handshake,
         Requests
<1>6. EntryInv'
  <2>1. ASSUME NEW q \in Procs, Closing(q) PROVE Closing(q)'
    BY <2>1 DEF ProcTypes, CallerTypes, ControlInv, Closing
  <2>2. ASSUME NEW q \in Procs, NEW r \in pending'[q]
        PROVE  Owned(r, q)' \/ (r.n = 0 /\ Closing(q)') \/ r \in left'[q]
    BY <2>1, <2>2 DEF ProcTypes, CallerTypes, ControlInv, TaskTypes, Requests, EntryInv, Owned
  <2> QED BY <2>2 DEF EntryInv
<1>7. LeftInv'
  BY LeftKept DEF ProcTypes, CallerTypes, ControlInv, TaskTypes
<1> QED BY <1>1, <1>2, <1>3, <1>4, <1>5, <1>6, <1>7

\* So is an idle one.
LEMMA ReapInv ==
    ASSUME IInv, Reap PROVE IInv'
<1> USE DEF Reap, RemoveSlot, KillProc, other, procs, tasks, callers, IInv
<1>1. ProcTypes' /\ CallerTypes' /\ ControlInv'
  BY DEF ProcTypes, CallerTypes, ControlInv
<1>2. StarterInv' /\ NoStrayServer'
  BY DEF ProcTypes, CallerTypes, ControlInv, StarterInv, Starting, NoStrayServer
<1>3. TaskTypes'
  BY DEF ProcTypes, CallerTypes, ControlInv, TaskTypes
<1>4. IdleType'
  BY DEF IdleType
<1>5. BoxInv'
  BY DEF ProcTypes, CallerTypes, ControlInv, TaskTypes, BoxInv, EntryInv, Owned, Req, Handshake,
         Requests
<1>6. EntryInv'
  <2>1. ASSUME NEW q \in Procs, Closing(q) PROVE Closing(q)'
    BY <2>1 DEF ProcTypes, CallerTypes, ControlInv, Closing
  <2>2. ASSUME NEW q \in Procs, NEW r \in pending'[q]
        PROVE  Owned(r, q)' \/ (r.n = 0 /\ Closing(q)') \/ r \in left'[q]
    BY <2>1, <2>2 DEF ProcTypes, CallerTypes, ControlInv, TaskTypes, Requests, EntryInv, Owned
  <2> QED BY <2>2 DEF EntryInv
<1>7. LeftInv'
  BY LeftKept DEF ProcTypes, CallerTypes, ControlInv, TaskTypes
<1> QED BY <1>1, <1>2, <1>3, <1>4, <1>5, <1>6, <1>7

\* Time changes the idle flag alone.
LEMMA TimePassesInv ==
    ASSUME IInv, TimePasses PROVE IInv'
<1> USE DEF TimePasses, procs, tasks, callers, IInv
<1>1. ProcTypes' /\ CallerTypes' /\ ControlInv'
  BY DEF ProcTypes, CallerTypes, ControlInv
<1>2. StarterInv' /\ NoStrayServer'
  BY DEF ProcTypes, CallerTypes, ControlInv, StarterInv, Starting, NoStrayServer
<1>3. TaskTypes'
  BY DEF ProcTypes, CallerTypes, ControlInv, TaskTypes
<1>4. IdleType'
  BY DEF IdleType
<1>5. BoxInv'
  BY DEF ProcTypes, CallerTypes, ControlInv, TaskTypes, BoxInv, EntryInv, Owned, Req, Handshake,
         Requests
<1>6. EntryInv'
  <2>1. ASSUME NEW q \in Procs, Closing(q) PROVE Closing(q)'
    BY <2>1 DEF ProcTypes, CallerTypes, ControlInv, Closing
  <2>2. ASSUME NEW q \in Procs, NEW r \in pending'[q]
        PROVE  Owned(r, q)' \/ (r.n = 0 /\ Closing(q)') \/ r \in left'[q]
    BY <2>1, <2>2 DEF ProcTypes, CallerTypes, ControlInv, TaskTypes, Requests, EntryInv, Owned
  <2> QED BY <2>2 DEF EntryInv
<1>7. LeftInv'
  BY LeftKept DEF ProcTypes, CallerTypes, ControlInv, TaskTypes
<1> QED BY <1>1, <1>2, <1>3, <1>4, <1>5, <1>6, <1>7

\* The health check kills what is listed now.
LEMMA HealthRemoveInv ==
    ASSUME IInv, HealthRemove PROVE IInv'
<1> USE DEF HealthRemove, Goto, RemoveSlot, KillProc, other, procs, tasks, callers, IInv
<1>1. CallerTypes' /\ ControlInv'
  BY DEF ProcTypes, CallerTypes, ControlInv
<1>2. StarterInv'
  BY DEF ProcTypes, CallerTypes, ControlInv, StarterInv, Starting, NoStrayServer
<1>3. ProcTypes'
  <2>1. made' = made /\ reading' = reading /\ writing' = writing /\ slot' \in {0, slot}
    BY DEF ProcTypes
  <2>2. up' \subseteq up /\ dropped' \subseteq up'
    BY DEF ProcTypes
  <2> HIDE DEF HealthRemove
  <2> QED BY <2>1, <2>2 DEF ProcTypes
<1>4. TaskTypes'
  BY DEF ProcTypes, CallerTypes, ControlInv, TaskTypes
<1>5. IdleType'
  BY DEF IdleType
<1>6. NoStrayServer'
  <2>0. SUFFICES ASSUME NEW q \in up'
                 PROVE  \/ q = slot'
                        \/ \E d \in Callers : at'[d] = q /\ pc'[d] \in {"handshake", "insert"}
                        \/ q \in dropped'
    BY DEF NoStrayServer
  <2>1. q \in up /\ (q = slot => slot' = q) /\ (q \in dropped => q \in dropped')
    BY DEF ProcTypes
  <2>2. \A d \in Callers : at'[d] = at[d] /\ pc'[d] = pc[d]
    BY DEF CallerTypes
  <2> HIDE DEF HealthRemove
  <2> QED BY <2>1, <2>2 DEF NoStrayServer
<1>7. BoxInv'
  BY DEF ProcTypes, CallerTypes, ControlInv, TaskTypes, BoxInv, EntryInv, Owned, Req, Handshake,
         Requests
<1>8. EntryInv'
  <2>1. ASSUME NEW q \in Procs, Closing(q) PROVE Closing(q)'
    BY <2>1 DEF ProcTypes, CallerTypes, ControlInv, Closing
  <2>2. ASSUME NEW q \in Procs, NEW r \in pending'[q]
        PROVE  Owned(r, q)' \/ (r.n = 0 /\ Closing(q)') \/ r \in left'[q]
    BY <2>1, <2>2 DEF ProcTypes, CallerTypes, ControlInv, TaskTypes, Requests, EntryInv, Owned
  <2> QED BY <2>2 DEF EntryInv
<1>9. LeftInv'
  BY LeftKept DEF ProcTypes, CallerTypes, ControlInv, TaskTypes
<1> QED BY <1>1, <1>2, <1>3, <1>4, <1>5, <1>6, <1>7, <1>8, <1>9

-----------------------------------------------------------------------------
(* The theorems.                                                           *)

\* Nothing is started at first.
LEMMA InitInv ==
    ASSUME Init PROVE IInv
<1> USE DEF Init
<1>1. ProcTypes /\ CallerTypes /\ ControlInv /\ StarterInv /\ BoxInv
  BY DEF ProcTypes, CallerTypes, ControlInv, StarterInv, Starting, BoxInv
<1>2. TaskTypes
  <2>1. <<>> \in Seq(Requests)
    OBVIOUS
  <2> QED BY <2>1 DEF TaskTypes
<1>3. IdleType
  BY DEF IdleType
<1>4. NoStrayServer /\ EntryInv /\ LeftInv
  BY DEF NoStrayServer, EntryInv, LeftInv
<1> QED BY <1>1, <1>2, <1>3, <1>4 DEF IInv

\* A step that changes no variable keeps the invariant.
LEMMA StutterInv ==
    ASSUME IInv, UNCHANGED vars PROVE IInv'
<1> USE DEF vars, procs, tasks, callers, IInv
<1>1. ProcTypes' /\ TaskTypes' /\ CallerTypes' /\ IdleType'
  BY DEF ProcTypes, TaskTypes, CallerTypes, IdleType
<1>2. ControlInv' /\ StarterInv' /\ BoxInv'
  BY DEF ControlInv, StarterInv, Starting, BoxInv, Handshake
<1>3. NoStrayServer' /\ EntryInv' /\ LeftInv'
  BY DEF NoStrayServer, EntryInv, Owned, Closing, LeftInv
<1> QED BY <1>1, <1>2, <1>3

\* Every step of a caller, of a task of a server, and of the manager keeps it.
LEMMA StepInv ==
    ASSUME IInv, [Next]_vars PROVE IInv'
<1>1. ASSUME NEW c \in Everyone, Ensure(c) PROVE IInv'
  BY <1>1, EnsureCheckInv, EnsureRemoveStaleInv, EnsureSpawnInv, EnsureSpawnFailsInv,
     EnsureReadyInv, EnsureHandshakeFailsInv, EnsureInsertInv, EnsureCancelledInv DEF Ensure
<1>2. ASSUME NEW c \in Everyone, Call(c) PROVE IInv'
  BY <1>2, CallLookupInv, CallRegisterInv, CallSendInv, CallSendFailsInv, CallReturnsInv,
     CallTimesOutInv, CallCancelledInv DEF Call
<1>3. ASSUME NEW p \in Procs,
             \/ WriterWrites(p) \/ WriterEnds(p) \/ ServerAnswers(p)
             \/ ReaderEnds(p) \/ ServerExits(p)
      PROVE IInv'
  BY <1>3, WriterWritesInv, WriterEndsInv, ServerAnswersInv, ReaderEndsInv, ServerExitsInv
<1>4. CASE Shutdown \/ Reap \/ TimePasses \/ HealthRemove
  BY <1>4, ShutdownInv, ReapInv, TimePassesInv, HealthRemoveInv
<1>5. CASE UNCHANGED vars
  BY <1>5, StutterInv
<1> QED BY <1>1, <1>2, <1>3, <1>4, <1>5 DEF Next

\* The invariant of every state that can be reached.
LEMMA Invariance == Spec => []IInv
<1>1. Init => IInv
  BY InitInv
<1>2. IInv /\ [Next]_vars => IInv'
  BY StepInv
<1> QED BY <1>1, <1>2, PTL DEF Spec

\* The types of the variables, joined.
LEMMA TypesHold == ASSUME IInv PROVE TypeOK
  BY DEF IInv, ProcTypes, TaskTypes, CallerTypes, IdleType, TypeOK

\* An entry with its type is the request its owner waits for.
LEMMA EntriesHaveOwners == ASSUME IInv PROVE NoEntryLeft
<1> SUFFICES ASSUME NEW p \in Procs, NEW r \in pending[p]
             PROVE  \/ at[r.from] = p /\ (IF r.n = 0 THEN pc[r.from] = "handshake"
                                          ELSE r = Req(r.from) /\ pc[r.from] \in {"send", "wait"})
                    \/ r.n = 0 /\ Closing(p)
                    \/ r \in left[p]
  BY DEF NoEntryLeft
<1>1. /\ r = [from |-> r.from, n |-> r.n]
      /\ Owned(r, p) \/ (r.n = 0 /\ Closing(p)) \/ r \in left[p]
  BY EntryFacts DEF IInv
<1> QED BY <1>1 DEF Owned, Req

\* The variables of the manager have their types, whatever its tasks do.
THEOREM McpTypeCorrect == Spec => []TypeOK
<1>1. IInv => TypeOK
  BY TypesHold
<1> QED BY <1>1, Invariance, PTL

\* No server process runs that nobody can stop: with any number of callers that
\* start servers at the same time, of reaps, pings, shutdowns and cancelled
\* turns, a running process is listed, or in the hands of its starter, or was
\* dropped by a cancelled one (ensure_server, reap_idle_servers, shutdown).
THEOREM NoStrayServerEver == Spec => []NoStrayServer
<1>1. IInv => NoStrayServer
  BY DEF IInv
<1> QED BY <1>1, Invariance, PTL

\* No entry of a map of pending requests outlives the call it was made for, except
\* where the future of that call was dropped: the answer, the error, the timeout,
\* the failed send and the reader's end each take it along (McpManager::call and
\* the reader task).
THEOREM NoEntryLeftEver == Spec => []NoEntryLeft
<1>1. IInv => NoEntryLeft
  BY EntriesHaveOwners
<1> QED BY <1>1, Invariance, PTL

-----------------------------------------------------------------------------
(* Model calls: the loop over the candidates.                              *)

\* The model that was asked failed with an error that its settings let pass.
PassedOver(a) ==
    a.err # None /\ Calls!FallbackAllowed(a.err, Calls!Config(a.key))

\* The entries of the list of models asked.
AskedInv ==
    /\ \E S : asked \in Seq(S)
    /\ \A i \in DOMAIN asked : asked[i] = [key |-> asked[i].key, err |-> asked[i].err]
    /\ \A i \in DOMAIN asked : i < Len(asked) \/ callPc = "next" => PassedOver(asked[i])

\* Where a call is, and what there is of an answer.
AnswerInv ==
    /\ callPc \in {"next", "asked", "stream", "end"}
    /\ callPc \in {"next", "asked"} => full = Calls!NothingYet /\ said = Calls!Silent
    /\ callPc \in {"asked", "stream"} =>
        /\ kind \in Calls!Kinds
        /\ asked # <<>> /\ asked[Len(asked)].err = None
    /\ callPc # "end" => result = None
    /\ result # None /\ result.ok => asked[Len(asked)].err = None \/ kind = "ollama"

CallInv == AskedInv /\ AnswerInv

LEMMA CallStarts == Calls!Init => CallInv
  <1> SUFFICES ASSUME Calls!Init
               PROVE  CallInv
    OBVIOUS
  <1>1. asked = <<>> /\ asked \in Seq({})
    BY DEF Calls!Init
  <1>2. AskedInv
    BY <1>1 DEF AskedInv
  <1> QED
    BY <1>2 DEF CallInv, AnswerInv, Calls!Init

\* The provider made for an entry is one of the four, if any.
LEMMA ProviderKinds ==
    ASSUME NEW c
    PROVE  Calls!CreateProviderFromConfig(c) \in Calls!Kinds \union {"error"}
  <1>1. \A m : Calls!CreateProvider(m) \in Calls!Kinds \union {"error"}
    BY DEF Calls!CreateProvider, Calls!Kinds
  <1> QED
    BY <1>1 DEF Calls!CreateProviderFromConfig, Calls!Kinds

\* A step that asks no model and passes none over.
LEMMA AskedKept ==
    ASSUME CallInv, UNCHANGED <<models, asked>>, callPc' = "next" => callPc = "next"
    PROVE  AskedInv'
  <1>1. \A i \in DOMAIN asked : PassedOver(asked[i]) => PassedOver(asked[i])'
    BY DEF PassedOver, Calls!Config
  <1> QED
    BY <1>1 DEF CallInv, AskedInv

LEMMA CallSkip ==
    ASSUME CallInv, Calls!SkipCandidate \/ Calls!Exhausted
    PROVE  CallInv'
  <1>1. UNCHANGED <<models, asked>> /\ callPc = "next" /\ UNCHANGED <<full, said, kind>>
    BY DEF Calls!SkipCandidate, Calls!Exhausted, Calls!call, Calls!stream, Calls!server
  <1>2. AskedInv'
    BY <1>1, AskedKept
  <1>3. \/ callPc' = "end" /\ result'.ok = FALSE
        \/ callPc' = "next" /\ result' = result
    BY <1>1 DEF Calls!SkipCandidate, Calls!Exhausted, Calls!Returns, Calls!Failed
  <1> QED
    BY <1>1, <1>2, <1>3 DEF CallInv, AnswerInv, Calls!NothingYet, Calls!Silent

LEMMA CallAsk ==
    ASSUME CallInv, Calls!AskCandidate
    PROVE  CallInv'
  <1>1. /\ callPc = "next" /\ callPc' = "asked"
        /\ asked' = Append(asked, [key |-> Head(todo), err |-> None])
        /\ UNCHANGED <<models, full, said, result>>
    BY DEF Calls!AskCandidate, Calls!call, Calls!stream
  <1>2. kind' \in Calls!Kinds
    <2>1. PICK c : Calls!CreateProviderFromConfig(c) # "error"
                     /\ kind' = Calls!CreateProviderFromConfig(c)
      BY DEF Calls!AskCandidate
    <2> QED
      BY <2>1, ProviderKinds
  <1>3. PICK S : asked \in Seq(S)
    BY DEF CallInv, AskedInv
  <1> DEFINE a == [key |-> Head(todo), err |-> None]
  <1>4. a = [key |-> a.key, err |-> a.err] /\ a.err = None
    OBVIOUS
  <1>5. asked' = Append(asked, a)
    BY <1>1
  <1> HIDE DEF a
  <1>6. /\ asked \in Seq(S \union {a}) /\ asked' \in Seq(S \union {a})
        /\ Len(asked') = Len(asked) + 1 /\ Len(asked) \in Nat
        /\ DOMAIN asked' = 1..(Len(asked) + 1) /\ DOMAIN asked = 1..Len(asked)
        /\ asked'[Len(asked) + 1] = a
        /\ \A i \in 1..Len(asked) : asked'[i] = asked[i]
    BY <1>3, <1>5
  <1>7. \A i \in DOMAIN asked : PassedOver(asked[i])
    BY <1>1 DEF CallInv, AskedInv
  <1>8. \A i \in DOMAIN asked : PassedOver(asked[i])'
    BY <1>1, <1>6, <1>7 DEF PassedOver, Calls!Config
  <1>9. AskedInv'
    <2>1. \A i \in DOMAIN asked' : asked'[i] = [key |-> asked'[i].key, err |-> asked'[i].err]
      BY <1>4, <1>6 DEF CallInv, AskedInv
    <2>2. \A i \in DOMAIN asked' : i < Len(asked') \/ callPc' = "next" => PassedOver(asked[i])'
      BY <1>1, <1>6, <1>8
    <2> QED
      BY <1>6, <2>1, <2>2 DEF AskedInv
  <1>10. asked' # <<>> /\ asked'[Len(asked')].err = None
    BY <1>4, <1>6
  <1> QED
    BY <1>1, <1>2, <1>9, <1>10 DEF CallInv, AnswerInv, Calls!NothingYet, Calls!Silent

\* The last model asked has failed.
LEMMA CallFail ==
    ASSUME CallInv, Calls!CallFails \/ Calls!RefusalUnnoticed
    PROVE  CallInv'
  <1>1. PICK e \in {"rate_limit", "context", "400", "503", "transport", "text_503"} :
            /\ asked' = [asked EXCEPT ![Len(asked)].err = e]
            /\ \/ callPc' = "next" /\ result' = result
                  /\ Calls!FallbackAllowed(e, Calls!Config(asked[Len(asked)].key))
               \/ callPc' = "end" /\ result'.ok = FALSE
               \/ callPc' = "end" /\ kind = "ollama"
    <2>1. CASE Calls!CallFails
      <3>1. callPc = "asked"
        BY <2>1 DEF Calls!CallFails
      <3>2. kind \in Calls!Kinds
        BY <3>1 DEF CallInv, AnswerInv
      <3>3. Calls!StartErrors \subseteq
                {"rate_limit", "context", "400", "503", "transport", "text_503"}
        BY <3>2 DEF Calls!StartErrors, Calls!Kinds, Calls!OpenAIChatErrors,
                    Calls!OpenAIStreamErrors, Calls!AnthropicErrors, Calls!CliErrors,
                    Calls!Untyped
      <3>4. PICK e \in Calls!StartErrors :
                /\ asked' = [asked EXCEPT ![Len(asked)].err = e]
                /\ IF mode # "summarize" /\ Calls!FallbackAllowed(e, Calls!Config(Calls!Current))
                   THEN callPc' = "next" /\ UNCHANGED result
                   ELSE Calls!Returns(Calls!Failed)
        BY <2>1 DEF Calls!CallFails
      <3>5. \/ callPc' = "next" /\ result' = result
               /\ Calls!FallbackAllowed(e, Calls!Config(asked[Len(asked)].key))
            \/ callPc' = "end" /\ result'.ok = FALSE
        BY <3>4 DEF Calls!Returns, Calls!Failed, Calls!Current
      <3> QED
        BY <3>3, <3>4, <3>5
    <2>2. CASE Calls!RefusalUnnoticed
      BY <2>2 DEF Calls!RefusalUnnoticed, Calls!Returns
    <2> QED
      BY <2>1, <2>2
  <1>2. callPc = "asked" /\ UNCHANGED <<models, full, said, kind>>
    BY DEF Calls!CallFails, Calls!RefusalUnnoticed, Calls!call, Calls!stream, Calls!server
  <1>3. PICK S : asked \in Seq(S)
    BY DEF CallInv, AskedInv
  <1>4. asked # <<>>
    BY <1>2 DEF CallInv, AnswerInv
  <1> DEFINE n == Len(asked)
             k == asked[n].key
             a == [key |-> k, err |-> e]
  <1>5. n \in DOMAIN asked /\ n \in Nat /\ DOMAIN asked = 1..n
    BY <1>3, <1>4
  <1>6. asked[n] = [key |-> k, err |-> asked[n].err]
    BY <1>5 DEF CallInv, AskedInv
  <1>7. [asked[n] EXCEPT !.err = e] = a
    BY <1>6
  <1>8. asked' = [asked EXCEPT ![n] = a]
    BY <1>1, <1>7
  <1>9. a.key = k /\ a.err = e /\ a = [key |-> a.key, err |-> a.err]
    OBVIOUS
  <1> HIDE DEF a, k
  <1>10. /\ asked' \in Seq(S \union {a}) /\ Len(asked') = n /\ DOMAIN asked' = 1..n
         /\ asked'[n] = a /\ \A i \in 1..n : i # n => asked'[i] = asked[i]
    <2>1. asked \in [1..n -> S \union {a}] /\ a \in S \union {a}
      BY <1>3
    <2>2. asked' \in [1..n -> S \union {a}]
      BY <1>8, <2>1
    <2>3. asked' \in Seq(S \union {a})
      BY <1>5, <2>2
    <2>4. Len(asked') = n
      BY <1>5, <2>2, <2>3, LenProperties
    <2>5. DOMAIN asked' = 1..n
      BY <2>2
    <2> HIDE DEF n
    <2>6. asked'[n] = a /\ \A i \in 1..n : i # n => asked'[i] = asked[i]
      BY <1>5, <1>8, <2>1
    <2> QED
      BY <2>3, <2>4, <2>5, <2>6
  <1>11. \A i \in 1..n : i < n => PassedOver(asked[i])
    BY <1>5 DEF CallInv, AskedInv
  <1>12. \A i \in 1..n : i < n => PassedOver(asked[i])'
    <2> SUFFICES ASSUME NEW i \in 1..n, i < n
                 PROVE  PassedOver(asked[i])'
      OBVIOUS
    <2> HIDE DEF n
    <2>1. n \in Nat
      BY <1>5
    <2>2. i # n
      BY <2>1
    <2>3. asked'[i] = asked[i]
      BY <1>10, <2>2
    <2>4. PassedOver(asked[i])
      BY <1>11, Zenon
    <2> QED
      BY <1>2, <2>3, <2>4 DEF PassedOver, Calls!Config
  <1>13. callPc' = "next" => PassedOver(asked[n])'
    <2>1. e # None
      BY ErrorsAssumption
    <2>2. callPc' = "next" => Calls!FallbackAllowed(e, Calls!Config(k))
      BY <1>1 DEF k
    <2> QED
      BY <1>2, <1>9, <1>10, <2>1, <2>2 DEF PassedOver, Calls!Config
  <1>14. AskedInv'
    <2>1. \A i \in DOMAIN asked' : asked'[i] = [key |-> asked'[i].key, err |-> asked'[i].err]
      BY <1>9, <1>10, <1>5 DEF CallInv, AskedInv
    <2>2. \A i \in DOMAIN asked' : i < Len(asked') \/ callPc' = "next" => PassedOver(asked[i])'
      <3> SUFFICES ASSUME NEW i \in 1..n, i < n \/ callPc' = "next"
                   PROVE  PassedOver(asked[i])'
        BY <1>10
      <3> HIDE DEF n
      <3>1. n \in Nat /\ Len(asked)' = n
        BY <1>5, <1>10
      <3>2. i < n \/ i = n
        BY <3>1
      <3>3. CASE i < n
        BY <1>12, <3>3, Zenon
      <3>4. CASE i = n /\ callPc' = "next"
        <4>1. PassedOver(asked[Len(asked)])'
          BY <1>13, <3>4, Zenon DEF n
        <4> QED
          BY <3>1, <3>4, <4>1
      <3> QED
        BY <3>2, <3>3, <3>4
    <2> QED
      BY <1>10, <2>1, <2>2 DEF AskedInv
  <1> QED
    BY <1>1, <1>2, <1>14 DEF CallInv, AnswerInv, Calls!NothingYet, Calls!Silent

\* The answer comes, whole or as a stream; no other model is asked from here on.
LEMMA CallAnswer ==
    ASSUME CallInv, callPc \in {"asked", "stream"}, callPc' \in {"stream", "end"},
           UNCHANGED <<models, asked, kind>>,
           callPc' = "stream" => result' = result
    PROVE  CallInv'
  <1>1. AskedInv'
    BY AskedKept
  <1>2. asked'[Len(asked')].err = None /\ asked' # <<>> /\ kind' \in Calls!Kinds
    BY DEF CallInv, AnswerInv, Calls!Kinds
  <1> QED
    BY <1>1, <1>2 DEF CallInv, AnswerInv, Calls!Kinds

LEMMA CallStep ==
    ASSUME CallInv, [Calls!Next]_(Calls!vars)
    PROVE  CallInv'
  <1>1. CASE UNCHANGED Calls!vars
    <2>1. UNCHANGED <<models, asked, callPc, kind, full, said, result>>
      BY <1>1 DEF Calls!vars, Calls!call, Calls!server, Calls!stream
    <2>2. AskedInv'
      BY <2>1, AskedKept
    <2> QED
      BY <2>1, <2>2 DEF CallInv, AnswerInv, Calls!Kinds, Calls!NothingYet, Calls!Silent
  <1>2. CASE \/ Calls!OpenAIReplies \/ Calls!AnthropicReplies \/ Calls!OllamaReplies
             \/ Calls!CliReplies \/ Calls!SummaryReplies
    <2>1. callPc = "asked" /\ callPc' = "end" /\ UNCHANGED <<models, asked, kind>>
      BY <1>2 DEF Calls!OpenAIReplies, Calls!AnthropicReplies, Calls!OllamaReplies,
                  Calls!CliReplies, Calls!SummaryReplies, Calls!Replies, Calls!Returns, Calls!call
    <2> QED
      BY <2>1, CallAnswer
  <1>3. CASE \/ Calls!StreamStarts \/ Calls!ChunkEndsInside \/ Calls!EventArrives
             \/ Calls!StreamBreaks \/ Calls!StreamEnds
    <2>1. /\ callPc \in {"asked", "stream"} /\ UNCHANGED <<models, asked, kind>>
          /\ \/ callPc' = "stream" /\ result' = result
             \/ callPc' = "end"
      BY <1>3 DEF Calls!StreamStarts, Calls!ChunkEndsInside, Calls!EventArrives,
                  Calls!StreamBreaks, Calls!StreamEnds, Calls!Returns, Calls!call
    <2> QED
      BY <2>1, CallAnswer
  <1>4. CASE Calls!Done
    BY <1>4, <1>1 DEF Calls!Done
  <1> QED
    BY <1>1, <1>2, <1>3, <1>4, CallSkip, CallAsk, CallFail DEF Calls!Next

\* A fallback never mixes two models' answers and is never forbidden: another model is
\* asked only while nothing was shown or recorded, and each model passed over failed with
\* an error its own settings let pass, for any table of models, any candidates and any
\* answers (SmartClient::chat, chat_stream, check_fallback_allowed).
THEOREM FallbackStaysSound == Calls!Spec => []FallbackSound
  <1>1. CallInv => FallbackSound
    BY DEF CallInv, AskedInv, AnswerInv, PassedOver, FallbackSound, Calls!FallbackSound
  <1>2. Calls!Spec => []CallInv
    BY CallStarts, CallStep, PTL DEF Calls!Spec
  <1> QED
    BY <1>1, <1>2, PTL

-----------------------------------------------------------------------------
(* chunk_text: every line of a text is in some chunk.                      *)

\* A set of numbers has a least one: what stands for induction here.
LEMMA LeastNumber ==
    ASSUME NEW T \in SUBSET Nat, T # {}
    PROVE  \E m \in T : \A k \in T : m <= k
  <1> DEFINE R == {ss \in Nat \X Nat : ss[1] < ss[2]}
  <1>1. IsWellFoundedOn(R, Nat)
    BY NatLessThanWellFounded DEF OpToRel
  <1> HIDE DEF R
  <1>2. \E m \in T : \A k \in T : ~ (<<k, m>> \in R)
    BY <1>1, WFMin, Zenon
  <1>3. PICK m \in T : \A k \in T : ~ (<<k, m>> \in R)
    BY <1>2
  <1>4. \A k \in T : ~ (k < m)
    BY <1>3 DEF R
  <1> QED
    BY <1>3, <1>4

\* ... and one that is bounded has a greatest.
LEMMA GreatestNumber ==
    ASSUME NEW i \in Nat, NEW j \in Nat, NEW T \in SUBSET (i..j), T # {}
    PROVE  \E m \in T : \A k \in T : k <= m
  <1> DEFINE U == {u \in Nat : \A k \in T : k <= u}
  <1>1. U \in SUBSET Nat /\ j \in U
    OBVIOUS
  <1>2. PICK u \in U : \A v \in U : u <= v
    BY <1>1, LeastNumber
  <1>3. SUFFICES ASSUME u \notin T
                 PROVE  FALSE
    BY <1>2
  <1>4. PICK t \in T : TRUE
    OBVIOUS
  <1>5. u - 1 \in Nat /\ \A k \in T : k <= u - 1
    BY <1>2, <1>3, <1>4
  <1>6. u - 1 \in U
    BY <1>5
  <1> QED
    BY <1>2, <1>6

\* The overlap begins within the chunk, or behind its end.
LEMMA OverlapWithin ==
    ASSUME NEW text, NEW i \in Nat, NEW j \in Nat, i <= j, NEW overlap
    PROVE  Memory!NextStart(text, i, j, overlap) \in i..(j + 1)
  <1> DEFINE keep == {k \in i..j : Memory!Chars(text, k, j) >= overlap}
  <1>1. CASE keep = {}
    BY <1>1 DEF Memory!NextStart
  <1>2. CASE keep # {}
    <2>1. keep \in SUBSET (i..j)
      OBVIOUS
    <2> HIDE DEF keep
    <2>2. \E k \in keep : \A l \in keep : l <= k
      BY <1>2, <2>1, GreatestNumber
    <2>3. Memory!NextStart(text, i, j, overlap) = CHOOSE k \in keep : \A l \in keep : l <= k
      BY <1>2 DEF Memory!NextStart, keep
    <2>4. Memory!NextStart(text, i, j, overlap) \in keep
      BY <2>2, <2>3, Zenon
    <2>5. \A k \in i..j : k \in i..(j + 1)
      OBVIOUS
    <2> QED
      BY <2>1, <2>4, <2>5, Zenon
  <1> QED
    BY <1>1, <1>2

\* The first line of the chunk at line j + 1, if it is i at line j.
Onward(text, c, i, j) ==
    IF Memory!Full(text, c, i, j) THEN Memory!NextStart(text, i, j, c.overlap) ELSE i

\* f says where the chunk at each of n lines begins.
Begins(text, c, n, f) ==
    f = [j \in 1..n |-> IF j = 1 THEN 1 ELSE Onward(text, c, f[j - 1], j - 1)]

LEMMA BeginsExists ==
    ASSUME NEW text, NEW c, NEW n \in Nat
    PROVE  \E f : Begins(text, c, n, f)
  <1> DEFINE T == {m \in Nat : ~ \E f : Begins(text, c, m, f)}
  <1>1. SUFFICES T = {}
    OBVIOUS
  <1>2. SUFFICES ASSUME T # {}
                 PROVE  FALSE
    OBVIOUS
  <1>3. T \in SUBSET Nat
    OBVIOUS
  <1>4. PICK m \in T : \A k \in T : m <= k
    BY <1>2, <1>3, LeastNumber
  <1>5. CASE m = 0
    <2>1. Begins(text, c, 0, [j \in 1..0 |-> 1])
      BY DEF Begins
    <2> QED
      BY <1>5, <2>1
  <1>6. CASE m # 0
    <2>1. m - 1 \in Nat /\ m - 1 \notin T
      BY <1>4, <1>6
    <2>2. PICK f : Begins(text, c, m - 1, f)
      BY <2>1
    <2> DEFINE g == [j \in 1..m |-> IF j = m /\ m # 1 THEN Onward(text, c, f[m - 1], m - 1)
                                    ELSE IF j = 1 THEN 1 ELSE f[j]]
    <2>3. \A j \in 1..m : g[j] = IF j = 1 THEN 1 ELSE Onward(text, c, g[j - 1], j - 1)
      <3> SUFFICES ASSUME NEW j \in 1..m
                   PROVE  g[j] = IF j = 1 THEN 1 ELSE Onward(text, c, g[j - 1], j - 1)
        OBVIOUS
      <3>1. \A k \in 1..(m - 1) : f[k] = IF k = 1 THEN 1 ELSE Onward(text, c, f[k - 1], k - 1)
        BY <2>2 DEF Begins
      <3>2. \A k \in 1..(m - 1) : g[k] = f[k]
        BY <3>1, <1>6
      <3>3. CASE j = 1
        BY <3>3
      <3>4. CASE j # 1
        <4>1. j - 1 \in 1..(m - 1)
          BY <3>4
        <4>2. g[j - 1] = f[j - 1]
          BY <3>2, <4>1
        <4>3. g[j] = Onward(text, c, f[j - 1], j - 1)
          BY <3>1, <3>4, <4>1
        <4> QED
          BY <3>4, <4>2, <4>3
      <3> QED
        BY <3>3, <3>4
    <2>4. Begins(text, c, m, g)
      BY <2>3 DEF Begins
    <2> QED
      BY <2>4
  <1> QED
    BY <1>5, <1>6

LEMMA StartsAre ==
    ASSUME NEW text, Len(text) \in Nat, NEW c
    PROVE  Begins(text, c, Len(text), Memory!Starts(text, c))
  <1>1. Memory!Starts(text, c) = CHOOSE f : f = [j \in 1..Len(text) |->
            CASE j = 1 -> 1
              [] j > 1 /\ Memory!Full(text, c, f[j - 1], j - 1)
                   -> Memory!NextStart(text, f[j - 1], j - 1, c.overlap)
              [] OTHER -> f[j - 1]]
    BY DEF Memory!Starts
  <1>2. \A f : [j \in 1..Len(text) |->
            CASE j = 1 -> 1
              [] j > 1 /\ Memory!Full(text, c, f[j - 1], j - 1)
                   -> Memory!NextStart(text, f[j - 1], j - 1, c.overlap)
              [] OTHER -> f[j - 1]]
          = [j \in 1..Len(text) |-> IF j = 1 THEN 1 ELSE Onward(text, c, f[j - 1], j - 1)]
    BY DEF Onward
  <1>3. \E f : Begins(text, c, Len(text), f)
    BY BeginsExists
  <1> DEFINE Told(f) == [j \in 1..Len(text) |->
            CASE j = 1 -> 1
              [] j > 1 /\ Memory!Full(text, c, f[j - 1], j - 1)
                   -> Memory!NextStart(text, f[j - 1], j - 1, c.overlap)
              [] OTHER -> f[j - 1]]
  <1>4. Memory!Starts(text, c) = CHOOSE f : f = Told(f)
    BY <1>1
  <1>5. \A f : f = Told(f) <=> Begins(text, c, Len(text), f)
    BY <1>2 DEF Begins
  <1> HIDE DEF Told
  <1>6. Memory!Starts(text, c) = Told(Memory!Starts(text, c))
    BY <1>3, <1>4, <1>5, Zenon
  <1> QED
    BY <1>5, <1>6

\* What Starts computes, line by line: the chunk at a line begins at that line or
\* before.
LEMMA StartsFacts ==
    ASSUME NEW text, Len(text) \in Nat, NEW c
    PROVE  \A j \in 1..Len(text) :
              /\ Memory!Starts(text, c)[j] \in 1..j
              /\ j # 1 => Memory!Starts(text, c)[j]
                            = Onward(text, c, Memory!Starts(text, c)[j - 1], j - 1)
  <1> DEFINE n == Len(text)
             s == Memory!Starts(text, c)
  <1>1. \A j \in 1..n : s[j] = IF j = 1 THEN 1 ELSE Onward(text, c, s[j - 1], j - 1)
    <2>1. Begins(text, c, n, s)
      BY StartsAre
    <2> HIDE DEF s, n
    <2> QED
      BY <2>1 DEF Begins
  <1>2. n \in Nat
    OBVIOUS
  <1> HIDE DEF s, n
  <1> DEFINE T == {j \in Nat : j \in 1..n /\ s[j] \notin 1..j}
  <1>3. T = {}
    <2> SUFFICES ASSUME T # {}
                 PROVE  FALSE
      OBVIOUS
    <2>1. T \in SUBSET Nat
      OBVIOUS
    <2>2. PICK m \in T : \A k \in T : m <= k
      BY <2>1, LeastNumber
    <2>3. m \in 1..n /\ s[m] \notin 1..m
      BY <2>2
    <2>4. CASE m = 1
      BY <1>1, <2>3, <2>4
    <2>5. CASE m # 1
      <3>1. m - 1 \in 1..n /\ m - 1 \in Nat /\ m - 1 \notin T
        BY <2>2, <2>3, <2>5, <1>2
      <3>2. s[m - 1] \in 1..(m - 1)
        BY <3>1
      <3>3. PICK i \in 1..(m - 1) : i = s[m - 1]
        BY <3>2
      <3>4. s[m] = Onward(text, c, i, m - 1)
        BY <1>1, <2>3, <2>5, <3>3
      <3>5. i \in Nat /\ m - 1 \in Nat /\ i <= m - 1 /\ i >= 1
        BY <3>1, <3>3
      <3>6. Memory!NextStart(text, i, m - 1, c.overlap) \in i..((m - 1) + 1)
        BY <3>5, OverlapWithin
      <3>7. (m - 1) + 1 = m
        BY <3>1, <2>3
      <3>8. s[m] \in i..m
        <4>1. CASE Memory!Full(text, c, i, m - 1)
          BY <4>1, <3>4, <3>6, <3>7 DEF Onward
        <4>2. CASE ~ Memory!Full(text, c, i, m - 1)
          BY <4>2, <3>4, <3>5, <2>3 DEF Onward
        <4> QED
          BY <4>1, <4>2
      <3> QED
        BY <2>3, <3>5, <3>8
    <2> QED
      BY <2>4, <2>5
  <1> QED
    BY <1>1, <1>3, <1>2 DEF s, n

\* No line is left out: each is in a chunk that ends at or behind it.
LEMMA EveryLineInAChunk ==
    ASSUME NEW text, Len(text) \in Nat, NEW c
    PROVE  UNION {l[1]..l[2] : l \in Memory!ChunkText(text, c)} = 1..Len(text)
  <1> DEFINE n == Len(text)
             s == Memory!Starts(text, c)
             F(j) == Memory!Full(text, c, s[j], j)
  <1>1. \A j \in 1..n : s[j] \in 1..j /\ (j # 1 => s[j] = Onward(text, c, s[j - 1], j - 1))
    BY StartsFacts
  <1>2. Memory!ChunkText(text, c) = {<<s[j], j>> : j \in {k \in 1..n : F(k)}}
    BY DEF Memory!ChunkText
  <1>3. n \in Nat /\ (n # 0 => F(n))
    BY DEF Memory!Full
  <1>4. \A j \in 1..n : j # 1 /\ ~ F(j - 1) => s[j] = s[j - 1]
    BY <1>1 DEF Onward
  <1> HIDE DEF n, s, F
  <1>5. ASSUME NEW k \in 1..n
        PROVE  \E m \in 1..n : F(m) /\ s[m] <= k /\ k <= m
    <2> DEFINE T == {m \in Nat : m \in k..n /\ F(m)}
    <2>1. T \in SUBSET Nat /\ n \in T
      BY <1>3
    <2>2. PICK m \in T : \A j \in T : m <= j
      BY <2>1, LeastNumber
    <2>3. m \in k..n /\ F(m)
      BY <2>2
    <2> DEFINE U == {j \in Nat : j \in k..m /\ ~ (s[j] <= k)}
    <2>4. U = {}
      <3> SUFFICES ASSUME U # {}
                   PROVE  FALSE
        OBVIOUS
      <3>1. U \in SUBSET Nat
        OBVIOUS
      <3>2. PICK u \in U : \A j \in U : u <= j
        BY <3>1, LeastNumber
      <3>3. u \in k..m /\ u \in 1..n /\ ~ (s[u] <= k)
        BY <3>2, <2>3, <1>3
      <3>4. u # k
        BY <3>3, <1>1
      <3>5. u - 1 \in k..m /\ u - 1 \in Nat /\ u - 1 \notin U /\ u # 1
        BY <3>2, <3>3, <3>4
      <3>6. s[u - 1] <= k
        BY <3>5
      <3>7. u - 1 \notin T
        BY <2>2, <3>3, <3>5
      <3>8. ~ F(u - 1)
        BY <3>5, <3>7, <2>3, <1>3
      <3>9. s[u] = s[u - 1]
        BY <3>3, <3>5, <3>8, <1>4
      <3> QED
        BY <3>3, <3>6, <3>9
    <2>5. m \in 1..n /\ k <= m /\ m \in Nat /\ m \in k..m
      BY <2>3, <1>3
    <2>6. s[m] <= k
      BY <2>4, <2>5
    <2> QED
      BY <2>3, <2>5, <2>6
  <1>6. ASSUME NEW k \in 1..n
        PROVE  k \in UNION {l[1]..l[2] : l \in Memory!ChunkText(text, c)}
    <2>1. PICK m \in 1..n : F(m) /\ s[m] <= k /\ k <= m
      BY <1>5
    <2>2. s[m] \in 1..m
      BY <1>1, <2>1
    <2>3. k \in s[m]..m
      BY <2>1, <2>2
    <2>4. <<s[m], m>> \in Memory!ChunkText(text, c)
      BY <1>2, <2>1
    <2>5. <<s[m], m>>[1] = s[m] /\ <<s[m], m>>[2] = m
      OBVIOUS
    <2> QED
      BY <2>3, <2>4, <2>5
  <1>7. ASSUME NEW k \in UNION {l[1]..l[2] : l \in Memory!ChunkText(text, c)}
        PROVE  k \in 1..n
    <2>1. PICK m \in 1..n : k \in s[m]..m
      BY <1>2
    <2>2. s[m] \in 1..m
      BY <1>1
    <2> QED
      BY <2>1, <2>2, <1>3
  <1> QED
    BY <1>6, <1>7 DEF n

LEMMA ChunksAreLines ==
    ASSUME NEW text, Len(text) \in Nat, NEW c, NEW l \in Memory!ChunkText(text, c)
    PROVE  l = <<l[1], l[2]>> /\ l[1] \in Nat /\ l[2] \in Nat
  <1>1. PICK j \in 1..Len(text) : l = <<Memory!Starts(text, c)[j], j>>
    BY DEF Memory!ChunkText
  <1>2. Memory!Starts(text, c)[j] \in 1..j
    BY StartsFacts
  <1> QED
    BY <1>1, <1>2

-----------------------------------------------------------------------------
(* The tables of the index.                                                *)

Rows == [gen : Nat, from : Nat, to : Nat, path : Paths, of : Contents,
         emb : {None} \union (Contents \X Nat \X Nat)]

\* The chunks of one transaction are of one content of one file.  What the
\* embedding worker has fetched may be in the table no more.
RowsInv ==
    /\ gen \in Nat
    /\ chunks \subseteq Rows /\ batch \subseteq Rows
    /\ \A c \in chunks \union batch : c.gen <= gen
    /\ \A c, d \in chunks \union batch : c.gen = d.gen => c.path = d.path /\ c.of = d.of

\* IndexSound, table by table.
OfInv == \A c \in chunks : c.of = files[c.path]
LinesInv ==
    \A p \in Paths : files[p] # None =>
        \A k : k \in 1..Len(files[p]) <=> \E c \in chunks : c.path = p /\ k \in c.from..c.to
\* A row stands for a chunk, unless a write of it failed.
FtsInv ==
    /\ \A i \in fts : i \in failed \/ \E c \in chunks : i = Memory!Id(c)
    /\ \A c \in chunks : Memory!Id(c) \in fts \/ Memory!Id(c) \in failed
EmbInv == \A c \in chunks : c.emb # None => c.emb = <<c.of, c.from, c.to>>
TablesInv == RowsInv /\ OfInv /\ LinesInv /\ FtsInv /\ EmbInv

LEMMA TablesSound ==
    ASSUME TablesInv
    PROVE  IndexSound
  <1>1. \A p \in Paths : \A c \in {d \in chunks : d.path = p} : c.of = files[p]
    BY DEF TablesInv, OfInv
  <1>2. ASSUME NEW p \in Paths, files[p] # None
        PROVE  UNION {c.from..c.to : c \in {d \in chunks : d.path = p}} = 1..Len(files[p])
    <2>1. \A k : k \in 1..Len(files[p]) <=> \E c \in chunks : c.path = p /\ k \in c.from..c.to
      BY <1>2 DEF TablesInv, LinesInv
    <2>2. \A k : k \in UNION {c.from..c.to : c \in {d \in chunks : d.path = p}}
                   <=> \E c \in chunks : c.path = p /\ k \in c.from..c.to
      BY Zenon
    <2> QED
      BY <2>1, <2>2, Zenon
  <1>3. (fts \ {Memory!Id(c) : c \in chunks}) \union ({Memory!Id(c) : c \in chunks} \ fts)
            \subseteq failed
    BY DEF TablesInv, FtsInv
  <1> QED
    BY <1>1, <1>2, <1>3 DEF IndexSound, Memory!IndexSound, TablesInv, EmbInv

\* A step that leaves the tables alone; the embedding worker may fetch.
LEMMA TablesKept ==
    ASSUME TablesInv, UNCHANGED <<files, chunks, fts, failed, gen>>, batch' \subseteq batch \union chunks
    PROVE  TablesInv'
  <1>1. RowsInv'
    BY DEF TablesInv, RowsInv
  <1> QED
    BY <1>1 DEF TablesInv, OfInv, LinesInv, FtsInv, EmbInv, Memory!Id

LEMMA TablesRemove ==
    ASSUME TablesInv, NEW p \in Paths, Memory!CommitRemove(p), UNCHANGED batch,
           files \in [Paths -> Contents \union {None}]
    PROVE  TablesInv'
  <1>1. /\ files' = [files EXCEPT ![p] = None]
        /\ chunks' = {c \in chunks : c.path # p}
        /\ Memory!WriteRows({Memory!Id(c) : c \in {d \in chunks : d.path = p}}, {})
        /\ gen' = gen
    BY DEF Memory!CommitRemove, Memory!DeleteChunks
  <1>2. RowsInv'
    BY <1>1 DEF TablesInv, RowsInv
  <1>3. OfInv'
    <2> SUFFICES ASSUME NEW c \in chunks'
                 PROVE  c.of = files'[c.path]
      BY DEF OfInv
    <2>1. c \in chunks /\ c.path # p /\ c.path \in Paths
      BY <1>1 DEF TablesInv, RowsInv, Rows
    <2> QED
      BY <1>1, <2>1 DEF TablesInv, OfInv
  <1>4. LinesInv'
    <2> SUFFICES ASSUME NEW q \in Paths, files'[q] # None
                 PROVE  \A k : k \in 1..Len(files'[q])
                            <=> \E c \in chunks' : c.path = q /\ k \in c.from..c.to
      BY DEF LinesInv
    <2>1. q # p /\ files'[q] = files[q]
      BY <1>1
    <2>2. \A k : k \in 1..Len(files[q]) <=> \E c \in chunks : c.path = q /\ k \in c.from..c.to
      BY <2>1 DEF TablesInv, LinesInv
    <2>3. \A c : c \in chunks' /\ c.path = q <=> c \in chunks /\ c.path = q
      BY <1>1, <2>1
    <2> QED
      BY <2>1, <2>2, <2>3
  <1>5. FtsInv'
    <2>1. \A c, d \in chunks : Memory!Id(c) = Memory!Id(d) => c.path = d.path
      BY DEF TablesInv, RowsInv, Memory!Id
    <2>2. PICK bad :
            /\ failed' = failed \union bad
            /\ fts' = fts \ ({Memory!Id(c) : c \in {d \in chunks : d.path = p}} \ bad)
      BY <1>1 DEF Memory!WriteRows
    <2>3. \A i \in fts' : i \in failed' \/ \E c \in chunks' : i = Memory!Id(c)
      BY <1>1, <2>2 DEF TablesInv, FtsInv
    <2>4. \A c \in chunks' : Memory!Id(c) \in fts' \/ Memory!Id(c) \in failed'
      BY <1>1, <2>1, <2>2 DEF TablesInv, FtsInv
    <2> QED
      BY <2>3, <2>4 DEF FtsInv, Memory!Id
  <1>6. EmbInv'
    BY <1>1 DEF TablesInv, EmbInv
  <1> QED
    BY <1>2, <1>3, <1>4, <1>5, <1>6 DEF TablesInv

LEMMA TablesCommit ==
    ASSUME TablesInv, NEW p \in Paths, NEW text \in Contents, NEW config,
           Memory!CommitFile(p, text, config), UNCHANGED batch,
           files \in [Paths -> Contents \union {None}]
    PROVE  TablesInv'
  <1> DEFINE New(l) == [gen |-> gen + 1, from |-> l[1], to |-> l[2], path |-> p, of |-> text,
                        emb |-> None]
             new == {New(l) : l \in Memory!ChunkText(text, config)}
             kept == {c \in chunks : c.path # p}
  <1>1. /\ files' = [files EXCEPT ![p] = text]
        /\ chunks' = kept \union new
        /\ Memory!WriteRows({Memory!Id(c) : c \in {d \in chunks : d.path = p}},
                            {Memory!Id(c) : c \in new})
        /\ gen' = gen + 1
    BY DEF Memory!CommitFile, Memory!DeleteChunks
  <1>2. Len(text) \in Nat
    BY ContentsAssumption
  <1>3. \A c \in new : /\ c \in Rows /\ c.gen = gen + 1 /\ c.path = p /\ c.of = text
                       /\ c.emb = None
    <2> SUFFICES ASSUME NEW l \in Memory!ChunkText(text, config)
                 PROVE  /\ New(l) \in Rows /\ New(l).gen = gen + 1 /\ New(l).path = p
                        /\ New(l).of = text /\ New(l).emb = None
      OBVIOUS
    <2>1. l[1] \in Nat /\ l[2] \in Nat
      BY <1>2, ChunksAreLines
    <2>2. gen + 1 \in Nat
      BY DEF TablesInv, RowsInv
    <2> QED
      BY <2>1, <2>2 DEF Rows
  <1>4. \A k : k \in 1..Len(text) <=> \E c \in new : k \in c.from..c.to
    <2>1. UNION {l[1]..l[2] : l \in Memory!ChunkText(text, config)} = 1..Len(text)
      BY <1>2, EveryLineInAChunk
    <2>2. \A l \in Memory!ChunkText(text, config) : New(l).from = l[1] /\ New(l).to = l[2]
      OBVIOUS
    <2>3. \A k : (\E c \in new : k \in c.from..c.to)
                   <=> \E l \in Memory!ChunkText(text, config) : k \in l[1]..l[2]
      BY <2>2
    <2>4. \A k : k \in UNION {l[1]..l[2] : l \in Memory!ChunkText(text, config)}
                   <=> \E l \in Memory!ChunkText(text, config) : k \in l[1]..l[2]
      BY Zenon
    <2> QED
      BY <2>1, <2>3, <2>4, Zenon
  <1> HIDE DEF new, New
  <1>5. RowsInv'
    <2>1. \A c \in chunks \union batch : c \in Rows /\ c.gen \in Nat /\ c.gen <= gen
      BY DEF TablesInv, RowsInv, Rows
    <2>2. gen \in Nat /\ gen' = gen + 1
      BY <1>1 DEF TablesInv, RowsInv
    <2>3. \A c, d \in chunks \union batch : c.gen = d.gen => c.path = d.path /\ c.of = d.of
      BY DEF TablesInv, RowsInv
    <2>4. chunks' \subseteq Rows /\ batch' \subseteq Rows
      BY <1>1, <1>3, <2>1
    <2>5. \A c \in chunks' \union batch' : c \in chunks \union batch \/ c \in new
      BY <1>1
    <2>6. \A c \in chunks' \union batch' : c.gen <= gen'
      BY <2>1, <2>2, <2>5, <1>3
    <2>7. ASSUME NEW c \in chunks' \union batch', NEW d \in chunks' \union batch', c.gen = d.gen
          PROVE  c.path = d.path /\ c.of = d.of
      BY <2>7, <2>1, <2>2, <2>3, <2>5, <1>3
    <2> QED
      BY <2>2, <2>4, <2>6, <2>7 DEF RowsInv
  <1>6. OfInv'
    <2> SUFFICES ASSUME NEW c \in chunks'
                 PROVE  c.of = files'[c.path]
      BY DEF OfInv
    <2>1. CASE c \in new
      BY <2>1, <1>1, <1>3
    <2>2. CASE c \in kept
      <3>1. c \in chunks /\ c.path # p /\ c.path \in Paths
        BY <2>2 DEF TablesInv, RowsInv, Rows
      <3> QED
        BY <1>1, <3>1 DEF TablesInv, OfInv
    <2> QED
      BY <2>1, <2>2, <1>1
  <1>7. LinesInv'
    <2> SUFFICES ASSUME NEW q \in Paths, files'[q] # None
                 PROVE  \A k : k \in 1..Len(files'[q])
                            <=> \E c \in chunks' : c.path = q /\ k \in c.from..c.to
      BY DEF LinesInv
    <2>1. CASE q = p
      <3>1. files'[q] = text
        BY <1>1, <2>1
      <3>2. \A c : c \in chunks' /\ c.path = q <=> c \in new
        BY <1>1, <1>3, <2>1
      <3> QED
        BY <3>1, <3>2, <1>4
    <2>2. CASE q # p
      <3>1. files'[q] = files[q]
        BY <1>1, <2>2
      <3>2. \A k : k \in 1..Len(files[q]) <=> \E c \in chunks : c.path = q /\ k \in c.from..c.to
        BY <3>1 DEF TablesInv, LinesInv
      <3>3. \A c : c \in chunks' /\ c.path = q <=> c \in chunks /\ c.path = q
        BY <1>1, <1>3, <2>2
      <3> QED
        BY <3>1, <3>2, <3>3
    <2> QED
      BY <2>1, <2>2
  <1>8. FtsInv'
    <2>1. \A c, d \in chunks : Memory!Id(c) = Memory!Id(d) => c.path = d.path
      BY DEF TablesInv, RowsInv, Memory!Id
    <2>2. PICK bad :
            /\ failed' = failed \union bad
            /\ fts' = (fts \ ({Memory!Id(c) : c \in {d \in chunks : d.path = p}} \ bad))
                         \union ({Memory!Id(c) : c \in new} \ bad)
      BY <1>1 DEF Memory!WriteRows
    <2>3. \A i \in fts' : i \in failed' \/ \E c \in chunks' : i = Memory!Id(c)
      BY <1>1, <2>2 DEF TablesInv, FtsInv
    <2>4. \A c \in chunks' : Memory!Id(c) \in fts' \/ Memory!Id(c) \in failed'
      BY <1>1, <2>1, <2>2 DEF TablesInv, FtsInv
    <2> QED
      BY <2>3, <2>4 DEF FtsInv, Memory!Id
  <1>9. EmbInv'
    BY <1>1, <1>3 DEF TablesInv, EmbInv
  <1> QED
    BY <1>5, <1>6, <1>7, <1>8, <1>9 DEF TablesInv

LEMMA TablesEmbed ==
    ASSUME TablesInv, NEW c \in batch, Memory!EmbedStore(c)
    PROVE  TablesInv'
  <1> DEFINE e == <<c.of, c.from, c.to>>
             Set(d) == IF Memory!Id(d) = Memory!Id(c) THEN [d EXCEPT !.emb = e] ELSE d
  <1>1. /\ chunks' = {Set(d) : d \in chunks}
        /\ batch' \subseteq batch /\ UNCHANGED <<files, fts, failed, gen>>
    BY DEF Memory!EmbedStore, Memory!SetEmbedding
  <1>2. c \in Rows /\ \A d \in chunks : d \in Rows
    BY DEF TablesInv, RowsInv
  <1>3. e \in Contents \X Nat \X Nat
    BY <1>2 DEF Rows
  <1>4. \A d \in chunks : /\ Set(d) \in Rows
                          /\ Set(d).gen = d.gen /\ Set(d).from = d.from /\ Set(d).to = d.to
                          /\ Set(d).path = d.path /\ Set(d).of = d.of
    <2> SUFFICES ASSUME NEW d \in chunks
                 PROVE  /\ Set(d) \in Rows
                        /\ Set(d).gen = d.gen /\ Set(d).from = d.from /\ Set(d).to = d.to
                        /\ Set(d).path = d.path /\ Set(d).of = d.of
      OBVIOUS
    <2>1. d \in Rows
      BY <1>2
    <2> HIDE DEF e
    <2> QED
      BY <1>3, <2>1 DEF Rows
  <1>5. \A d \in chunks : Memory!Id(d) = Memory!Id(c) =>
            d.of = c.of /\ d.from = c.from /\ d.to = c.to
    BY DEF TablesInv, RowsInv, Memory!Id
  <1>6. \A d \in chunks : Set(d).emb # None => Set(d).emb = <<d.of, d.from, d.to>>
    <2> SUFFICES ASSUME NEW d \in chunks, Set(d).emb # None
                 PROVE  Set(d).emb = <<d.of, d.from, d.to>>
      OBVIOUS
    <2>1. CASE Memory!Id(d) = Memory!Id(c)
      <3>1. d \in Rows
        BY <1>2
      <3>2. Set(d).emb = e
        BY <2>1, <3>1 DEF Rows
      <3> QED
        BY <3>2, <2>1, <1>5
    <2>2. CASE Memory!Id(d) # Memory!Id(c)
      BY <2>2 DEF TablesInv, EmbInv
    <2> QED
      BY <2>1, <2>2
  <1>7. \A d \in chunks' : \E o \in chunks : d = Set(o)
    BY <1>1
  <1>8. \A o \in chunks : Set(o) \in chunks'
    BY <1>1
  <1> HIDE DEF Set, e
  <1>9. RowsInv'
    <2>1. chunks' \subseteq Rows /\ batch' \subseteq Rows /\ gen' \in Nat
      BY <1>1, <1>4, <1>7 DEF TablesInv, RowsInv
    <2>2. \A d \in chunks' \union batch' : \E o \in chunks \union batch :
              d.gen = o.gen /\ d.path = o.path /\ d.of = o.of
      BY <1>1, <1>4, <1>7
    <2>3. /\ \A o \in chunks \union batch : o.gen <= gen
          /\ \A o, q \in chunks \union batch : o.gen = q.gen => o.path = q.path /\ o.of = q.of
      BY DEF TablesInv, RowsInv
    <2>4. \A d \in chunks' \union batch' : d.gen <= gen'
      BY <2>2, <2>3, <1>1
    <2>5. \A d, f \in chunks' \union batch' : d.gen = f.gen => d.path = f.path /\ d.of = f.of
      BY <2>2, <2>3
    <2> QED
      BY <2>1, <2>4, <2>5 DEF RowsInv
  <1>10. OfInv'
    BY <1>1, <1>4, <1>7 DEF TablesInv, OfInv
  <1>11. LinesInv'
    <2> SUFFICES ASSUME NEW q \in Paths, files'[q] # None
                 PROVE  \A k : k \in 1..Len(files'[q])
                            <=> \E d \in chunks' : d.path = q /\ k \in d.from..d.to
      BY DEF LinesInv
    <2>1. \A k : k \in 1..Len(files[q]) <=> \E d \in chunks : d.path = q /\ k \in d.from..d.to
      BY <1>1 DEF TablesInv, LinesInv
    <2>2. \A k : (\E d \in chunks' : d.path = q /\ k \in d.from..d.to)
                   <=> \E d \in chunks : d.path = q /\ k \in d.from..d.to
      <3> SUFFICES ASSUME NEW k
                   PROVE  (\E d \in chunks' : d.path = q /\ k \in d.from..d.to)
                            <=> \E d \in chunks : d.path = q /\ k \in d.from..d.to
        OBVIOUS
      <3>1. ASSUME NEW d \in chunks', d.path = q, k \in d.from..d.to
            PROVE  \E o \in chunks : o.path = q /\ k \in o.from..o.to
        BY <3>1, <1>4, <1>7
      <3>2. ASSUME NEW o \in chunks, o.path = q, k \in o.from..o.to
            PROVE  \E d \in chunks' : d.path = q /\ k \in d.from..d.to
        BY <3>2, <1>4, <1>8
      <3> QED
        BY <3>1, <3>2
    <2> QED
      BY <1>1, <2>1, <2>2
  <1>12. FtsInv'
    <2>1. \A d \in chunks : Memory!Id(Set(d)) = Memory!Id(d)
      BY <1>4 DEF Memory!Id
    <2>2. \A i \in fts' : i \in failed' \/ \E d \in chunks' : i = Memory!Id(d)
      BY <1>1, <2>1, <1>8 DEF TablesInv, FtsInv
    <2>3. \A d \in chunks' : Memory!Id(d) \in fts' \/ Memory!Id(d) \in failed'
      BY <1>1, <2>1, <1>7 DEF TablesInv, FtsInv
    <2> QED
      BY <2>2, <2>3 DEF FtsInv, Memory!Id
  <1>13. EmbInv'
    <2> SUFFICES ASSUME NEW d \in chunks', d.emb # None
                 PROVE  d.emb = <<d.of, d.from, d.to>>
      BY DEF EmbInv
    <2>1. PICK o \in chunks : d = Set(o)
      BY <1>7
    <2> QED
      BY <2>1, <1>4, <1>6
  <1> QED
    BY <1>9, <1>10, <1>11, <1>12, <1>13 DEF TablesInv

-----------------------------------------------------------------------------
(* The workers.                                                            *)

Workers == {"watcher", "reindex"}
AtFile == {"read", "loaded", "checked"}
Maybe == Contents \union {None}

\* What the workers hold has its type; a file that was read has a content.
WorkersInv ==
    /\ disk \in [Paths -> Maybe] /\ files \in [Paths -> Maybe]
    /\ events \in Seq(Paths)
    /\ workerPc \in [Workers -> AtFile \union {"idle", "clean", "index"}]
    /\ path \in [Workers -> Paths \union {None}]
    /\ read \in [Workers -> Maybe]
    /\ \A w \in Workers :
        /\ workerPc[w] \in AtFile => path[w] \in Paths
        /\ workerPc[w] = "loaded" => read[w] \in Contents

\* While nobody disturbs a reindex it knows which files the index has right: none
\* that has gone but those on its list and the one it is removing, then none that
\* differs from the disk but those on its list and the one it is at.
Undisturbed == quiet /\ workerPc["reindex"] # "idle"
Removing == workerPc["reindex"] = "checked" /\ read["reindex"] = None
Cleaning == workerPc["reindex"] = "clean" \/ Removing
Current(p) == workerPc["reindex"] \in AtFile /\ p = path["reindex"]
QuietInv ==
    Undisturbed =>
        /\ workerPc["watcher"] = "idle"
        /\ \A p \in Paths :
            disk[p] = None /\ files[p] # None => Cleaning /\ (p \in paths \/ Current(p))
        /\ ~ Cleaning => \A p \in Paths :
            disk[p] # None /\ files[p] # disk[p] => p \in paths \/ Current(p)
        /\ Removing => disk[path["reindex"]] = None
        /\ ~ Removing /\ workerPc["reindex"] \in AtFile =>
            /\ disk[path["reindex"]] # None
            /\ workerPc["reindex"] # "read" => read["reindex"] = disk[path["reindex"]]

MemoryInv == WorkersInv /\ TablesInv /\ QuietInv

LEMMA MemoryStarts == Memory!Init => MemoryInv
  <1> SUFFICES ASSUME Memory!Init
               PROVE  MemoryInv
    OBVIOUS
  <1>1. WorkersInv
    BY DEF Memory!Init, Memory!Workers, WorkersInv, Workers, AtFile, Maybe
  <1>2. TablesInv
    BY DEF Memory!Init, TablesInv, RowsInv, OfInv, LinesInv, FtsInv, EmbInv
  <1>3. QuietInv
    BY DEF Memory!Init, QuietInv, Undisturbed
  <1> QED
    BY <1>1, <1>2, <1>3 DEF MemoryInv

\* A file of the workspace changes or goes.
LEMMA MemoryEdit ==
    ASSUME MemoryInv, NEW p \in Paths, Memory!Edit(p) \/ Memory!Delete(p)
    PROVE  MemoryInv'
  <1>1. WorkersInv'
    <2>1. disk' \in [Paths -> Maybe]
      BY DEF MemoryInv, WorkersInv, Memory!Edit, Memory!Delete, Maybe
    <2>2. events' \in Seq(Paths)
      BY DEF MemoryInv, WorkersInv, Memory!Edit, Memory!Delete
    <2>3. UNCHANGED <<files, workerPc, path, read>>
      BY DEF Memory!Edit, Memory!Delete, Memory!db
    <2> QED
      BY <2>1, <2>2, <2>3 DEF MemoryInv, WorkersInv
  <1>2. TablesInv'
    BY TablesKept DEF MemoryInv, Memory!Edit, Memory!Delete, Memory!db, Memory!embedder
  <1>3. QuietInv'
    BY DEF Memory!Edit, Memory!Delete, QuietInv, Undisturbed
  <1> QED
    BY <1>1, <1>2, <1>3 DEF MemoryInv

LEMMA MemoryWatch ==
    ASSUME MemoryInv, Memory!WatchNext
    PROVE  MemoryInv'
  <1>1. WorkersInv'
    BY DEF MemoryInv, WorkersInv, Memory!WatchNext, Memory!db, Workers, AtFile
  <1>2. TablesInv'
    BY TablesKept DEF MemoryInv, Memory!WatchNext, Memory!db, Memory!embedder
  <1>3. QuietInv'
    BY DEF Memory!WatchNext, QuietInv, Undisturbed
  <1> QED
    BY <1>1, <1>2, <1>3 DEF MemoryInv

LEMMA MemoryReindex ==
    ASSUME MemoryInv, Memory!ReindexBegin \/ Memory!CleanEnd \/ Memory!ReindexEnd
    PROVE  MemoryInv'
  <1>1. WorkersInv'
    BY DEF MemoryInv, WorkersInv, Memory!ReindexBegin, Memory!CleanEnd, Memory!ReindexEnd,
           Memory!db, Workers, AtFile
  <1>2. TablesInv'
    BY TablesKept DEF MemoryInv, Memory!ReindexBegin, Memory!CleanEnd, Memory!ReindexEnd,
           Memory!db, Memory!embedder
  <1>3. QuietInv'
    <2>1. workerPc \in [Workers -> AtFile \union {"idle", "clean", "index"}]
      BY DEF MemoryInv, WorkersInv
    <2>2. CASE Memory!ReindexBegin
      BY <2>1, <2>2 DEF Memory!ReindexBegin, Memory!db, QuietInv, Undisturbed, Cleaning,
                        Removing, Current, Workers, AtFile
    <2>3. CASE Memory!CleanEnd
      BY <2>1, <2>3 DEF MemoryInv, Memory!CleanEnd, Memory!db, QuietInv, Undisturbed, Cleaning,
                        Removing, Current, Workers, AtFile
    <2>4. CASE Memory!ReindexEnd
      BY <2>1, <2>4 DEF Memory!ReindexEnd, QuietInv, Undisturbed
    <2> QED
      BY <2>2, <2>3, <2>4
  <1> QED
    BY <1>1, <1>2, <1>3 DEF MemoryInv

\* The reindex takes a path from its list.
LEMMA MemoryTake ==
    ASSUME MemoryInv, NEW p \in Paths, Memory!CleanNext(p) \/ Memory!IndexNext(p)
    PROVE  MemoryInv'
  <1>1. WorkersInv'
    BY DEF MemoryInv, WorkersInv, Memory!CleanNext, Memory!IndexNext, Memory!db, Workers, AtFile,
           Maybe
  <1>2. TablesInv'
    BY TablesKept DEF MemoryInv, Memory!CleanNext, Memory!IndexNext, Memory!db, Memory!embedder
  <1>3. QuietInv'
    <2>1. /\ workerPc \in [Workers -> AtFile \union {"idle", "clean", "index"}]
          /\ path \in [Workers -> Paths \union {None}] /\ read \in [Workers -> Maybe]
      BY DEF MemoryInv, WorkersInv
    <2>2. CASE Memory!CleanNext(p)
      BY <2>1, <2>2 DEF MemoryInv, Memory!CleanNext, Memory!db, QuietInv, Undisturbed, Cleaning,
                        Removing, Current, Workers, AtFile
    <2>3. CASE Memory!IndexNext(p)
      BY <2>1, <2>3 DEF MemoryInv, Memory!IndexNext, Memory!db, QuietInv, Undisturbed, Cleaning,
                        Removing, Current, Workers, AtFile
    <2> QED
      BY <2>2, <2>3
  <1> QED
    BY <1>1, <1>2, <1>3 DEF MemoryInv

\* A worker reads a file, finds it unchanged, or fails.
LEMMA MemoryRead ==
    ASSUME MemoryInv, NEW w \in Workers,
           Memory!ReadFile(w) \/ Memory!Check(w) \/ Memory!IndexFails(w)
    PROVE  MemoryInv'
  <1>0. /\ workerPc \in [Workers -> AtFile \union {"idle", "clean", "index"}]
        /\ path \in [Workers -> Paths \union {None}] /\ read \in [Workers -> Maybe]
        /\ disk \in [Paths -> Maybe] /\ files \in [Paths -> Maybe]
        /\ workerPc[w] \in AtFile => path[w] \in Paths
        /\ workerPc[w] = "loaded" => read[w] \in Contents
        /\ None \notin Contents
    BY ContentsAssumption DEF MemoryInv, WorkersInv
  <1>1. WorkersInv'
    <2>1. CASE Memory!ReadFile(w)
      BY <1>0, <2>1 DEF MemoryInv, WorkersInv, Memory!ReadFile, Memory!db, Workers, AtFile, Maybe
    <2>2. CASE Memory!Check(w)
      BY <1>0, <2>2 DEF MemoryInv, WorkersInv, Memory!Check, Memory!GoOn, Memory!After, Memory!db,
                        Workers, AtFile, Maybe
    <2>3. CASE Memory!IndexFails(w)
      BY <1>0, <2>3 DEF MemoryInv, WorkersInv, Memory!IndexFails, Memory!GoOn, Memory!db,
                        Workers, AtFile, Maybe
    <2> QED
      BY <2>1, <2>2, <2>3
  <1>2. TablesInv'
    BY TablesKept DEF MemoryInv, Memory!ReadFile, Memory!Check, Memory!IndexFails, Memory!db,
                      Memory!embedder
  <1>3. QuietInv'
    <2>1. CASE Memory!ReadFile(w)
      BY <1>0, <2>1 DEF MemoryInv, Memory!ReadFile, Memory!db, QuietInv, Undisturbed, Cleaning,
                        Removing, Current, Workers, AtFile, Maybe
    <2>2. CASE Memory!Check(w)
      BY <1>0, <2>2 DEF MemoryInv, Memory!Check, Memory!Unchanged, Memory!GoOn, Memory!After,
                        Memory!db, QuietInv, Undisturbed, Cleaning, Removing, Current, Workers,
                        AtFile, Maybe
    <2>3. CASE Memory!IndexFails(w)
      BY <1>0, <2>3 DEF MemoryInv, Memory!IndexFails, Memory!GoOn, Memory!db, QuietInv,
                        Undisturbed, Cleaning, Removing, Current, Workers, AtFile, Maybe
    <2> QED
      BY <2>1, <2>2, <2>3
  <1> QED
    BY <1>1, <1>2, <1>3 DEF MemoryInv

\* A worker commits what it has read of a file, or its removal.
LEMMA MemoryCommit ==
    ASSUME MemoryInv, NEW w \in Workers, Memory!Commit(w)
    PROVE  MemoryInv'
  <1>0. /\ workerPc \in [Workers -> AtFile \union {"idle", "clean", "index"}]
        /\ path \in [Workers -> Paths \union {None}] /\ read \in [Workers -> Maybe]
        /\ disk \in [Paths -> Maybe] /\ files \in [Paths -> Maybe]
        /\ workerPc[w] = "checked" /\ path[w] \in Paths
        /\ None \notin Contents
    BY ContentsAssumption DEF MemoryInv, WorkersInv, AtFile, Memory!Commit
  <1>1. files' = [files EXCEPT ![path[w]] = read[w]]
    BY DEF Memory!Commit, Memory!CommitRemove, Memory!CommitFile
  <1>2. /\ workerPc' = [workerPc EXCEPT ![w] = Memory!After(w)]
        /\ path' = [path EXCEPT ![w] = None] /\ read' = [read EXCEPT ![w] = None]
        /\ UNCHANGED <<disk, events, paths, quiet, batch>>
    BY DEF Memory!Commit, Memory!GoOn, Memory!embedder
  <1>3. WorkersInv'
    BY <1>0, <1>1, <1>2 DEF MemoryInv, WorkersInv, Memory!After, Workers, AtFile, Maybe
  <1>4. TablesInv'
    <2>1. CASE read[w] = None
      <3>1. Memory!CommitRemove(path[w])
        BY <2>1 DEF Memory!Commit
      <3> QED
        BY <1>0, <1>2, <3>1, TablesRemove DEF MemoryInv, Maybe
    <2>2. CASE read[w] # None
      <3>1. Memory!CommitFile(path[w], read[w], IF w = "watcher" THEN WatcherSize ELSE ManagerSize)
        BY <2>2 DEF Memory!Commit
      <3>2. read[w] \in Contents
        BY <1>0, <2>2 DEF Maybe
      <3> QED
        BY <1>0, <1>2, <3>1, <3>2, TablesCommit DEF MemoryInv, Maybe
    <2> QED
      BY <2>1, <2>2
  <1>5. QuietInv'
    BY <1>0, <1>1, <1>2 DEF MemoryInv, QuietInv, Undisturbed, Cleaning, Removing, Current,
                            Memory!After, Workers, AtFile, Maybe
  <1> QED
    BY <1>3, <1>4, <1>5 DEF MemoryInv

LEMMA MemoryEmbeds ==
    ASSUME MemoryInv,
           Memory!EmbedFetch \/ Memory!EmbedEnd \/ (\E c \in batch : Memory!EmbedStore(c))
    PROVE  MemoryInv'
  <1>1. UNCHANGED <<disk, events, files, workerPc, path, read, paths, quiet>>
    BY DEF Memory!EmbedFetch, Memory!EmbedEnd, Memory!EmbedStore, Memory!db, Memory!ws
  <1>2. WorkersInv'
    BY <1>1 DEF MemoryInv, WorkersInv
  <1>3. QuietInv'
    BY <1>1 DEF MemoryInv, QuietInv, Undisturbed, Cleaning, Removing, Current
  <1>4. CASE Memory!EmbedFetch
    BY <1>4, <1>2, <1>3, TablesKept DEF MemoryInv, Memory!EmbedFetch, Memory!db
  <1>5. CASE Memory!EmbedEnd
    BY <1>5, <1>2, <1>3, TablesKept DEF MemoryInv, Memory!EmbedEnd, Memory!db
  <1>6. CASE \E c \in batch : Memory!EmbedStore(c)
    BY <1>6, <1>2, <1>3, TablesEmbed DEF MemoryInv
  <1> QED
    BY <1>4, <1>5, <1>6

LEMMA MemoryStep ==
    ASSUME MemoryInv, [Memory!Next]_(Memory!vars)
    PROVE  MemoryInv'
  <1>1. CASE UNCHANGED Memory!vars
    <2>1. UNCHANGED <<disk, events, files, chunks, fts, failed, gen, workerPc, path, read, paths,
                      quiet, batch>>
      BY <1>1 DEF Memory!vars, Memory!db, Memory!ws, Memory!embedder
    <2>2. WorkersInv' /\ QuietInv'
      BY <2>1 DEF MemoryInv, WorkersInv, QuietInv, Undisturbed, Cleaning, Removing, Current
    <2> QED
      BY <2>1, <2>2, TablesKept DEF MemoryInv
  <1>2. CASE Memory!Next
    BY <1>2, MemoryEdit, MemoryTake, MemoryWatch, MemoryReindex, MemoryRead, MemoryCommit,
       MemoryEmbeds DEF Memory!Next, Memory!Workers, Workers
  <1> QED
    BY <1>1, <1>2

LEMMA MemoryInvariance == Memory!Spec => []MemoryInv
  BY MemoryStarts, MemoryStep, PTL DEF Memory!Spec

\* Whoever indexes, removes and embeds at once, the tables of the memory index agree: a
\* file's chunks are of the one content whose hash is recorded and hold every line of it,
\* whatever the sizes of chunk and overlap; the full text table has just their rows, but
\* for the rows whose own delete or insert failed, an error the transaction passes over;
\* and an embedding is that of its chunk's text (MemoryIndex::index_file, remove_file,
\* delete_chunks_for_path, insert_fts, chunk_text).
THEOREM IndexStaysSound == Memory!Spec => []IndexSound
  <1>1. MemoryInv => IndexSound
    BY TablesSound DEF MemoryInv
  <1> QED
    BY <1>1, MemoryInvariance, PTL

\* A reindex that ends well, with no change of a file and no watcher at work since it
\* began, leaves an index that records just what is on disk, for any number of files,
\* edits and earlier failures (MemoryManager::reindex, cleanup_deleted_files).
THEOREM ReindexMakesRight == Memory!Spec => ReindexRestores
  <1>1. ASSUME MemoryInv, [Memory!Next]_(Memory!vars), workerPc["reindex"] = "index",
               paths = {}, quiet, workerPc'["reindex"] = "idle"
        PROVE  files' = disk'
    <2>1. disk \in [Paths -> Maybe] /\ files \in [Paths -> Maybe]
      BY <1>1 DEF MemoryInv, WorkersInv
    <2>2. \A p \in Paths : files[p] = disk[p]
      BY <1>1 DEF MemoryInv, QuietInv, Undisturbed, Cleaning, Removing, Current, AtFile
    <2>3. files = disk
      BY <2>1, <2>2
    <2>4. workerPc \in [Workers -> AtFile \union {"idle", "clean", "index"}]
      BY <1>1 DEF MemoryInv, WorkersInv
    <2>5. UNCHANGED <<files, disk>>
      <3>1. CASE UNCHANGED Memory!vars
        BY <3>1 DEF Memory!vars, Memory!db
      <3>2. ASSUME NEW p \in Paths, Memory!Edit(p) \/ Memory!Delete(p)
            PROVE  FALSE
        BY <1>1, <3>2 DEF Memory!Edit, Memory!Delete
      <3>3. ASSUME NEW w \in Workers, Memory!Commit(w)
            PROVE  FALSE
        <4>1. w = "watcher"
          BY <3>3, <1>1 DEF Memory!Commit, Workers
        <4>2. workerPc["watcher"] = "idle"
          BY <1>1 DEF MemoryInv, QuietInv, Undisturbed
        <4> QED
          BY <4>1, <4>2, <3>3 DEF Memory!Commit
      <3> QED
        BY <1>1, <3>1, <3>2, <3>3 DEF Memory!Next, Memory!Workers, Workers, Memory!CleanNext,
           Memory!IndexNext, Memory!WatchNext, Memory!ReindexBegin, Memory!CleanEnd,
           Memory!ReindexEnd, Memory!ReadFile, Memory!Check, Memory!IndexFails,
           Memory!EmbedFetch, Memory!EmbedStore, Memory!EmbedEnd, Memory!db
    <2> QED
      BY <2>3, <2>5
  <1>2. MemoryInv /\ [Memory!Next]_(Memory!vars) =>
            [workerPc["reindex"] = "index" /\ paths = {} /\ quiet /\ workerPc'["reindex"] = "idle"
                => files' = disk']_(Memory!vars)
    BY <1>1
  <1> QED
    BY <1>2, MemoryInvariance, PTL DEF Memory!Spec, ReindexRestores, Memory!ReindexRestores

-----------------------------------------------------------------------------
(* Recursive functions over a range of numbers.                            *)

\* What holds at the first number, and at each after the one before it, holds at all.
LEMMA Upwards ==
    ASSUME NEW a \in Nat, NEW n \in Nat, NEW T, a \in T,
           \A i \in (a + 1)..n : i - 1 \in T => i \in T
    PROVE  \A i \in a..n : i \in T
  <1> DEFINE U == {i \in Nat : a <= i /\ i <= n /\ i \notin T}
  <1>1. SUFFICES ASSUME U # {}
                 PROVE  FALSE
    OBVIOUS
  <1>2. U \in SUBSET Nat
    OBVIOUS
  <1>3. PICK m \in U : \A k \in U : m <= k
    BY <1>1, <1>2, LeastNumber
  <1>4. m # a /\ m - 1 \in Nat /\ a <= m - 1 /\ m - 1 <= n /\ m \in (a + 1)..n
    BY <1>3
  <1>5. m - 1 \notin U
    BY <1>3, <1>4
  <1>6. m - 1 \in T
    BY <1>4, <1>5
  <1> QED
    BY <1>3, <1>4, <1>6

\* A function on a..n from its first value, and for each i the function F[i] from the
\* value at i - 1 to the value at i.
Runs(g, a, n, x, F) ==
    g[a] = x /\ \A i \in (a + 1)..n : g[i] = F[i][g[i - 1]]

LEMMA Recursion ==
    ASSUME NEW a \in Nat, NEW n \in Nat, a <= n, NEW S, NEW x \in S, NEW F,
           \A i \in (a + 1)..n : \A v \in S : F[i][v] \in S
    PROVE  \E g \in [a..n -> S] : Runs(g, a, n, x, F)
  <1> DEFINE T == {m \in a..n : \E g \in [a..m -> S] : Runs(g, a, m, x, F)}
  <1>1. a \in T
    <2>1. [i \in a..a |-> x] \in [a..a -> S]
      OBVIOUS
    <2>2. Runs([i \in a..a |-> x], a, a, x, F)
      BY DEF Runs
    <2> QED
      BY <2>1, <2>2
  <1>2. ASSUME NEW m \in (a + 1)..n, m - 1 \in T
        PROVE  m \in T
    <2>1. PICK g \in [a..(m - 1) -> S] : Runs(g, a, m - 1, x, F)
      BY <1>2
    <2> DEFINE h == [i \in a..m |-> IF i = m THEN F[m][g[m - 1]] ELSE g[i]]
    <2>2. m - 1 \in a..(m - 1) /\ g[m - 1] \in S
      OBVIOUS
    <2>3. F[m][g[m - 1]] \in S
      BY <2>2
    <2>4. h \in [a..m -> S]
      BY <2>3
    <2>5. \A i \in a..(m - 1) : h[i] = g[i]
      OBVIOUS
    <2>6. h[m] = F[m][g[m - 1]]
      OBVIOUS
    <2> HIDE DEF h
    <2>7. \A i \in (a + 1)..m : h[i] = F[i][h[i - 1]]
      <3> SUFFICES ASSUME NEW i \in (a + 1)..m
                   PROVE  h[i] = F[i][h[i - 1]]
        OBVIOUS
      <3>1. CASE i = m
        BY <2>2, <2>5, <2>6, <3>1
      <3>2. CASE i # m
        <4>1. i \in a..(m - 1) /\ i - 1 \in a..(m - 1) /\ i \in (a + 1)..(m - 1)
          BY <3>2
        <4>2. g[i] = F[i][g[i - 1]]
          BY <2>1, <4>1 DEF Runs
        <4> QED
          BY <2>5, <4>1, <4>2
      <3> QED
        BY <3>1, <3>2
    <2>8. h[a] = x
      BY <2>1, <2>5 DEF Runs
    <2>9. Runs(h, a, m, x, F)
      BY <2>7, <2>8 DEF Runs
    <2> QED
      BY <2>4, <2>9
  <1>3. \A i \in (a + 1)..n : i - 1 \in T => i \in T
    BY <1>2
  <1> HIDE DEF T
  <1>4. \A i \in a..n : i \in T
    BY <1>1, <1>3, Upwards
  <1>5. n \in T
    BY <1>4
  <1> QED
    BY <1>5 DEF T

\* There is only one such function.
LEMMA RunsAgree ==
    ASSUME NEW a \in Nat, NEW n \in Nat, NEW m \in Nat, a <= n, n <= m, NEW x, NEW F,
           NEW g, NEW h, Runs(g, a, n, x, F), Runs(h, a, m, x, F)
    PROVE  \A i \in a..n : g[i] = h[i]
  <1> DEFINE T == {i \in a..n : g[i] = h[i]}
  <1>1. a \in T
    BY DEF Runs
  <1>2. ASSUME NEW i \in (a + 1)..n, i - 1 \in T
        PROVE  i \in T
    <2>1. g[i] = F[i][g[i - 1]]
      BY DEF Runs
    <2>2. i \in (a + 1)..m
      OBVIOUS
    <2>3. h[i] = F[i][h[i - 1]]
      BY <2>2 DEF Runs
    <2> QED
      BY <1>2, <2>1, <2>3
  <1> HIDE DEF T
  <1>3. \A i \in a..n : i \in T
    BY <1>1, <1>2, Upwards
  <1> QED
    BY <1>3 DEF T

-----------------------------------------------------------------------------
(* resolve_model_config: each setting is that of the nearest ancestor.     *)

\* The key that follows v on the way up.
Parent(v) == IF v = None \/ v \notin DOMAIN models THEN None ELSE models[v].extend
Names(k) == {k, None} \union {models[j].extend : j \in DOMAIN models}
Upward(k) == [i \in Nat |-> [v \in Names(k) |-> Parent(v)]]

LEMMA ParentNamed == ASSUME NEW k, NEW v PROVE Parent(v) \in Names(k)
  BY DEF Parent, Names

LEMMA AncestorRuns ==
    ASSUME NEW k, NEW n \in Nat
    PROVE  \E g \in [0..n -> Names(k)] :
              Runs(g, 0, n, k, Upward(k)) /\ Calls!Ancestor(k, n) = g[n]
  <1> DEFINE Told(f) == [i \in 0..n |->
                 IF i = 0 THEN k
                 ELSE IF f[i - 1] = None \/ f[i - 1] \notin DOMAIN models THEN None
                 ELSE models[f[i - 1]].extend]
             way == CHOOSE f : f = Told(f)
  <1>1. Calls!Ancestor(k, n) = way[n]
    BY DEF Calls!Ancestor
  <1>2. \A i \in (0 + 1)..n : \A v \in Names(k) : Upward(k)[i][v] \in Names(k)
    BY ParentNamed DEF Upward
  <1>3. k \in Names(k) /\ 0 \in Nat /\ 0 <= n
    BY DEF Names
  <1>4. PICK g \in [0..n -> Names(k)] : Runs(g, 0, n, k, Upward(k))
    BY <1>2, <1>3, Recursion
  <1>5. ASSUME NEW i \in 1..n
        PROVE  g[i] = Parent(g[i - 1])
    <2>1. i - 1 \in 0..n /\ i \in (0 + 1)..n /\ i \in Nat
      OBVIOUS
    <2>2. g[i] = Upward(k)[i][g[i - 1]] /\ g[i - 1] \in Names(k)
      BY <1>4, <2>1 DEF Runs
    <2> QED
      BY <2>1, <2>2 DEF Upward
  <1>6. g = Told(g)
    BY <1>4, <1>5 DEF Parent, Runs
  <1>7. way = Told(way)
    <2> HIDE DEF Told
    <2> QED
      BY <1>6, Zenon
  <1> HIDE DEF way
  <1>8. way[0] = k /\ \A i \in 1..n : way[i] = Parent(way[i - 1])
    BY <1>7 DEF Parent
  <1>9. DOMAIN way = 0..n /\ way = [i \in 0..n |-> way[i]]
    BY <1>7
  <1> HIDE DEF Told
  <1>10. \A i \in 0..n : way[i] \in Names(k)
    <2> SUFFICES ASSUME NEW i \in 0..n
                 PROVE  way[i] \in Names(k)
      OBVIOUS
    <2>1. CASE i = 0
      BY <1>3, <1>8, <2>1
    <2>2. CASE i # 0
      BY <1>8, <2>2, ParentNamed
    <2> QED
      BY <2>1, <2>2
  <1>11. way \in [0..n -> Names(k)]
    BY <1>9, <1>10
  <1>12. Runs(way, 0, n, k, Upward(k))
    BY <1>8, <1>11 DEF Runs, Upward
  <1> QED
    BY <1>1, <1>11, <1>12

LEMMA AncestorIs ==
    ASSUME NEW k
    PROVE  /\ Calls!Ancestor(k, 0) = k
           /\ \A n \in Nat : Calls!Ancestor(k, n + 1) = Parent(Calls!Ancestor(k, n))
  <1>1. Calls!Ancestor(k, 0) = k
    <2>1. \E g \in [0..0 -> Names(k)] :
              Runs(g, 0, 0, k, Upward(k)) /\ Calls!Ancestor(k, 0) = g[0]
      BY AncestorRuns
    <2> QED
      BY <2>1 DEF Runs
  <1>2. ASSUME NEW n \in Nat
        PROVE  Calls!Ancestor(k, n + 1) = Parent(Calls!Ancestor(k, n))
    <2>1. PICK g \in [0..n -> Names(k)] :
              Runs(g, 0, n, k, Upward(k)) /\ Calls!Ancestor(k, n) = g[n]
      BY AncestorRuns
    <2>2. PICK h \in [0..(n + 1) -> Names(k)] :
              Runs(h, 0, n + 1, k, Upward(k)) /\ Calls!Ancestor(k, n + 1) = h[n + 1]
      BY AncestorRuns
    <2>3. \A i \in 0..n : g[i] = h[i]
      <3>1. 0 \in Nat /\ n + 1 \in Nat /\ 0 <= n /\ n <= n + 1
        OBVIOUS
      <3> QED
        BY <2>1, <2>2, <3>1, RunsAgree
    <2>4. h[n + 1] = Upward(k)[n + 1][h[n]]
      <3>1. n + 1 \in (0 + 1)..(n + 1) /\ (n + 1) - 1 = n
        OBVIOUS
      <3> QED
        BY <2>2, <3>1 DEF Runs
    <2>5. h[n] \in Names(k) /\ g[n] = h[n]
      BY <2>2, <2>3
    <2>6. Upward(k)[n + 1][h[n]] = Parent(h[n])
      BY <2>5 DEF Upward
    <2> QED
      BY <2>1, <2>2, <2>4, <2>5, <2>6
  <1> QED
    BY <1>1, <1>2

\* The loop's states.
Entries == {models[j] : j \in DOMAIN models}
Walks(k) == [chain : Seq(Entries), at : Names(k), visited : SUBSET Names(k),
             status : {"walk", "ok", "error"}]
AtStart(k) == [chain |-> <<>>, at |-> k, visited |-> {k}, status |-> "walk"]
Onwards(k) == [i \in Nat |-> [w \in Walks(k) |-> Calls!Follow(models, w)]]

LEMMA FollowWalks ==
    ASSUME NEW k, NEW w \in Walks(k)
    PROVE  Calls!Follow(models, w) \in Walks(k)
  <1>1. CASE w.status # "walk"
    BY <1>1 DEF Calls!Follow
  <1>2. CASE w.status = "walk" /\ w.at \notin DOMAIN models
    BY <1>2 DEF Calls!Follow, Walks
  <1>3. CASE w.status = "walk" /\ w.at \in DOMAIN models
    <2>1. PICK c : c = models[w.at]
      OBVIOUS
    <2>2. PICK s : s = Append(w.chain, c)
      OBVIOUS
    <2>3. c \in Entries /\ c.extend \in Names(k)
      BY <1>3, <2>1 DEF Entries, Names
    <2>4. s \in Seq(Entries)
      BY <2>2, <2>3 DEF Walks
    <2>5. Calls!Follow(models, w) =
              IF c.extend = None THEN [w EXCEPT !.chain = s, !.status = "ok"]
              ELSE IF c.extend \in w.visited THEN [w EXCEPT !.chain = s, !.status = "error"]
              ELSE [w EXCEPT !.chain = s, !.at = c.extend,
                             !.visited = w.visited \union {c.extend}]
      BY <1>3, <2>1, <2>2 DEF Calls!Follow, Walks
    <2>6. w.visited \union {c.extend} \in SUBSET Names(k)
      BY <2>3 DEF Walks
    <2>7. CASE c.extend = None
      BY <2>4, <2>5, <2>7 DEF Walks
    <2>8. CASE c.extend # None /\ c.extend \in w.visited
      BY <2>4, <2>5, <2>8 DEF Walks
    <2>9. CASE c.extend # None /\ c.extend \notin w.visited
      BY <2>3, <2>4, <2>5, <2>6, <2>9 DEF Walks
    <2> QED
      BY <2>7, <2>8, <2>9
  <1> QED
    BY <1>1, <1>2, <1>3

\* The number of turns, and the function Walk is defined by.
Turns == Calls!Cardinality(DOMAIN models) + 1

LEMMA SameCardinality == ASSUME NEW S PROVE Calls!Cardinality(S) = Cardinality(S)
  BY DEF Cardinality, Calls!Cardinality

LEMMA WalkRuns ==
    ASSUME NEW k, IsFiniteSet(DOMAIN models)
    PROVE  /\ Turns \in Nat
           /\ \E g \in [0..Turns -> Walks(k)] :
                 /\ g[0] = AtStart(k) /\ Calls!Walk(models, k) = g[Turns]
                 /\ \A i \in 1..Turns : g[i] = Calls!Follow(models, g[i - 1])
  <1>0. Turns \in Nat
    BY FS_CardinalityType, SameCardinality DEF Turns
  <1>1. PICK n \in Nat : n = Turns
    BY <1>0
  <1> DEFINE Told(f) == [i \in 0..Turns |->
                 IF i = 0 THEN [chain |-> <<>>, at |-> k, visited |-> {k}, status |-> "walk"]
                 ELSE Calls!Follow(models, f[i - 1])]
             walk == CHOOSE f : f = Told(f)
  <1>2. Calls!Walk(models, k) = walk[Turns]
    BY DEF Calls!Walk, Turns
  <1>3. AtStart(k) \in Walks(k) /\ 0 \in Nat /\ 0 <= n
    BY DEF AtStart, Walks, Names
  <1>4. \A i \in (0 + 1)..n : \A v \in Walks(k) : Onwards(k)[i][v] \in Walks(k)
    BY FollowWalks DEF Onwards
  <1>5. PICK g \in [0..n -> Walks(k)] : Runs(g, 0, n, AtStart(k), Onwards(k))
    BY <1>3, <1>4, Recursion
  <1>6. ASSUME NEW i \in 1..n
        PROVE  g[i] = Calls!Follow(models, g[i - 1])
    <2>1. i - 1 \in 0..n /\ i \in (0 + 1)..n /\ i \in Nat
      OBVIOUS
    <2>2. g[i] = Onwards(k)[i][g[i - 1]] /\ g[i - 1] \in Walks(k)
      BY <1>5, <2>1 DEF Runs
    <2> QED
      BY <2>1, <2>2 DEF Onwards
  <1>7. g = Told(g)
    BY <1>1, <1>5, <1>6 DEF AtStart, Runs
  <1>8. walk = Told(walk)
    <2> HIDE DEF Told
    <2> QED
      BY <1>7, Zenon
  <1> HIDE DEF walk
  <1>9. walk[0] = AtStart(k) /\ \A i \in 1..n : walk[i] = Calls!Follow(models, walk[i - 1])
    <2>1. walk = [i \in 0..n |->
                 IF i = 0 THEN AtStart(k) ELSE Calls!Follow(models, walk[i - 1])]
      BY <1>1, <1>8 DEF AtStart
    <2>2. 0 \in 0..n /\ \A i \in 1..n : i \in 0..n /\ i # 0
      OBVIOUS
    <2> QED
      BY <2>1, <2>2
  <1>10. walk = [i \in 0..n |-> walk[i]]
    BY <1>1, <1>8
  <1> HIDE DEF Told
  <1>11. \A i \in 0..n : walk[i] \in Walks(k)
    <2> DEFINE T == {i \in 0..n : walk[i] \in Walks(k)}
    <2>1. 0 \in T
      BY <1>3, <1>9
    <2>2. \A i \in (0 + 1)..n : i - 1 \in T => i \in T
      BY <1>9, FollowWalks
    <2> HIDE DEF T
    <2>3. \A i \in 0..n : i \in T
      BY <2>1, <2>2, Upwards
    <2> QED
      BY <2>3 DEF T
  <1>12. walk \in [0..n -> Walks(k)]
    BY <1>10, <1>11
  <1> QED
    BY <1>0, <1>1, <1>2, <1>9, <1>12

\* The keys on the way up from k.
Way(A, k) == A[0] = k /\ \A n \in Nat : A[n + 1] = Parent(A[n])

\* c has the entries of the first m keys.
Climbs(A, c, m) ==
    /\ c \in Seq(Entries) /\ Len(c) = m
    /\ \A j \in Nat : j < m => A[j] \in DOMAIN models /\ c[j + 1] = models[A[j]]

\* What the loop has found out after n turns: no key twice, or that the way ends,
\* or that it leaves the table or comes back to itself.
Climbing(A, w, n) ==
    /\ w.status = "walk" /\ w.at = A[n] /\ A[n] # None /\ Climbs(A, w.chain, n)
    /\ \A v : v \in w.visited <=> \E j \in Nat : j <= n /\ v = A[j]
    /\ IsFiniteSet(w.visited) /\ Cardinality(w.visited) = n + 1
AtTop(A, w, n) ==
    /\ w.status = "ok"
    /\ \E m \in 1..n : Climbs(A, w.chain, m) /\ A[m] = None
Astray(A, n) ==
    \E m \in Nat :
        /\ m < n /\ A[m] # None
        /\ \/ A[m] \notin DOMAIN models
           \/ /\ \A j \in Nat : j <= m => A[j] \in DOMAIN models
              /\ \E j \in Nat : j <= m /\ A[m + 1] = A[j]
Known(A, w, n) ==
    Climbing(A, w, n) \/ AtTop(A, w, n) \/ (w.status = "error" /\ Astray(A, n))

LEMMA ClimbsOn ==
    ASSUME NEW A, NEW c, NEW n \in Nat, Climbs(A, c, n), A[n] \in DOMAIN models
    PROVE  Climbs(A, Append(c, models[A[n]]), n + 1)
  <1>1. PICK d : d = Append(c, models[A[n]])
    OBVIOUS
  <1>2. c \in Seq(Entries) /\ Len(c) = n /\ models[A[n]] \in Entries
    BY DEF Climbs, Entries
  <1>3. /\ d \in Seq(Entries) /\ Len(d) = n + 1 /\ d[n + 1] = models[A[n]]
        /\ \A i \in 1..n : d[i] = c[i]
    BY <1>1, <1>2
  <1>4. ASSUME NEW j \in Nat, j < n + 1
        PROVE  A[j] \in DOMAIN models /\ d[j + 1] = models[A[j]]
    <2>1. CASE j = n
      BY <1>3, <2>1
    <2>2. CASE j # n
      <3>1. j < n /\ j + 1 \in 1..n
        BY <1>4, <2>2
      <3> QED
        BY <1>3, <3>1 DEF Climbs
    <2> QED
      BY <2>1, <2>2
  <1> QED
    BY <1>1, <1>3, <1>4 DEF Climbs

LEMMA KnownNext ==
    ASSUME NEW k, NEW A, Way(A, k), None \notin DOMAIN models,
           NEW w \in Walks(k), NEW n \in Nat, Known(A, w, n)
    PROVE  Known(A, Calls!Follow(models, w), n + 1)
  <1>1. A[n + 1] = Parent(A[n])
    BY DEF Way
  <1>2. CASE AtTop(A, w, n)
    <2>1. Calls!Follow(models, w) = w
      BY <1>2 DEF Calls!Follow, AtTop
    <2>2. \A m \in 1..n : m \in 1..(n + 1)
      OBVIOUS
    <2>3. AtTop(A, w, n + 1)
      BY <1>2, <2>2 DEF AtTop
    <2> QED
      BY <2>1, <2>3 DEF Known
  <1>3. CASE w.status = "error" /\ Astray(A, n)
    <2>1. Calls!Follow(models, w) = w
      BY <1>3 DEF Calls!Follow
    <2>2. \A m \in Nat : m < n => m < n + 1
      OBVIOUS
    <2>3. Astray(A, n + 1)
      BY <1>3, <2>2 DEF Astray
    <2> QED
      BY <1>3, <2>1, <2>3 DEF Known
  <1>4. CASE Climbing(A, w, n)
    <2>0. w.status = "walk" /\ w.at = A[n] /\ A[n] # None
      BY <1>4 DEF Climbing
    <2>1. CASE A[n] \notin DOMAIN models
      <3>1. Calls!Follow(models, w).status = "error"
        BY <2>0, <2>1 DEF Calls!Follow, Walks
      <3>2. n < n + 1
        OBVIOUS
      <3>3. Astray(A, n + 1)
        BY <2>0, <2>1, <3>2 DEF Astray
      <3> QED
        BY <3>1, <3>3 DEF Known
    <2>2. CASE A[n] \in DOMAIN models
      <3>1. PICK c : c = models[A[n]]
        OBVIOUS
      <3>2. PICK s : s = Append(w.chain, c)
        OBVIOUS
      <3>3. Climbs(A, s, n + 1)
        BY <1>4, <2>2, <3>1, <3>2, ClimbsOn DEF Climbing
      <3>4. A[n + 1] = c.extend
        BY <1>1, <2>0, <2>2, <3>1 DEF Parent
      <3>5. PICK z : z = Calls!Follow(models, w)
        OBVIOUS
      <3>6. z = IF c.extend = None THEN [w EXCEPT !.chain = s, !.status = "ok"]
                ELSE IF c.extend \in w.visited THEN [w EXCEPT !.chain = s, !.status = "error"]
                ELSE [w EXCEPT !.chain = s, !.at = c.extend,
                               !.visited = w.visited \union {c.extend}]
        BY <2>0, <2>2, <3>1, <3>2, <3>5 DEF Calls!Follow, Walks
      <3>7. CASE c.extend = None
        <4>1. z.status = "ok" /\ z.chain = s
          BY <3>6, <3>7 DEF Walks
        <4>2. n + 1 \in 1..(n + 1)
          OBVIOUS
        <4>3. AtTop(A, z, n + 1)
          BY <3>3, <3>4, <3>7, <4>1, <4>2 DEF AtTop
        <4> QED
          BY <3>5, <4>3 DEF Known
      <3>8. CASE c.extend # None /\ c.extend \in w.visited
        <4>1. z.status = "error"
          BY <3>6, <3>8 DEF Walks
        <4>2. PICK j \in Nat : j <= n /\ c.extend = A[j]
          BY <1>4, <3>8 DEF Climbing
        <4>3. \A i \in Nat : i <= n => A[i] \in DOMAIN models
          <5>1. \A i \in Nat : i < n => A[i] \in DOMAIN models
            BY <1>4 DEF Climbing, Climbs
          <5>2. \A i \in Nat : i <= n => i < n \/ i = n
            OBVIOUS
          <5> QED
            BY <2>2, <5>1, <5>2
        <4>4. n < n + 1
          OBVIOUS
        <4>5. Astray(A, n + 1)
          BY <2>0, <3>4, <4>2, <4>3, <4>4 DEF Astray
        <4> QED
          BY <3>5, <4>1, <4>5 DEF Known
      <3>9. CASE c.extend # None /\ c.extend \notin w.visited
        <4>1. /\ z.status = "walk" /\ z.chain = s /\ z.at = c.extend
              /\ z.visited = w.visited \union {c.extend}
          BY <2>0, <3>6, <3>9 DEF Walks
        <4>2. IsFiniteSet(w.visited) /\ Cardinality(w.visited) = n + 1
          BY <1>4 DEF Climbing
        <4>3. IsFiniteSet(z.visited) /\ Cardinality(z.visited) = (n + 1) + 1
          <5>1. /\ IsFiniteSet(w.visited \union {c.extend})
                /\ Cardinality(w.visited \union {c.extend}) = Cardinality(w.visited) + 1
            BY <3>9, <4>2, FS_AddElement
          <5> QED
            BY <4>1, <4>2, <5>1
        <4>4. ASSUME NEW v
              PROVE  v \in z.visited <=> \E j \in Nat : j <= n + 1 /\ v = A[j]
          <5>1. v \in w.visited <=> \E j \in Nat : j <= n /\ v = A[j]
            BY <1>4 DEF Climbing
          <5>2. \A j \in Nat : j <= n + 1 <=> j <= n \/ j = n + 1
            OBVIOUS
          <5> QED
            BY <3>4, <4>1, <5>1, <5>2
        <4>5. Climbing(A, z, n + 1)
          BY <3>3, <3>4, <3>9, <4>1, <4>3, <4>4 DEF Climbing
        <4> QED
          BY <3>5, <4>5 DEF Known
      <3> QED
        BY <3>7, <3>8, <3>9
    <2> QED
      BY <2>1, <2>2
  <1> QED
    BY <1>2, <1>3, <1>4 DEF Known

\* The loop ends within its turns: at the top, or astray.
LEMMA WalkEnds ==
    ASSUME NEW k, k \in DOMAIN models, NEW A, Way(A, k),
           IsFiniteSet(DOMAIN models), None \notin DOMAIN models
    PROVE  LET w == Calls!Walk(models, k)
           IN  AtTop(A, w, Turns) \/ (w.status = "error" /\ Astray(A, Turns))
  <1>1. PICK n \in Nat : n = Turns
    BY WalkRuns
  <1>2. PICK g \in [0..n -> Walks(k)] :
            /\ g[0] = AtStart(k) /\ Calls!Walk(models, k) = g[n]
            /\ \A i \in 1..n : g[i] = Calls!Follow(models, g[i - 1])
    BY <1>1, WalkRuns
  <1> DEFINE T == {i \in 0..n : Known(A, g[i], i)}
  <1>3. 0 \in T
    <2>1. g[0].chain = <<>> /\ g[0].at = k /\ g[0].visited = {k} /\ g[0].status = "walk"
      BY <1>2 DEF AtStart
    <2>2. Climbs(A, <<>>, 0)
      BY DEF Climbs
    <2>3. IsFiniteSet({k}) /\ Cardinality({k}) = 0 + 1
      <3>1. IsFiniteSet({k}) /\ Cardinality({k}) = 1
        BY FS_Singleton, Zenon
      <3>2. 0 + 1 = 1
        OBVIOUS
      <3> QED
        BY <3>1, <3>2
    <2>4. A[0] = k /\ k # None
      BY DEF Way
    <2>5. \A v : v \in {k} <=> \E j \in Nat : j <= 0 /\ v = A[j]
      BY <2>4
    <2>6. Climbing(A, g[0], 0)
      BY <2>1, <2>2, <2>3, <2>4, <2>5 DEF Climbing
    <2> QED
      BY <2>6 DEF Known
  <1>4. ASSUME NEW i \in (0 + 1)..n, i - 1 \in T
        PROVE  i \in T
    <2>1. i - 1 \in Nat /\ i - 1 \in 0..n /\ i \in 0..n /\ (i - 1) + 1 = i /\ i \in 1..n
      OBVIOUS
    <2>2. PICK j \in Nat : j = i - 1
      BY <2>1
    <2>3. PICK w \in Walks(k) : w = g[j]
      BY <1>2, <2>1, <2>2
    <2>4. Known(A, w, j)
      BY <1>4, <2>2, <2>3
    <2>5. Known(A, Calls!Follow(models, w), j + 1)
      BY <2>4, KnownNext
    <2>6. g[i] = Calls!Follow(models, w) /\ i = j + 1
      BY <1>2, <2>1, <2>2, <2>3
    <2> QED
      BY <2>1, <2>5, <2>6
  <1> HIDE DEF T
  <1>5. \A i \in 0..n : i \in T
    <2>1. 0 \in Nat
      OBVIOUS
    <2> QED
      BY <1>3, <1>4, <2>1, Upwards
  <1>6. Known(A, g[n], n)
    BY <1>5 DEF T
  <1>7. ~Climbing(A, g[n], n)
    <2> SUFFICES ASSUME Climbing(A, g[n], n)
                 PROVE  FALSE
      OBVIOUS
    <2>1. PICK V : V = g[n].visited
      OBVIOUS
    <2>2. PICK D : D = DOMAIN models \union {A[n]}
      OBVIOUS
    <2>3. IsFiniteSet(V) /\ Cardinality(V) = n + 1
      BY <2>1 DEF Climbing
    <2>4. V \in SUBSET D
      <3> SUFFICES ASSUME NEW v \in V
                   PROVE  v \in D
        OBVIOUS
      <3>1. PICK j \in Nat : j <= n /\ v = A[j]
        BY <2>1 DEF Climbing
      <3>2. CASE j < n
        BY <2>2, <3>1, <3>2 DEF Climbing, Climbs
      <3>3. CASE j = n
        BY <2>2, <3>1, <3>3
      <3> QED
        BY <3>1, <3>2, <3>3
    <2>5. IsFiniteSet(D) /\ Cardinality(DOMAIN models) \in Nat
      BY <2>2, FS_AddElement, FS_CardinalityType
    <2>6. Cardinality(D) \in {Cardinality(DOMAIN models), Cardinality(DOMAIN models) + 1}
      BY <2>2, FS_AddElement
    <2>7. Cardinality(V) <= Cardinality(D)
      BY <2>4, <2>5, FS_Subset
    <2>8. n = Cardinality(DOMAIN models) + 1
      BY <1>1, SameCardinality DEF Turns
    <2> QED
      BY <2>3, <2>5, <2>6, <2>7, <2>8
  <1> QED
    BY <1>1, <1>2, <1>6, <1>7 DEF Known

\* Every entry has the fields of a plain one.
Fields == DOMAIN Plain(None)
Filled == \A j \in DOMAIN models : DOMAIN models[j] = Fields
Values == {models[j][f] : j \in DOMAIN models, f \in Fields}
Configs == Entries \union [Fields -> Values]

LEMMA FieldsAre ==
    Fields = {"provider", "key", "model", "extend", "fallbacks", "settings"}
        /\ Calls!Inherited = {"provider", "key", "fallbacks", "settings"}
  BY DEF Fields, Plain, Calls!Inherited

LEMMA ConfigFacts ==
    ASSUME Filled, NEW c \in Configs
    PROVE  DOMAIN c = Fields /\ \A f \in Fields : c[f] \in Values
  BY DEF Filled, Configs, Entries, Values

LEMMA MergeIs ==
    ASSUME Filled, NEW p \in Configs, NEW c \in Entries
    PROVE  /\ Calls!Merge(p, c) \in Configs
           /\ DOMAIN Calls!Merge(p, c) = Fields
           /\ Calls!Merge(p, c).model = c.model
           /\ \A f \in Calls!Inherited :
                 Calls!Merge(p, c)[f] = IF c[f] # None THEN c[f] ELSE p[f]
  <1>1. DOMAIN p = Fields /\ \A f \in Fields : p[f] \in Values /\ c[f] \in Values
    BY ConfigFacts DEF Configs
  <1>2. PICK r : r = Calls!Merge(p, c)
    OBVIOUS
  <1>3. r = [f \in Fields |-> IF f = "model" THEN c.model
                              ELSE IF f \in Calls!Inherited /\ c[f] # None THEN c[f]
                              ELSE p[f]]
    BY <1>1, <1>2 DEF Calls!Merge
  <1>4. "model" \in Fields /\ c.model \in Values /\ "model" \notin Calls!Inherited
    BY <1>1, FieldsAre
  <1>5. \A f \in Calls!Inherited : f \in Fields
    BY FieldsAre
  <1>6. r \in [Fields -> Values]
    BY <1>1, <1>3, <1>4
  <1> QED
    BY <1>2, <1>3, <1>4, <1>5, <1>6 DEF Configs

\* x is what the first of the keys from i on that sets f says of it.
FirstSet(A, f, i, m, x) ==
    \/ x = None /\ \A j \in Nat : i <= j /\ j < m => models[A[j]][f] = None
    \/ \E j \in Nat :
          /\ i <= j /\ j < m /\ x = models[A[j]][f] /\ x # None
          /\ \A l \in Nat : i <= l /\ l < j => models[A[l]][f] = None

LEMMA FirstSetNext ==
    ASSUME NEW A, NEW f, NEW i \in Nat, NEW m \in Nat, i < m, NEW x, NEW y,
           FirstSet(A, f, i + 1, m, x),
           y = IF models[A[i]][f] # None THEN models[A[i]][f] ELSE x
    PROVE  FirstSet(A, f, i, m, y)
  <1>1. CASE models[A[i]][f] # None
    <2>1. i <= i /\ \A l \in Nat : ~(i <= l /\ l < i)
      OBVIOUS
    <2> QED
      BY <1>1, <2>1 DEF FirstSet
  <1>2. CASE models[A[i]][f] = None
    <2>1. y = x
      BY <1>2
    <2>2. \A j \in Nat : i <= j => j = i \/ i + 1 <= j
      OBVIOUS
    <2>3. CASE x = None /\ \A j \in Nat : i + 1 <= j /\ j < m => models[A[j]][f] = None
      BY <1>2, <2>1, <2>2, <2>3 DEF FirstSet
    <2>4. CASE \E j \in Nat :
                  /\ i + 1 <= j /\ j < m /\ x = models[A[j]][f] /\ x # None
                  /\ \A l \in Nat : i + 1 <= l /\ l < j => models[A[l]][f] = None
      <3>1. PICK j \in Nat :
                  /\ i + 1 <= j /\ j < m /\ x = models[A[j]][f] /\ x # None
                  /\ \A l \in Nat : i + 1 <= l /\ l < j => models[A[l]][f] = None
        BY <2>4
      <3>2. i <= j
        BY <3>1
      <3>3. \A l \in Nat : i <= l /\ l < j => models[A[l]][f] = None
        BY <1>2, <2>2, <3>1
      <3> QED
        BY <2>1, <3>1, <3>2, <3>3 DEF FirstSet
    <2> QED
      BY <2>3, <2>4 DEF FirstSet
  <1> QED
    BY <1>1, <1>2

\* What merging gives of a way that ends.
LEMMA MergedIs ==
    ASSUME Filled, NEW k, NEW A, NEW w, w = Calls!Walk(models, k), w.status = "ok",
           NEW m \in Nat, 1 <= m, Climbs(A, w.chain, m)
    PROVE  /\ DOMAIN Calls!ResolveModelConfig(models, k) = Fields
           /\ Calls!ResolveModelConfig(models, k).model = models[A[0]].model
           /\ \A f \in Calls!Inherited :
                 FirstSet(A, f, 0, m, Calls!ResolveModelConfig(models, k)[f])
  <1>1. PICK c : c = Calls!Reverse(w.chain)
    OBVIOUS
  <1>2. c \in Seq(Entries) /\ Len(c) = m /\ DOMAIN c = 1..m
    <2>1. w.chain \in Seq(Entries) /\ Len(w.chain) = m
      BY DEF Climbs
    <2>2. c = [i \in 1..m |-> w.chain[(m - i) + 1]]
      BY <1>1, <2>1 DEF Calls!Reverse
    <2>3. \A i \in 1..m : (m - i) + 1 \in 1..m
      OBVIOUS
    <2>4. \A i \in 1..m : w.chain[(m - i) + 1] \in Entries
      BY <2>1, <2>3, ElementOfSeq
    <2> QED
      BY <2>2, <2>4
  <1>3. \A i \in 1..m : c[i] = models[A[m - i]] /\ A[m - i] \in DOMAIN models /\ c[i] \in Entries
    <2> SUFFICES ASSUME NEW i \in 1..m
                 PROVE  c[i] = models[A[m - i]] /\ A[m - i] \in DOMAIN models /\ c[i] \in Entries
      OBVIOUS
    <2>1. m - i \in Nat /\ m - i < m
      OBVIOUS
    <2>2. A[m - i] \in DOMAIN models /\ w.chain[(m - i) + 1] = models[A[m - i]]
      BY <2>1 DEF Climbs
    <2>3. Len(w.chain) = m
      BY DEF Climbs
    <2>4. c[i] = w.chain[(m - i) + 1]
      BY <1>1, <2>3 DEF Calls!Reverse
    <2> QED
      BY <2>2, <2>4 DEF Entries
  <1> DEFINE Told(f) == [n \in 1..Len(c) |-> IF n = 1 THEN c[1] ELSE Calls!Merge(f[n - 1], c[n])]
             merged == CHOOSE f : f = Told(f)
  <1>4. Calls!ResolveModelConfig(models, k) = merged[Len(c)]
    BY <1>1 DEF Calls!ResolveModelConfig
  <1> DEFINE F == [n \in Nat |-> [p \in Configs |-> Calls!Merge(p, c[n])]]
  <1>5. \A i \in (1 + 1)..m : \A v \in Configs : F[i][v] \in Configs
    BY <1>3, MergeIs
  <1>6. c[1] \in Configs /\ 1 \in Nat
    BY <1>3 DEF Configs
  <1>7. PICK g \in [1..m -> Configs] : Runs(g, 1, m, c[1], F)
    <2> HIDE DEF F
    <2> QED
      BY <1>5, <1>6, Recursion
  <1>8. ASSUME NEW i \in (1 + 1)..m
        PROVE  g[i] = Calls!Merge(g[i - 1], c[i])
    <2>1. i - 1 \in 1..m /\ i \in Nat
      OBVIOUS
    <2>2. g[i] = F[i][g[i - 1]] /\ g[i - 1] \in Configs
      BY <1>7, <2>1 DEF Runs
    <2> QED
      BY <2>1, <2>2
  <1>9. g = Told(g)
    <2>1. \A i \in 1..m : i = 1 \/ i \in (1 + 1)..m
      OBVIOUS
    <2>2. g[1] = c[1]
      BY <1>7 DEF Runs
    <2> QED
      BY <1>2, <1>7, <1>8, <2>1, <2>2
  <1>10. merged = Told(merged)
    <2> HIDE DEF Told
    <2> QED
      BY <1>9, Zenon
  <1> HIDE DEF merged, F
  <1>11. merged[1] = c[1] /\ \A i \in (1 + 1)..m : merged[i] = Calls!Merge(merged[i - 1], c[i])
    <2>1. merged = [n \in 1..m |-> IF n = 1 THEN c[1] ELSE Calls!Merge(merged[n - 1], c[n])]
      BY <1>2, <1>10
    <2>2. 1 \in 1..m /\ \A i \in (1 + 1)..m : i \in 1..m /\ i # 1
      OBVIOUS
    <2> QED
      BY <2>1, <2>2
  <1> HIDE DEF Told
  <1> DEFINE Good(r, i) == /\ r \in Configs /\ r.model = models[A[m - i]].model
                           /\ \A f \in Calls!Inherited : FirstSet(A, f, m - i, m, r[f])
             T == {i \in 1..m : Good(merged[i], i)}
  <1>12. 1 \in T
    <2>1. \A f \in Calls!Inherited : FirstSet(A, f, m - 1, m, c[1][f])
      <3> SUFFICES ASSUME NEW f \in Calls!Inherited
                   PROVE  FirstSet(A, f, m - 1, m, c[1][f])
        OBVIOUS
      <3>1. m - 1 \in Nat /\ m - 1 <= m - 1 /\ m - 1 < m
            /\ (\A l \in Nat : ~(m - 1 <= l /\ l < m - 1))
            /\ (\A l \in Nat : m - 1 <= l /\ l < m => l = m - 1)
        OBVIOUS
      <3>2. c[1][f] = models[A[m - 1]][f]
        BY <1>3
      <3> QED
        BY <3>1, <3>2 DEF FirstSet
    <2>2. c[1].model = models[A[m - 1]].model
      BY <1>3
    <2> QED
      BY <1>6, <1>11, <2>1, <2>2
  <1>13. ASSUME NEW i \in (1 + 1)..m, i - 1 \in T
         PROVE  i \in T
    <2>1. PICK p \in Configs : p = merged[i - 1]
      BY <1>13
    <2>2. PICK e \in Entries : e = c[i]
      BY <1>3
    <2>3. PICK r : r = Calls!Merge(p, e)
      OBVIOUS
    <2>4. merged[i] = r
      BY <1>11, <2>1, <2>2, <2>3
    <2>5. /\ r \in Configs /\ r.model = e.model
          /\ \A f \in Calls!Inherited : r[f] = IF e[f] # None THEN e[f] ELSE p[f]
      BY <2>3, MergeIs
    <2>6. PICK j \in Nat : j = m - i /\ j < m /\ j + 1 = m - (i - 1) /\ i \in 1..m
      OBVIOUS
    <2>7. e = models[A[j]]
      BY <1>3, <2>2, <2>6
    <2>8. \A f \in Calls!Inherited : FirstSet(A, f, j + 1, m, p[f])
      BY <1>13, <2>1, <2>6
    <2>9. \A f \in Calls!Inherited : FirstSet(A, f, j, m, r[f])
      BY <2>5, <2>6, <2>7, <2>8, FirstSetNext
    <2> QED
      BY <2>4, <2>5, <2>6, <2>7, <2>9
  <1> HIDE DEF T
  <1>14. \A i \in 1..m : i \in T
    BY <1>12, <1>13, <1>6, Upwards
  <1>15. Good(merged[m], m) /\ m - m = 0
    BY <1>14 DEF T
  <1> QED
    BY <1>2, <1>4, <1>15, ConfigFacts

TableInv == IsFiniteSet(DOMAIN models) /\ None \notin DOMAIN models /\ Filled

\* Beyond the top there is nothing.
LEMMA BeyondTop ==
    ASSUME NEW A, NEW k, Way(A, k), NEW m \in Nat, A[m] = None
    PROVE  \A n \in Nat : m <= n => A[n] = None
  <1> SUFFICES ASSUME NEW n \in Nat, m <= n
               PROVE  A[n] = None
    OBVIOUS
  <1> DEFINE T == {i \in m..n : A[i] = None}
  <1>1. m \in T
    OBVIOUS
  <1>2. ASSUME NEW i \in (m + 1)..n, i - 1 \in T
        PROVE  i \in T
    <2>1. i - 1 \in Nat /\ (i - 1) + 1 = i /\ i \in m..n
      OBVIOUS
    <2>2. A[i] = Parent(A[i - 1])
      BY <2>1 DEF Way
    <2> QED
      BY <1>2, <2>1, <2>2 DEF Parent
  <1> HIDE DEF T
  <1>3. \A i \in m..n : i \in T
    BY <1>1, <1>2, Upwards
  <1> QED
    BY <1>3 DEF T

\* A way that comes back to itself has no end.
LEMMA NoEnd ==
    ASSUME NEW A, NEW k, Way(A, k), NEW m \in Nat, NEW i \in Nat, i <= m, A[m + 1] = A[i],
           \A j \in Nat : j <= m => A[j] \in DOMAIN models, None \notin DOMAIN models
    PROVE  \A n \in Nat : A[n] # None
  <1> SUFFICES ASSUME NEW n \in Nat
               PROVE  A[n] # None
    OBVIOUS
  <1> DEFINE T == {j \in 0..n : \E l \in Nat : l <= m /\ A[j] = A[l]}
  <1>1. 0 \in T
    <2>1. 0 \in Nat /\ 0 <= m
      OBVIOUS
    <2> QED
      BY <2>1
  <1>2. ASSUME NEW j \in (0 + 1)..n, j - 1 \in T
        PROVE  j \in T
    <2>1. PICK l \in Nat : l <= m /\ A[j - 1] = A[l]
      BY <1>2
    <2>2. j - 1 \in Nat /\ (j - 1) + 1 = j /\ j \in 0..n
      OBVIOUS
    <2>3. A[j] = A[l + 1]
      BY <2>1, <2>2 DEF Way
    <2>4. CASE l = m
      BY <2>2, <2>3, <2>4
    <2>5. CASE l # m
      <3>1. l + 1 \in Nat /\ l + 1 <= m
        BY <2>1, <2>5
      <3> QED
        BY <2>2, <2>3, <3>1
    <2> QED
      BY <2>4, <2>5
  <1> HIDE DEF T
  <1>3. 0 \in Nat /\ n \in 0..n
    OBVIOUS
  <1>4. n \in T
    BY <1>1, <1>2, <1>3, Upwards
  <1>5. PICK l \in Nat : l <= m /\ A[n] = A[l]
    BY <1>4 DEF T
  <1> QED
    BY <1>5

LEMMA NearestHolds == TableInv => ResolveIsNearest
  <1> SUFFICES ASSUME TableInv, NEW k \in DOMAIN models
               PROVE  LET far == Calls!Cardinality(DOMAIN models) + 1
                          line == {n \in 0..far : Calls!Ancestor(k, n) # None}
                          ends == Calls!Ancestor(k, far) = None
                                  /\ \A n \in line : Calls!Ancestor(k, n) \in DOMAIN models
                          setters(f) == {n \in line : models[Calls!Ancestor(k, n)][f] # None}
                          r == Calls!ResolveModelConfig(models, k)
                      IN  IF ends
                          THEN /\ DOMAIN r = DOMAIN models[k]
                               /\ r.model = models[k].model
                               /\ \A f \in Calls!Inherited :
                                     r[f] = IF setters(f) = {} THEN None
                                            ELSE models[Calls!Ancestor(k, Calls!Min(setters(f)))][f]
                          ELSE r = None
    BY Zenon DEF ResolveIsNearest, Calls!ResolveIsNearest
  <1> DEFINE A == [n \in Nat |-> Calls!Ancestor(k, n)]
             line == {n \in 0..Turns : Calls!Ancestor(k, n) # None}
             ends == /\ Calls!Ancestor(k, Turns) = None
                     /\ \A n \in line : Calls!Ancestor(k, n) \in DOMAIN models
             setters(f) == {n \in line : models[Calls!Ancestor(k, n)][f] # None}
  <1>1. PICK r : r = Calls!ResolveModelConfig(models, k)
    OBVIOUS
  <1>2. PICK w : w = Calls!Walk(models, k)
    OBVIOUS
  <1> SUFFICES /\ ends => /\ DOMAIN r = DOMAIN models[k]
                          /\ r.model = models[k].model
                          /\ \A f \in Calls!Inherited :
                                r[f] = IF setters(f) = {} THEN None
                                       ELSE models[Calls!Ancestor(k, Calls!Min(setters(f)))][f]
               /\ ~ends => r = None
    BY <1>1, Zenon DEF Turns
  <1>3. /\ IsFiniteSet(DOMAIN models) /\ None \notin DOMAIN models /\ Filled
    BY DEF TableInv
  <1>4. Way(A, k) /\ \A n \in Nat : A[n] = Calls!Ancestor(k, n)
    BY AncestorIs DEF Way
  <1> HIDE DEF A
  <1>5. Turns \in Nat
    BY <1>3, WalkRuns
  <1>6. AtTop(A, w, Turns) \/ (w.status = "error" /\ Astray(A, Turns))
    BY <1>2, <1>3, <1>4, WalkEnds
  <1>7. CASE w.status = "error" /\ Astray(A, Turns)
    <2>1. r = None
      BY <1>1, <1>2, <1>7 DEF Calls!ResolveModelConfig
    <2>2. ~ends
      <3> SUFFICES ASSUME ends
                   PROVE  FALSE
        OBVIOUS
      <3>1. PICK m \in Nat :
                /\ m < Turns /\ A[m] # None
                /\ \/ A[m] \notin DOMAIN models
                   \/ /\ \A j \in Nat : j <= m => A[j] \in DOMAIN models
                      /\ \E j \in Nat : j <= m /\ A[m + 1] = A[j]
        BY <1>7 DEF Astray
      <3>2. m \in 0..Turns
        BY <1>5, <3>1
      <3>3. m \in line
        BY <1>4, <3>1, <3>2
      <3>4. A[m] \in DOMAIN models
        BY <1>4, <3>3
      <3>5. \A n \in Nat : A[n] # None
        BY <1>3, <1>4, <3>1, <3>4, NoEnd
      <3> QED
        BY <1>4, <1>5, <3>5
    <2> QED
      BY <2>1, <2>2
  <1>8. CASE AtTop(A, w, Turns)
    <2>1. PICK m \in 1..Turns : Climbs(A, w.chain, m) /\ A[m] = None
      BY <1>8 DEF AtTop
    <2>2. m \in Nat /\ 1 <= m /\ m <= Turns
      BY <1>5, <2>1
    <2>3. w.status = "ok"
      BY <1>8 DEF AtTop
    <2>4. /\ DOMAIN r = Fields
          /\ r.model = models[A[0]].model
          /\ \A f \in Calls!Inherited : FirstSet(A, f, 0, m, r[f])
      BY <1>1, <1>2, <1>3, <2>1, <2>2, <2>3, MergedIs
    <2>5. A[0] = k
      BY <1>4 DEF Way
    <2>6. \A n \in Nat : m <= n => A[n] = None
      BY <1>4, <2>1, <2>2, BeyondTop
    <2>7. \A n \in Nat : n < m => A[n] \in DOMAIN models
      BY <2>1 DEF Climbs
    <2>8. \A n : n \in line <=> n \in Nat /\ n < m
      <3> SUFFICES ASSUME NEW n
                   PROVE  n \in line <=> n \in Nat /\ n < m
        OBVIOUS
      <3>1. CASE n \in Nat
        <4>1. n < m \/ m <= n
          BY <2>2, <3>1
        <4>2. n < m => n \in 0..Turns
          BY <1>5, <2>2, <3>1
        <4> QED
          BY <1>3, <1>4, <2>6, <2>7, <3>1, <4>1, <4>2
      <3>2. CASE n \notin Nat
        BY <1>5, <3>2
      <3> QED
        BY <3>1, <3>2
    <2>9. ends
      BY <1>4, <1>5, <2>2, <2>6, <2>7, <2>8
    <2>10. ASSUME NEW f \in Calls!Inherited
           PROVE  r[f] = IF setters(f) = {} THEN None
                         ELSE models[Calls!Ancestor(k, Calls!Min(setters(f)))][f]
      <3>1. PICK S : S = setters(f)
        OBVIOUS
      <3>2. \A n : n \in S <=> n \in Nat /\ n < m /\ models[A[n]][f] # None
        BY <1>4, <2>8, <3>1
      <3>3. FirstSet(A, f, 0, m, r[f])
        BY <2>4
      <3>4. CASE r[f] = None /\ \A j \in Nat : 0 <= j /\ j < m => models[A[j]][f] = None
        <4>1. S = {}
          BY <3>2, <3>4
        <4> QED
          BY <3>1, <3>4, <4>1
      <3>5. CASE \E j \in Nat :
                    /\ 0 <= j /\ j < m /\ r[f] = models[A[j]][f] /\ r[f] # None
                    /\ \A l \in Nat : 0 <= l /\ l < j => models[A[l]][f] = None
        <4>1. PICK j \in Nat :
                    /\ 0 <= j /\ j < m /\ r[f] = models[A[j]][f] /\ r[f] # None
                    /\ \A l \in Nat : 0 <= l /\ l < j => models[A[l]][f] = None
          BY <3>5
        <4>2. j \in S /\ \A l \in S : j <= l
          BY <3>2, <4>1
        <4>3. \A x \in S : (\A y \in S : x <= y) => x = j
          BY <3>2, <4>1, <4>2
        <4>4. Calls!Min(S) = CHOOSE x \in S : \A y \in S : x <= y
          BY DEF Calls!Min
        <4>5. Calls!Min(S) = j
          BY <4>2, <4>3, <4>4, Zenon
        <4>6. S # {}
          BY <4>2
        <4> QED
          BY <1>4, <3>1, <4>1, <4>5, <4>6
      <3> QED
        BY <3>3, <3>4, <3>5 DEF FirstSet
    <2> QED
      BY <1>3, <2>4, <2>5, <2>9, <2>10 DEF Filled
  <1> QED
    BY <1>6, <1>7, <1>8

\* No step changes the table.
LEMMA TableKept ==
    ASSUME TableInv, [Calls!Next]_(Calls!vars)
    PROVE  TableInv'
  <1>1. models' = models
    <2>1. CASE UNCHANGED Calls!vars
      BY <2>1 DEF Calls!vars, Calls!call
    <2>2. CASE \/ Calls!SkipCandidate \/ Calls!AskCandidate \/ Calls!Exhausted
               \/ Calls!CallFails \/ Calls!RefusalUnnoticed
      BY <2>2 DEF Calls!SkipCandidate, Calls!AskCandidate, Calls!Exhausted, Calls!CallFails,
                  Calls!RefusalUnnoticed, Calls!call
    <2>3. CASE \/ Calls!OpenAIReplies \/ Calls!AnthropicReplies \/ Calls!OllamaReplies
               \/ Calls!CliReplies \/ Calls!SummaryReplies
      BY <2>3 DEF Calls!OpenAIReplies, Calls!AnthropicReplies, Calls!OllamaReplies,
                  Calls!CliReplies, Calls!SummaryReplies, Calls!Replies, Calls!call
    <2>4. CASE \/ Calls!StreamStarts \/ Calls!ChunkEndsInside \/ Calls!EventArrives
               \/ Calls!StreamBreaks \/ Calls!StreamEnds
      BY <2>4 DEF Calls!StreamStarts, Calls!ChunkEndsInside, Calls!EventArrives,
                  Calls!StreamBreaks, Calls!StreamEnds, Calls!call
    <2>5. CASE Calls!Done
      BY <2>1, <2>5 DEF Calls!Done
    <2> QED
      BY <2>1, <2>2, <2>3, <2>4, <2>5 DEF Calls!Next
  <1> QED
    BY <1>1 DEF TableInv, Filled, Fields

\* What a name stands for: with any finite [models] table, of any shape, each setting of
\* a model is that of the nearest of its ancestors that has one, its wire name is its
\* own, and a model whose line of "extend"s does not end in the table is an error rather
\* than a model (resolve_model_config).
THEOREM SettingsAreNearest == Calls!Spec => []ResolveIsNearest
  <1>1. Calls!Init => TableInv
    BY TablesAssumption DEF Calls!Init, TableInv, Filled, Fields, Plain, Calls!Plain
  <1>2. Calls!Spec => []TableInv
    BY <1>1, TableKept, PTL DEF Calls!Spec
  <1> QED
    BY <1>2, NearestHolds, PTL

-----------------------------------------------------------------------------
(* Streams: a whole answer has what the model said.                        *)

Piece == Nat \ {0}

\* What a model can have said.
Sayable(s) ==
    /\ s \in [text : Seq(Piece), calls : {s.calls}, pieces : Nat,
              open : Calls!CallIds \union {None}, from : Nat, msgs : Nat, ended : BOOLEAN]
    /\ DOMAIN s.calls \subseteq Calls!CallIds
    /\ s.calls \in [DOMAIN s.calls -> Seq(Piece)]
    /\ s.open # None => s.open \in DOMAIN s.calls
    /\ s.msgs = 0 => s.text = <<>>
    /\ s.msgs <= 1 => s.from = 0

\* The list of calls is the calls that were said, whole and in the order of their index.
SameCalls(list, spoken) ==
    LET given == IF list = None THEN <<>> ELSE list
    IN  /\ {given[i].id : i \in DOMAIN given} = DOMAIN spoken
        /\ \A i \in DOMAIN given : Calls!Plainly(given[i].args) = spoken[given[i].id]
        /\ \A i, j \in DOMAIN given : i < j => given[i].id < given[j].id

\* What the consumer has of s.
Gathered(s) ==
    /\ full = [text |-> full.text, calls |-> full.calls, done |-> full.done]
    /\ full.done = s.ended
    /\ s.msgs <= 1 => full.text \in Seq(Int) /\ Calls!Plainly(full.text) = s.text
    /\ IF full.done THEN SameCalls(full.calls, s.calls) ELSE full.calls = None

\* What the provider has of s: OpenAI's calls by index,
ByIndex(s) ==
    /\ DOMAIN builder.pending = DOMAIN s.calls
    /\ \A c \in DOMAIN s.calls :
          /\ builder.pending[c] \in [named : {TRUE}, args : Seq(Int)]
          /\ Calls!Plainly(builder.pending[c].args) = s.calls[c]

\* Anthropic's finished calls, and the one under way,
ByBlock(s) ==
    /\ builder.done \in Seq([id : Nat, args : Seq(Int)])
    /\ \A i \in DOMAIN builder.done :
          /\ builder.done[i].id = i - 1
          /\ Calls!Plainly(builder.done[i].args) = s.calls[i - 1]
    /\ builder.current = s.open
    /\ IF s.open = None
       THEN DOMAIN s.calls = 0..(Len(builder.done) - 1)
       ELSE /\ s.open = Len(builder.done)
            /\ DOMAIN s.calls = 0..Len(builder.done)
            /\ builder.input \in Seq(Int)
            /\ Calls!Plainly(builder.input) = s.calls[s.open]

\* and how much of its text the Claude CLI has passed on.
ByLength(s) ==
    /\ DOMAIN s.calls = {}
    /\ s.msgs <= 1 => builder.shown = Len(s.text)

Decoded(s) ==
    /\ builder = [pending |-> builder.pending, current |-> builder.current,
                  input |-> builder.input, done |-> builder.done, shown |-> builder.shown]
    /\ ~s.ended => CASE kind = "openai" -> ByIndex(s)
                     [] kind = "anthropic" -> ByBlock(s)
                     [] kind = "ollama" -> DOMAIN s.calls = {}
                     [] kind = "claude-cli" -> ByLength(s)

Heard(s) == Sayable(s) /\ Gathered(s) /\ Decoded(s)

\* Of what was said, the event of which only a part has arrived was not heard yet.
OnItsWay(s) ==
    IF buffer = None THEN said = s
    ELSE /\ kind # "claude-cli"
         /\ buffer.ev \in Calls!Events(s)
         /\ said = Calls!Say(s, buffer.ev)

WholeInv ==
    /\ callPc \in {"next", "asked"} => builder = Calls!NoBuilder /\ buffer = None
    /\ callPc = "stream" /\ ~quirk => \E s : OnItsWay(s) /\ Heard(s)
    /\ callPc = "end" => DoneMeansWhole

\* Plainly, piece by piece.
Plains(t) == [i \in Nat |-> [v \in Seq(Piece) |-> Calls!AddPiece(v, t[i])]]

LEMMA PlainlyRuns ==
    ASSUME NEW t \in Seq(Int)
    PROVE  \E g \in [0..Len(t) -> Seq(Piece)] :
              Runs(g, 0, Len(t), <<>>, Plains(t)) /\ Calls!Plainly(t) = g[Len(t)]
  <1> DEFINE Told(f) == [i \in 0..Len(t) |->
                 IF i = 0 THEN <<>> ELSE Calls!AddPiece(f[i - 1], t[i])]
             plain == CHOOSE f : f = Told(f)
  <1>1. Calls!Plainly(t) = plain[Len(t)]
    BY DEF Calls!Plainly
  <1>2. Len(t) \in Nat /\ \A i \in 1..Len(t) : t[i] \in Int
    OBVIOUS
  <1>3. PICK n \in Nat : n = Len(t)
    BY <1>2
  <1>4. \A i \in (0 + 1)..n : \A v \in Seq(Piece) : Plains(t)[i][v] \in Seq(Piece)
    <2> SUFFICES ASSUME NEW i \in (0 + 1)..n, NEW v \in Seq(Piece)
                 PROVE  Plains(t)[i][v] \in Seq(Piece)
      OBVIOUS
    <2>1. t[i] \in Int /\ i \in Nat
      BY <1>2, <1>3
    <2>2. Plains(t)[i][v] = Calls!AddPiece(v, t[i])
      BY <2>1 DEF Plains
    <2>3. t[i] # 0 => t[i] \in Piece \/ (t[i] < 0 /\ -t[i] \in Piece)
      BY <2>1 DEF Piece
    <2>4. t[i] \in Piece => ~(t[i] < 0)
      BY DEF Piece
    <2>5. (IF t[i] < 0 THEN -t[i] ELSE t[i]) \in Piece \/ t[i] = 0
      BY <2>3, <2>4
    <2> QED
      BY <2>2, <2>5 DEF Calls!AddPiece
  <1>5. <<>> \in Seq(Piece) /\ 0 \in Nat /\ 0 <= n
    OBVIOUS
  <1>6. PICK g \in [0..n -> Seq(Piece)] : Runs(g, 0, n, <<>>, Plains(t))
    BY <1>4, <1>5, Recursion
  <1>7. ASSUME NEW i \in 1..n
        PROVE  g[i] = Calls!AddPiece(g[i - 1], t[i])
    <2>1. i - 1 \in 0..n /\ i \in (0 + 1)..n /\ i \in Nat
      OBVIOUS
    <2>2. g[i] = Plains(t)[i][g[i - 1]] /\ g[i - 1] \in Seq(Piece)
      BY <1>6, <2>1 DEF Runs
    <2> QED
      BY <2>1, <2>2 DEF Plains
  <1>8. g = Told(g)
    BY <1>3, <1>6, <1>7 DEF Runs
  <1>9. plain = Told(plain)
    <2> HIDE DEF Told
    <2> QED
      BY <1>8, Zenon
  <1> HIDE DEF plain
  <1>10. plain[0] = <<>> /\ \A i \in 1..n : plain[i] = Calls!AddPiece(plain[i - 1], t[i])
    <2>1. plain = [i \in 0..n |-> IF i = 0 THEN <<>> ELSE Calls!AddPiece(plain[i - 1], t[i])]
      BY <1>3, <1>9
    <2>2. 0 \in 0..n /\ \A i \in 1..n : i \in 0..n /\ i # 0
      OBVIOUS
    <2> QED
      BY <2>1, <2>2
  <1> HIDE DEF Told
  <1>11. g[n] = plain[n]
    <2> DEFINE T == {i \in 0..n : g[i] = plain[i]}
    <2>1. 0 \in T
      BY <1>6, <1>10 DEF Runs
    <2>2. ASSUME NEW i \in (0 + 1)..n, i - 1 \in T
          PROVE  i \in T
      BY <1>7, <1>10, <2>2
    <2> HIDE DEF T
    <2>3. \A i \in 0..n : i \in T
      BY <2>1, <2>2, Upwards
    <2>4. n \in T
      BY <2>3
    <2> QED
      BY <2>4 DEF T
  <1> QED
    BY <1>1, <1>3, <1>6, <1>11

\* One more piece.
LEMMA PlainlyNext ==
    ASSUME NEW t \in Seq(Int), NEW p \in Int
    PROVE  Calls!Plainly(Append(t, p)) = Calls!AddPiece(Calls!Plainly(t), p)
  <1>1. PICK n \in Nat : n = Len(t)
    OBVIOUS
  <1>2. PICK u : u = Append(t, p)
    OBVIOUS
  <1>3. u \in Seq(Int) /\ Len(u) = n + 1 /\ u[n + 1] = p /\ \A i \in 1..n : u[i] = t[i]
    BY <1>1, <1>2
  <1>4. PICK g \in [0..n -> Seq(Piece)] :
            Runs(g, 0, n, <<>>, Plains(t)) /\ Calls!Plainly(t) = g[n]
    BY <1>1, PlainlyRuns
  <1>5. PICK h \in [0..(n + 1) -> Seq(Piece)] :
            Runs(h, 0, n + 1, <<>>, Plains(u)) /\ Calls!Plainly(u) = h[n + 1]
    BY <1>3, PlainlyRuns
  <1>6. ASSUME NEW i \in (0 + 1)..n, g[i - 1] = h[i - 1]
        PROVE  g[i] = h[i]
    <2>1. g[i] = Plains(t)[i][g[i - 1]]
      BY <1>4 DEF Runs
    <2>2. i \in (0 + 1)..(n + 1) /\ i \in Nat /\ i \in 1..n
      OBVIOUS
    <2>3. h[i] = Plains(u)[i][h[i - 1]]
      BY <1>5, <2>2 DEF Runs
    <2>4. Plains(u)[i] = Plains(t)[i]
      BY <1>3, <2>2 DEF Plains
    <2> QED
      BY <1>6, <2>1, <2>3, <2>4
  <1>8. n \in 0..n
    OBVIOUS
  <1>9. \A i \in 0..n : g[i] = h[i]
    <2> DEFINE T == {i \in 0..n : g[i] = h[i]}
    <2>1. 0 \in T
      BY <1>4, <1>5 DEF Runs
    <2>2. ASSUME NEW i \in (0 + 1)..n, i - 1 \in T
          PROVE  i \in T
      BY <1>6, <2>2
    <2> HIDE DEF T
    <2>3. \A i \in 0..n : i \in T
      BY <2>1, <2>2, Upwards
    <2> QED
      BY <2>3 DEF T
  <1>10. g[n] = h[n]
    BY <1>8, <1>9
  <1>11. h[n + 1] = Plains(u)[n + 1][h[n]]
    <2>1. n + 1 \in (0 + 1)..(n + 1) /\ (n + 1) - 1 = n
      OBVIOUS
    <2> QED
      BY <1>5, <2>1 DEF Runs
  <1>12. h[n] \in Seq(Piece) /\ n + 1 \in Nat
    OBVIOUS
  <1> QED
    BY <1>2, <1>3, <1>4, <1>5, <1>10, <1>11, <1>12 DEF Plains

\* A piece that is no note, garbled or not.
LEMMA PlainlyPiece ==
    ASSUME NEW t \in Seq(Int), NEW p \in Piece, NEW q \in {p, -p}
    PROVE  /\ Append(t, q) \in Seq(Int)
           /\ Calls!Plainly(Append(t, q)) = Append(Calls!Plainly(t), p)
  <1>1. q \in Int /\ q # 0 /\ (IF q < 0 THEN -q ELSE q) = p
    BY DEF Piece
  <1> QED
    BY <1>1, PlainlyNext DEF Calls!AddPiece

LEMMA PlainlyEmpty == Calls!Plainly(<<>>) = <<>>
  <1>1. <<>> \in Seq(Int) /\ Len(<<>>) = 0
    OBVIOUS
  <1>2. PICK g : Runs(g, 0, Len(<<>>), <<>>, Plains(<<>>)) /\ Calls!Plainly(<<>>) = g[Len(<<>>)]
    BY <1>1, PlainlyRuns
  <1> QED
    BY <1>1, <1>2 DEF Runs

\* CallList, call by call: L lists the calls of f below n.
Entry(f) == {[id |-> c, args |-> f[c]] : c \in DOMAIN f}
Listed(L, f, n) ==
    /\ L \in Seq(Entry(f))
    /\ \A i \in DOMAIN L : L[i].id < n
    /\ \A c \in DOMAIN f : c < n => \E i \in DOMAIN L : L[i].id = c
    /\ \A i, j \in DOMAIN L : i < j => L[i].id < L[j].id

LEMMA AddCallLists ==
    ASSUME NEW f, DOMAIN f \subseteq Nat, NEW L, NEW n \in Nat, Listed(L, f, n)
    PROVE  Listed(Calls!AddCall(L, f, n), f, n + 1)
  <1>1. L \in Seq(Entry(f)) /\ \A i \in DOMAIN L : L[i] \in Entry(f)
    BY DEF Listed
  <1>2. \A i \in DOMAIN L : L[i].id \in DOMAIN f
    BY <1>1 DEF Entry
  <1>3. CASE n \in DOMAIN f
    <2>1. PICK x : x = [id |-> n, args |-> f[n]]
      OBVIOUS
    <2>2. x \in Entry(f) /\ x.id = n
      BY <1>3, <2>1 DEF Entry
    <2>3. PICK M : M = Append(L, x)
      OBVIOUS
    <2>4. PICK k \in Nat : k = Len(L)
      BY <1>1
    <2>5. /\ M \in Seq(Entry(f)) /\ DOMAIN M = 1..(k + 1) /\ DOMAIN L = 1..k
          /\ M[k + 1] = x /\ \A i \in 1..k : M[i] = L[i]
      BY <1>1, <2>2, <2>3, <2>4
    <2>6. \A i \in DOMAIN M : M[i].id < n + 1
      <3> SUFFICES ASSUME NEW i \in 1..(k + 1)
                   PROVE  M[i].id < n + 1
        BY <2>5
      <3>1. CASE i = k + 1
        BY <2>2, <2>5, <3>1
      <3>2. CASE i # k + 1
        <4>1. i \in 1..k
          BY <3>2
        <4>2. L[i].id < n /\ L[i].id \in Nat
          BY <1>2, <2>5, <4>1 DEF Listed
        <4> QED
          BY <2>5, <4>1, <4>2
      <3> QED
        BY <3>1, <3>2
    <2>7. ASSUME NEW c \in DOMAIN f, c < n + 1
          PROVE  \E i \in DOMAIN M : M[i].id = c
      <3>1. CASE c = n
        <4>1. k + 1 \in DOMAIN M /\ M[k + 1].id = c
          BY <2>2, <2>5, <3>1
        <4> QED
          BY <4>1
      <3>2. CASE c # n
        <4>1. c \in Nat /\ c < n
          BY <2>7, <3>2
        <4>2. PICK i \in DOMAIN L : L[i].id = c
          BY <4>1 DEF Listed
        <4>3. i \in DOMAIN M /\ M[i].id = c
          BY <2>5, <4>2
        <4> QED
          BY <4>3
      <3> QED
        BY <3>1, <3>2
    <2>8. ASSUME NEW i \in DOMAIN M, NEW j \in DOMAIN M, i < j
          PROVE  M[i].id < M[j].id
      <3>1. i \in 1..k /\ M[i] = L[i] /\ L[i].id < n
        BY <2>5, <2>8 DEF Listed
      <3>2. CASE j = k + 1
        BY <2>2, <2>5, <3>1, <3>2
      <3>3. CASE j # k + 1
        <4>1. j \in 1..k
          BY <2>5, <3>3
        <4> QED
          BY <2>5, <2>8, <3>1, <4>1 DEF Listed
      <3> QED
        BY <3>2, <3>3
    <2> QED
      BY <1>3, <2>1, <2>3, <2>5, <2>6, <2>7, <2>8 DEF Listed, Calls!AddCall
  <1>4. CASE n \notin DOMAIN f
    <2>1. \A c \in DOMAIN f : c < n + 1 => c < n
      BY <1>4
    <2>2. \A i \in DOMAIN L : L[i].id < n + 1
      BY <1>2 DEF Listed
    <2> QED
      BY <1>4, <2>1, <2>2 DEF Listed, Calls!AddCall
  <1> QED
    BY <1>3, <1>4

LEMMA CallListLists ==
    ASSUME NEW f, DOMAIN f \subseteq Calls!CallIds
    PROVE  Listed(Calls!CallList(f), f, MaxToolCalls)
  <1> DEFINE Told(g) == [n \in 0..MaxToolCalls |->
                 IF n = 0 THEN <<>> ELSE Calls!AddCall(g[n - 1], f, n - 1)]
             list == CHOOSE g : g = Told(g)
             F == [n \in Nat |-> [v \in Seq(Entry(f)) |-> Calls!AddCall(v, f, n - 1)]]
  <1>1. Calls!CallList(f) = list[MaxToolCalls]
    BY DEF Calls!CallList
  <1>2. PICK m \in Nat : m = MaxToolCalls
    BY StreamAssumption
  <1>3. DOMAIN f \subseteq Nat
    BY <1>2 DEF Calls!CallIds
  <1>4. \A i \in (0 + 1)..m : \A v \in Seq(Entry(f)) : F[i][v] \in Seq(Entry(f))
    <2> SUFFICES ASSUME NEW i \in (0 + 1)..m, NEW v \in Seq(Entry(f))
                 PROVE  F[i][v] \in Seq(Entry(f))
      OBVIOUS
    <2>1. i \in Nat /\ F[i][v] = Calls!AddCall(v, f, i - 1)
      OBVIOUS
    <2>2. i - 1 \in DOMAIN f => [id |-> i - 1, args |-> f[i - 1]] \in Entry(f)
      BY DEF Entry
    <2> HIDE DEF F
    <2> QED
      BY <2>1, <2>2 DEF Calls!AddCall
  <1>5. <<>> \in Seq(Entry(f)) /\ 0 \in Nat /\ 0 <= m
    OBVIOUS
  <1>6. PICK g \in [0..m -> Seq(Entry(f))] : Runs(g, 0, m, <<>>, F)
    <2> HIDE DEF F
    <2> QED
      BY <1>4, <1>5, Recursion
  <1>7. ASSUME NEW i \in 1..m
        PROVE  g[i] = Calls!AddCall(g[i - 1], f, i - 1)
    <2>1. i - 1 \in 0..m /\ i \in (0 + 1)..m /\ i \in Nat
      OBVIOUS
    <2>2. g[i] = F[i][g[i - 1]] /\ g[i - 1] \in Seq(Entry(f))
      BY <1>6, <2>1 DEF Runs
    <2> QED
      BY <2>1, <2>2
  <1>8. g = Told(g)
    BY <1>2, <1>6, <1>7 DEF Runs
  <1>9. list = Told(list)
    <2> HIDE DEF Told
    <2> QED
      BY <1>8, Zenon
  <1> HIDE DEF list, F
  <1>10. list[0] = <<>> /\ \A i \in 1..m : list[i] = Calls!AddCall(list[i - 1], f, i - 1)
    <2>1. list = [n \in 0..m |-> IF n = 0 THEN <<>> ELSE Calls!AddCall(list[n - 1], f, n - 1)]
      BY <1>2, <1>9
    <2>2. 0 \in 0..m /\ \A i \in 1..m : i \in 0..m /\ i # 0
      OBVIOUS
    <2> QED
      BY <2>1, <2>2
  <1> HIDE DEF Told
  <1> DEFINE T == {i \in 0..m : Listed(list[i], f, i)}
  <1>11. 0 \in T
    <2>1. <<>> \in Seq(Entry(f)) /\ DOMAIN <<>> = {}
      OBVIOUS
    <2>2. \A c \in DOMAIN f : ~(c < 0)
      BY <1>3
    <2>3. Listed(<<>>, f, 0)
      BY <2>1, <2>2 DEF Listed
    <2> QED
      BY <1>10, <2>3
  <1>12. ASSUME NEW i \in (0 + 1)..m, i - 1 \in T
         PROVE  i \in T
    <2>1. i - 1 \in Nat /\ (i - 1) + 1 = i /\ i \in 1..m /\ i \in 0..m
      OBVIOUS
    <2>2. Listed(list[i - 1], f, i - 1)
      BY <1>12
    <2>3. Listed(Calls!AddCall(list[i - 1], f, i - 1), f, (i - 1) + 1)
      BY <1>3, <2>1, <2>2, AddCallLists
    <2> QED
      BY <1>10, <2>1, <2>3
  <1> HIDE DEF T
  <1>13. \A i \in 0..m : i \in T
    BY <1>11, <1>12, Upwards
  <1>14. m \in T
    BY <1>13
  <1> QED
    BY <1>1, <1>2, <1>14 DEF T

\* The list CallList makes of calls whose arguments are those that were said.
LEMMA CallListSame ==
    ASSUME NEW f, DOMAIN f \subseteq Calls!CallIds, NEW spoken, DOMAIN spoken = DOMAIN f,
           \A c \in DOMAIN f : f[c] \in Seq(Int) /\ Calls!Plainly(f[c]) = spoken[c]
    PROVE  SameCalls(Calls!CallList(f), spoken)
  <1>1. PICK L : L = Calls!CallList(f)
    OBVIOUS
  <1>2. Listed(L, f, MaxToolCalls)
    BY <1>1, CallListLists
  <1>3. MaxToolCalls \in Nat /\ None \notin Seq([id : Nat, args : Seq(Int)])
    BY StreamAssumption
  <1>4. \A c \in DOMAIN f : c \in Nat /\ c < MaxToolCalls
    BY <1>3 DEF Calls!CallIds
  <1>5. Entry(f) \subseteq [id : Nat, args : Seq(Int)]
    BY <1>4 DEF Entry
  <1>6. L \in Seq(Entry(f)) /\ L \in Seq([id : Nat, args : Seq(Int)])
    <2>1. L \in Seq(Entry(f))
      BY <1>2 DEF Listed
    <2>2. Len(L) \in Nat /\ L = [i \in 1..Len(L) |-> L[i]]
      BY <2>1
    <2>3. \A i \in 1..Len(L) : L[i] \in Entry(f)
      BY <2>1
    <2>4. \A i \in 1..Len(L) : L[i] \in [id : Nat, args : Seq(Int)]
      BY <1>5, <2>3
    <2>5. [i \in 1..Len(L) |-> L[i]] \in Seq([id : Nat, args : Seq(Int)])
      BY <2>2, <2>4
    <2> QED
      BY <2>1, <2>2, <2>5
  <1>7. \A i \in DOMAIN L : L[i] \in Entry(f)
    BY <1>6
  <1>8. \A i \in DOMAIN L : L[i].id \in DOMAIN f /\ L[i].args = f[L[i].id]
    BY <1>7 DEF Entry
  <1>9. L # None
    BY <1>3, <1>6
  <1>10. {L[i].id : i \in DOMAIN L} = DOMAIN f
    <2>1. \A c \in DOMAIN f : c < MaxToolCalls => \E i \in DOMAIN L : L[i].id = c
      BY <1>2 DEF Listed
    <2>2. \A c \in DOMAIN f : \E i \in DOMAIN L : L[i].id = c
      BY <1>4, <2>1
    <2> QED
      BY <1>8, <2>2
  <1>11. \A i \in DOMAIN L : Calls!Plainly(L[i].args) = spoken[L[i].id]
    BY <1>8
  <1>12. \A i, j \in DOMAIN L : i < j => L[i].id < L[j].id
    BY <1>2 DEF Listed
  <1> QED
    BY <1>1, <1>9, <1>10, <1>11, <1>12 DEF SameCalls

\* The events a server may send after s.
TextEvent(s, ev) ==
    /\ ev = [e |-> "text", p |-> s.pieces + 1]
    /\ kind = "anthropic" => s.open = None
MessageEvent(s, ev) == kind = "claude-cli" /\ ev = [e |-> "message", p |-> s.pieces + 1]
HeadEvent(s, ev) ==
    /\ kind \in {"openai", "anthropic"}
    /\ ev = [e |-> "head", c |-> ev.c]
    /\ ev.c \in Calls!CallIds /\ ev.c \notin DOMAIN s.calls
    /\ kind = "anthropic" => s.open = None /\ \A c \in Calls!NewCalls(s) : ev.c <= c
ArgsEvent(s, ev) ==
    /\ kind \in {"openai", "anthropic"}
    /\ ev = [e |-> "args", c |-> ev.c, p |-> s.pieces + 1]
    /\ ev.c \in DOMAIN s.calls
    /\ kind = "anthropic" => ev.c = s.open
StopEvent(ev) == kind = "anthropic" /\ ev = [e |-> "stop"]
NoteEvent(ev) == kind = "claude-cli" /\ ev = [e |-> "note"]
DoneEvent(s, ev) == ev = [e |-> "done"] /\ (kind = "anthropic" => s.open = None)
ErrorEvent(ev) == ev = [e |-> "error"]

LEMMA EventForms ==
    ASSUME NEW s, Sayable(s), kind \in Calls!Kinds, NEW ev \in Calls!Events(s)
    PROVE  /\ ~s.ended
           /\ \/ TextEvent(s, ev) \/ MessageEvent(s, ev) \/ HeadEvent(s, ev) \/ ArgsEvent(s, ev)
              \/ StopEvent(ev) \/ NoteEvent(ev) \/ DoneEvent(s, ev) \/ ErrorEvent(ev)
  <1>1. ~s.ended
    BY DEF Calls!Events
  <1>2. \A x \in Calls!Texts(s) : x = [e |-> "text", p |-> s.pieces + 1]
    BY DEF Calls!Texts, Calls!Fresh
  <1>3. \A x \in Calls!Heads(s) :
            x = [e |-> "head", c |-> x.c] /\ x.c \in Calls!CallIds /\ x.c \notin DOMAIN s.calls
    BY DEF Calls!Heads, Calls!NewCalls
  <1>4. ASSUME NEW S, NEW x \in Calls!Args(s, S)
        PROVE  x = [e |-> "args", c |-> x.c, p |-> s.pieces + 1] /\ x.c \in S
    BY DEF Calls!Args, Calls!Fresh
  <1>5. CASE kind = "openai"
    <2>1. ev \in Calls!Texts(s) \/ ev \in Calls!Heads(s) \/ ev \in Calls!Args(s, DOMAIN s.calls)
            \/ ev = [e |-> "done"]
      BY <1>1, <1>5 DEF Calls!Events, Calls!End
    <2> QED
      BY <1>1, <1>2, <1>3, <1>4, <1>5, <2>1 DEF TextEvent, HeadEvent, ArgsEvent, DoneEvent
  <1>6. CASE kind = "anthropic"
    <2>1. CASE s.open # None
      <3>1. ev \in Calls!Args(s, {s.open}) \/ ev = [e |-> "stop"]
        BY <1>1, <1>6, <2>1 DEF Calls!Events
      <3>2. s.open \in DOMAIN s.calls
        BY <2>1 DEF Sayable
      <3> QED
        BY <1>1, <1>4, <1>6, <3>1, <3>2 DEF ArgsEvent, StopEvent
    <2>2. CASE s.open = None
      <3>1. \/ ev \in Calls!Texts(s)
            \/ ev = [e |-> "done"] \/ ev = [e |-> "error"] \/ ev = [e |-> "stop"]
            \/ ev \in Calls!Heads(s) /\ \A c \in Calls!NewCalls(s) : ev.c <= c
        BY <1>1, <1>6, <2>2 DEF Calls!Events, Calls!End
      <3> QED
        BY <1>1, <1>2, <1>3, <1>6, <2>2, <3>1
        DEF TextEvent, HeadEvent, StopEvent, DoneEvent, ErrorEvent
    <2> QED
      BY <2>1, <2>2
  <1>7. CASE kind = "ollama"
    <2>1. ev \in Calls!Texts(s) \/ ev = [e |-> "done"]
      BY <1>1, <1>7 DEF Calls!Events, Calls!End
    <2> QED
      BY <1>1, <1>2, <1>7, <2>1 DEF TextEvent, DoneEvent
  <1>8. CASE kind = "claude-cli"
    <2>1. \/ ev \in Calls!Texts(s)
          \/ ev = [e |-> "done"] \/ ev = [e |-> "error"] \/ ev = [e |-> "note"]
          \/ \E t \in Calls!Texts(s) : ev = [e |-> "message", p |-> t.p]
      BY <1>1, <1>8 DEF Calls!Events, Calls!End
    <2> QED
      BY <1>1, <1>2, <1>8, <2>1 DEF TextEvent, MessageEvent, NoteEvent, DoneEvent, ErrorEvent
  <1> QED
    BY <1>5, <1>6, <1>7, <1>8 DEF Calls!Kinds

\* What was said with the event.
LEMMA SayIs ==
    ASSUME NEW s, NEW ev
    PROVE  /\ TextEvent(s, ev) => Calls!Say(s, ev)
                = [s EXCEPT !.text = Append(@, s.pieces + 1), !.pieces = @ + 1,
                            !.msgs = IF @ = 0 THEN 1 ELSE @]
           /\ MessageEvent(s, ev) => Calls!Say(s, ev)
                = [s EXCEPT !.text = Append(@, s.pieces + 1), !.pieces = @ + 1,
                            !.from = Len(s.text), !.msgs = @ + 1]
           /\ HeadEvent(s, ev) => Calls!Say(s, ev)
                = [s EXCEPT !.calls = Calls!Put(@, ev.c, <<>>), !.open = ev.c]
           /\ ArgsEvent(s, ev) => Calls!Say(s, ev)
                = [s EXCEPT !.calls[ev.c] = Append(@, s.pieces + 1), !.pieces = @ + 1]
           /\ StopEvent(ev) => Calls!Say(s, ev) = [s EXCEPT !.open = None]
           /\ NoteEvent(ev) => Calls!Say(s, ev) = s
           /\ DoneEvent(s, ev) \/ ErrorEvent(ev) =>
                Calls!Say(s, ev) = [s EXCEPT !.ended = TRUE]
  <1>1. TextEvent(s, ev) => ev.e = "text" /\ ev.p = s.pieces + 1
    BY DEF TextEvent
  <1>2. MessageEvent(s, ev) => ev.e = "message" /\ ev.p = s.pieces + 1
    BY DEF MessageEvent
  <1>3. HeadEvent(s, ev) => ev.e = "head"
    BY DEF HeadEvent
  <1>4. ArgsEvent(s, ev) => ev.e = "args" /\ ev.p = s.pieces + 1
    BY DEF ArgsEvent
  <1>5. /\ StopEvent(ev) => ev.e = "stop"
        /\ NoteEvent(ev) => ev.e = "note"
        /\ DoneEvent(s, ev) \/ ErrorEvent(ev) => ev.e \in {"done", "error"}
    BY DEF StopEvent, NoteEvent, DoneEvent, ErrorEvent
  <1>6. TextEvent(s, ev) => Calls!Say(s, ev)
                = [s EXCEPT !.text = Append(@, s.pieces + 1), !.pieces = @ + 1,
                            !.msgs = IF @ = 0 THEN 1 ELSE @]
    BY <1>1 DEF Calls!Say
  <1>7. MessageEvent(s, ev) => Calls!Say(s, ev)
                = [s EXCEPT !.text = Append(@, s.pieces + 1), !.pieces = @ + 1,
                            !.from = Len(s.text), !.msgs = @ + 1]
    BY <1>2 DEF Calls!Say
  <1>8. HeadEvent(s, ev) => Calls!Say(s, ev)
                = [s EXCEPT !.calls = Calls!Put(@, ev.c, <<>>), !.open = ev.c]
    BY <1>3 DEF Calls!Say
  <1>9. ArgsEvent(s, ev) => Calls!Say(s, ev)
                = [s EXCEPT !.calls[ev.c] = Append(@, s.pieces + 1), !.pieces = @ + 1]
    BY <1>4 DEF Calls!Say
  <1>10. /\ StopEvent(ev) => Calls!Say(s, ev) = [s EXCEPT !.open = None]
         /\ NoteEvent(ev) => Calls!Say(s, ev) = s
         /\ DoneEvent(s, ev) \/ ErrorEvent(ev) => Calls!Say(s, ev) = [s EXCEPT !.ended = TRUE]
    BY <1>5 DEF Calls!Say
  <1> QED
    BY <1>6, <1>7, <1>8, <1>9, <1>10

LEMMA SaySayable ==
    ASSUME NEW s, Sayable(s), NEW ev,
           \/ TextEvent(s, ev) \/ MessageEvent(s, ev) \/ HeadEvent(s, ev) \/ ArgsEvent(s, ev)
           \/ StopEvent(ev) \/ NoteEvent(ev) \/ DoneEvent(s, ev) \/ ErrorEvent(ev)
    PROVE  Sayable(Calls!Say(s, ev))
  <1>1. PICK t : t = Calls!Say(s, ev)
    OBVIOUS
  <1>2. PICK p : p = s.pieces + 1
    OBVIOUS
  <1>3. p \in Piece /\ p \in Nat /\ None \notin Nat
    BY <1>2, StreamAssumption DEF Sayable, Piece
  <1>4. /\ s.text \in Seq(Piece) /\ s.pieces \in Nat /\ s.from \in Nat /\ s.msgs \in Nat
        /\ s.open \in Calls!CallIds \union {None} /\ s.ended \in BOOLEAN
        /\ s = [text |-> s.text, calls |-> s.calls, pieces |-> s.pieces, open |-> s.open,
                from |-> s.from, msgs |-> s.msgs, ended |-> s.ended]
    BY DEF Sayable
  <1>5. Append(s.text, p) \in Seq(Piece) /\ Len(s.text) \in Nat
    BY <1>3, <1>4
  <1>6. CASE TextEvent(s, ev)
    <2>1. t = [s EXCEPT !.text = Append(@, p), !.pieces = @ + 1, !.msgs = IF @ = 0 THEN 1 ELSE @]
      BY <1>1, <1>2, <1>6, SayIs
    <2>2. t = [text |-> Append(s.text, p), calls |-> s.calls, pieces |-> p, open |-> s.open,
               from |-> s.from, msgs |-> IF s.msgs = 0 THEN 1 ELSE s.msgs, ended |-> s.ended]
      BY <1>2, <1>4, <2>1
    <2> QED
      BY <1>1, <1>3, <1>4, <1>5, <2>2 DEF Sayable
  <1>7. CASE MessageEvent(s, ev)
    <2>1. t = [s EXCEPT !.text = Append(@, p), !.pieces = @ + 1, !.from = Len(s.text),
                        !.msgs = @ + 1]
      BY <1>1, <1>2, <1>7, SayIs
    <2>2. t = [text |-> Append(s.text, p), calls |-> s.calls, pieces |-> p, open |-> s.open,
               from |-> Len(s.text), msgs |-> s.msgs + 1, ended |-> s.ended]
      BY <1>2, <1>4, <2>1
    <2>3. s.msgs + 1 <= 1 => Len(s.text) = 0
      BY <1>4 DEF Sayable
    <2>4. s.msgs + 1 # 0
      BY <1>4
    <2> QED
      BY <1>1, <1>3, <1>4, <1>5, <2>2, <2>3, <2>4 DEF Sayable
  <1>8. CASE HeadEvent(s, ev)
    <2>1. PICK f : f = Calls!Put(s.calls, ev.c, <<>>)
      OBVIOUS
    <2>2. t = [s EXCEPT !.calls = f, !.open = ev.c]
      BY <1>1, <1>8, <2>1, SayIs
    <2>3. t = [text |-> s.text, calls |-> f, pieces |-> s.pieces, open |-> ev.c,
               from |-> s.from, msgs |-> s.msgs, ended |-> s.ended]
      BY <1>4, <2>2
    <2>4. ev.c \in Calls!CallIds
      BY <1>8 DEF HeadEvent
    <2>5. DOMAIN f = DOMAIN s.calls \union {ev.c} /\ f \in [DOMAIN f -> Seq(Piece)]
      BY <2>1 DEF Calls!Put, Sayable
    <2> QED
      BY <1>1, <1>4, <2>3, <2>4, <2>5 DEF Sayable
  <1>9. CASE ArgsEvent(s, ev)
    <2>1. PICK f : f = [s.calls EXCEPT ![ev.c] = Append(@, p)]
      OBVIOUS
    <2>2. t = [s EXCEPT !.calls[ev.c] = Append(@, p), !.pieces = @ + 1]
      BY <1>1, <1>2, <1>9, SayIs
    <2>3. t = [text |-> s.text, calls |-> f, pieces |-> p, open |-> s.open,
               from |-> s.from, msgs |-> s.msgs, ended |-> s.ended]
      BY <1>2, <1>4, <2>1, <2>2
    <2>4. ev.c \in DOMAIN s.calls
      BY <1>9 DEF ArgsEvent
    <2>5. DOMAIN f = DOMAIN s.calls /\ f \in [DOMAIN f -> Seq(Piece)]
      <3>1. Append(s.calls[ev.c], p) \in Seq(Piece)
        BY <1>3, <2>4 DEF Sayable
      <3> QED
        BY <2>1, <3>1 DEF Sayable
    <2> QED
      BY <1>1, <1>3, <1>4, <2>3, <2>5 DEF Sayable
  <1>10. CASE StopEvent(ev)
    <2>1. t = [s EXCEPT !.open = None]
      BY <1>1, <1>10, SayIs
    <2>2. t = [text |-> s.text, calls |-> s.calls, pieces |-> s.pieces, open |-> None,
               from |-> s.from, msgs |-> s.msgs, ended |-> s.ended]
      BY <1>4, <2>1
    <2> QED
      BY <1>1, <1>4, <2>2 DEF Sayable
  <1>11. CASE NoteEvent(ev)
    BY <1>11, SayIs
  <1>12. CASE DoneEvent(s, ev) \/ ErrorEvent(ev)
    <2>1. t = [s EXCEPT !.ended = TRUE]
      BY <1>1, <1>12, SayIs
    <2>2. t = [text |-> s.text, calls |-> s.calls, pieces |-> s.pieces, open |-> s.open,
               from |-> s.from, msgs |-> s.msgs, ended |-> TRUE]
      BY <1>4, <2>1
    <2> QED
      BY <1>1, <1>4, <2>2 DEF Sayable
  <1> QED
    BY <1>6, <1>7, <1>8, <1>9, <1>10, <1>11, <1>12

\* No calls were said, and none are recorded.
LEMMA NoneSame == ASSUME NEW spoken, DOMAIN spoken = {} PROVE SameCalls(None, spoken)
  BY DEF SameCalls

\* The consumer after a piece of text,
LEMMA TextGathered ==
    ASSUME NEW s, NEW t, Sayable(s), Gathered(s), ~s.ended,
           t.text = Append(s.text, s.pieces + 1), t.msgs >= s.msgs, t.msgs \in Nat, ~t.ended,
           NEW p \in {s.pieces + 1, -(s.pieces + 1)},
           full' = [full EXCEPT !.text = Append(@, p)]
    PROVE  Gathered(t)'
  <1>1. s.pieces + 1 \in Piece /\ s.msgs \in Nat /\ ~full.done
    BY DEF Sayable, Piece, Gathered
  <1>2. full' = [text |-> Append(full.text, p), calls |-> full.calls, done |-> full.done]
    BY DEF Gathered
  <1>3. t.msgs <= 1 => Append(full.text, p) \in Seq(Int)
                       /\ Calls!Plainly(Append(full.text, p)) = t.text
    <2>1. t.msgs <= 1 => s.msgs <= 1
      BY <1>1
    <2>2. s.msgs <= 1 => full.text \in Seq(Int) /\ Calls!Plainly(full.text) = s.text
      BY DEF Gathered
    <2> QED
      BY <1>1, <2>1, <2>2, PlainlyPiece
  <1>4. full.done = FALSE /\ t.ended = FALSE /\ full.calls = None
    BY <1>1 DEF Gathered, Sayable
  <1> QED
    BY <1>2, <1>3, <1>4 DEF Gathered

\* after an event that yields nothing,
LEMMA NothingGathered ==
    ASSUME NEW s, NEW t, Gathered(s), ~s.ended, t.text = s.text, t.msgs = s.msgs,
           t.ended = s.ended, full' = full
    PROVE  Gathered(t)'
  BY DEF Gathered

\* and after the last one.
LEMMA DoneGathered ==
    ASSUME NEW s, NEW t, Gathered(s), t.text = s.text, t.msgs = s.msgs, t.calls = s.calls,
           t.ended = TRUE, NEW list, SameCalls(list, s.calls),
           full' = [full EXCEPT !.done = TRUE, !.calls = list]
    PROVE  Gathered(t)'
  <1>1. full' = [text |-> full.text, calls |-> list, done |-> TRUE]
    BY DEF Gathered
  <1> QED
    BY <1>1 DEF Gathered

\* OpenAI: the pieces of a call find their place by its index.
LEMMA OpenAIHears ==
    ASSUME NEW s, Heard(s), kind = "openai", kind' = kind, ~s.ended, NEW ev,
           TextEvent(s, ev) \/ HeadEvent(s, ev) \/ ArgsEvent(s, ev) \/ DoneEvent(s, ev),
           NEW p, ev.e \in {"text", "args"} => p \in {s.pieces + 1, -(s.pieces + 1)},
           Calls!OpenAIEvent(ev, p, FALSE)
    PROVE  Heard(Calls!Say(s, ev))'
  <1>1. PICK t : t = Calls!Say(s, ev)
    OBVIOUS
  <1>2. Sayable(s) /\ Gathered(s) /\ Decoded(s) /\ Sayable(t)
    BY <1>1, SaySayable DEF Heard
  <1>3. /\ builder = [pending |-> builder.pending, current |-> builder.current,
                      input |-> builder.input, done |-> builder.done, shown |-> builder.shown]
        /\ ByIndex(s)
    BY <1>2 DEF Decoded
  <1>4. /\ s = [text |-> s.text, calls |-> s.calls, pieces |-> s.pieces, open |-> s.open,
                from |-> s.from, msgs |-> s.msgs, ended |-> s.ended]
        /\ s.msgs \in Nat /\ s.pieces + 1 \in Piece
    BY <1>2 DEF Sayable, Piece
  <1>5. SUFFICES Gathered(t)' /\ Decoded(t)'
    BY <1>1, <1>2 DEF Heard, Sayable
  <1>6. CASE TextEvent(s, ev)
    <2>1. ev.e = "text"
      BY <1>6 DEF TextEvent
    <2>2. full' = [full EXCEPT !.text = Append(@, p)] /\ builder' = builder
      BY <2>1 DEF Calls!OpenAIEvent, Calls!Yields
    <2>3. t = [s EXCEPT !.text = Append(@, s.pieces + 1), !.pieces = @ + 1,
                        !.msgs = IF @ = 0 THEN 1 ELSE @]
      BY <1>1, <1>6, SayIs
    <2>4. /\ t.text = Append(s.text, s.pieces + 1) /\ t.msgs >= s.msgs /\ t.msgs \in Nat
          /\ t.ended = s.ended /\ t.calls = s.calls
      BY <1>4, <2>3
    <2>5. Gathered(t)'
      BY <1>2, <2>1, <2>2, <2>4, TextGathered
    <2>6. ByIndex(t)'
      BY <1>3, <2>2, <2>4 DEF ByIndex
    <2> QED
      BY <1>3, <2>2, <2>5, <2>6 DEF Decoded
  <1>7. CASE HeadEvent(s, ev)
    <2>1. ev.e = "head" /\ ev.c \notin DOMAIN s.calls
      BY <1>7 DEF HeadEvent
    <2>2. PICK new : new = [named |-> TRUE, args |-> <<>>]
      OBVIOUS
    <2>3. ev.c \notin DOMAIN builder.pending
      BY <1>3, <2>1 DEF ByIndex
    <2>4. full' = full /\ builder' = [builder EXCEPT !.pending = Calls!Put(@, ev.c, new)]
      BY <2>1, <2>2, <2>3 DEF Calls!OpenAIEvent, Calls!Keeps
    <2>5. t = [s EXCEPT !.calls = Calls!Put(@, ev.c, <<>>), !.open = ev.c]
      BY <1>1, <1>7, SayIs
    <2>6. /\ t.text = s.text /\ t.msgs = s.msgs /\ t.ended = s.ended
          /\ t.calls = Calls!Put(s.calls, ev.c, <<>>)
      BY <1>4, <2>5
    <2>7. Gathered(t)'
      BY <1>2, <2>4, <2>6, NothingGathered
    <2>8. /\ builder' = [pending |-> Calls!Put(builder.pending, ev.c, new),
                         current |-> builder.current, input |-> builder.input,
                         done |-> builder.done, shown |-> builder.shown]
      BY <1>3, <2>4
    <2>9. PICK f, g : f = Calls!Put(builder.pending, ev.c, new) /\ g = t.calls
      OBVIOUS
    <2>10. DOMAIN f = DOMAIN g
      BY <1>3, <2>6, <2>9 DEF ByIndex, Calls!Put
    <2>11. ASSUME NEW c \in DOMAIN g
           PROVE  /\ f[c] \in [named : {TRUE}, args : Seq(Int)]
                  /\ Calls!Plainly(f[c].args) = g[c]
      <3>1. CASE c = ev.c
        <4>1. f[c] = new /\ g[c] = <<>>
          BY <2>6, <2>9, <2>10, <2>11, <3>1 DEF Calls!Put
        <4> QED
          BY <2>2, <4>1, PlainlyEmpty
      <3>2. CASE c # ev.c
        <4>1. c \in DOMAIN s.calls /\ f[c] = builder.pending[c] /\ g[c] = s.calls[c]
          BY <1>3, <2>6, <2>9, <2>10, <2>11, <3>2 DEF Calls!Put, ByIndex
        <4> QED
          BY <1>3, <4>1 DEF ByIndex
      <3> QED
        BY <3>1, <3>2
    <2>12. ByIndex(t)'
      BY <2>8, <2>9, <2>10, <2>11 DEF ByIndex
    <2> QED
      BY <2>7, <2>8, <2>12 DEF Decoded
  <1>8. CASE ArgsEvent(s, ev)
    <2>1. ev.e = "args" /\ ev.c \in DOMAIN s.calls
      BY <1>8 DEF ArgsEvent
    <2>2. PICK old : old = builder.pending[ev.c]
      OBVIOUS
    <2>3. /\ ev.c \in DOMAIN builder.pending /\ old \in [named : {TRUE}, args : Seq(Int)]
          /\ Calls!Plainly(old.args) = s.calls[ev.c]
      BY <1>3, <2>1, <2>2 DEF ByIndex
    <2>4. PICK new : new = [named |-> TRUE, args |-> Append(old.args, p)]
      OBVIOUS
    <2>5. old.named = TRUE
      BY <2>3
    <2>6. full' = full /\ builder' = [builder EXCEPT !.pending = Calls!Put(@, ev.c, new)]
      BY <2>1, <2>2, <2>3, <2>4, <2>5 DEF Calls!OpenAIEvent, Calls!Keeps
    <2>7. t = [s EXCEPT !.calls[ev.c] = Append(@, s.pieces + 1), !.pieces = @ + 1]
      BY <1>1, <1>8, SayIs
    <2>8. /\ t.text = s.text /\ t.msgs = s.msgs /\ t.ended = s.ended
          /\ t.calls = [s.calls EXCEPT ![ev.c] = Append(@, s.pieces + 1)]
      BY <1>4, <2>7
    <2>9. Gathered(t)'
      BY <1>2, <2>6, <2>8, NothingGathered
    <2>10. /\ builder' = [pending |-> Calls!Put(builder.pending, ev.c, new),
                         current |-> builder.current, input |-> builder.input,
                         done |-> builder.done, shown |-> builder.shown]
      BY <1>3, <2>6
    <2>11. PICK f, g : f = Calls!Put(builder.pending, ev.c, new) /\ g = t.calls
      OBVIOUS
    <2>12. DOMAIN f = DOMAIN g /\ DOMAIN g = DOMAIN s.calls
      BY <1>3, <2>3, <2>8, <2>11 DEF ByIndex, Calls!Put
    <2>13. ASSUME NEW c \in DOMAIN g
           PROVE  /\ f[c] \in [named : {TRUE}, args : Seq(Int)]
                  /\ Calls!Plainly(f[c].args) = g[c]
      <3>1. CASE c = ev.c
        <4>1. f[c] = new /\ g[c] = Append(s.calls[c], s.pieces + 1)
          BY <2>8, <2>11, <2>12, <2>13, <3>1 DEF Calls!Put
        <4>2. /\ Append(old.args, p) \in Seq(Int)
              /\ Calls!Plainly(Append(old.args, p)) = Append(Calls!Plainly(old.args), s.pieces + 1)
          BY <1>4, <2>1, <2>3, PlainlyPiece
        <4> QED
          BY <2>3, <2>4, <3>1, <4>1, <4>2
      <3>2. CASE c # ev.c
        <4>1. c \in DOMAIN s.calls /\ f[c] = builder.pending[c] /\ g[c] = s.calls[c]
          BY <1>3, <2>8, <2>11, <2>12, <2>13, <3>2 DEF Calls!Put, ByIndex
        <4> QED
          BY <1>3, <4>1 DEF ByIndex
      <3> QED
        BY <3>1, <3>2
    <2>14. ByIndex(t)'
      BY <2>10, <2>11, <2>12, <2>13 DEF ByIndex
    <2> QED
      BY <2>9, <2>10, <2>14 DEF Decoded
  <1>9. CASE DoneEvent(s, ev)
    <2>1. ev.e = "done"
      BY <1>9 DEF DoneEvent
    <2> DEFINE ids == {c \in DOMAIN builder.pending : builder.pending[c].named}
               f == [c \in ids |-> builder.pending[c].args]
               list == IF builder.pending = Calls!NoCalls THEN None ELSE Calls!CallList(f)
    <2>2. /\ full' = [full EXCEPT !.done = TRUE, !.calls = list]
          /\ builder' = [builder EXCEPT !.pending = Calls!NoCalls]
      BY <2>1 DEF Calls!OpenAIEvent, Calls!YieldsDone
    <2>3. SameCalls(list, s.calls)
      <3>1. CASE builder.pending = Calls!NoCalls
        <4>1. DOMAIN s.calls = {}
          BY <1>3, <3>1 DEF ByIndex, Calls!NoCalls
        <4> QED
          BY <3>1, <4>1, NoneSame
      <3>2. CASE builder.pending # Calls!NoCalls
        <4>1. \A c \in DOMAIN builder.pending : builder.pending[c].named = TRUE
          BY <1>3 DEF ByIndex
        <4>2. ids = DOMAIN s.calls
          BY <1>3, <4>1 DEF ByIndex
        <4>3. DOMAIN f = DOMAIN s.calls /\ DOMAIN f \subseteq Calls!CallIds
          BY <1>2, <4>2 DEF Sayable
        <4>4. \A c \in DOMAIN f : f[c] \in Seq(Int) /\ Calls!Plainly(f[c]) = s.calls[c]
          BY <1>3, <4>2, <4>3 DEF ByIndex
        <4>5. list = Calls!CallList(f)
          BY <3>2
        <4> HIDE DEF f, list
        <4> QED
          BY <4>3, <4>4, <4>5, CallListSame
      <3> QED
        BY <3>1, <3>2
    <2> HIDE DEF list, f, ids
    <2>4. t = [s EXCEPT !.ended = TRUE]
      BY <1>1, <1>9, SayIs
    <2>5. t.text = s.text /\ t.msgs = s.msgs /\ t.calls = s.calls /\ t.ended = TRUE
      BY <1>4, <2>4
    <2>6. Gathered(t)'
      BY <1>2, <2>2, <2>3, <2>5, DoneGathered
    <2>7. builder' = [pending |-> Calls!NoCalls, current |-> builder.current,
                      input |-> builder.input, done |-> builder.done, shown |-> builder.shown]
      BY <1>3, <2>2
    <2> QED
      BY <2>5, <2>6, <2>7 DEF Decoded
  <1> QED
    BY <1>6, <1>7, <1>8, <1>9

\* Anthropic: one block after the other.
LEMMA AnthropicHears ==
    ASSUME NEW s, Heard(s), kind = "anthropic", kind' = kind, ~s.ended, NEW ev,
           \/ TextEvent(s, ev) \/ HeadEvent(s, ev) \/ ArgsEvent(s, ev) \/ StopEvent(ev)
           \/ DoneEvent(s, ev),
           NEW p, ev.e \in {"text", "args"} => p \in {s.pieces + 1, -(s.pieces + 1)},
           Calls!AnthropicEvent(ev, p)
    PROVE  Heard(Calls!Say(s, ev))'
  <1>1. PICK t : t = Calls!Say(s, ev)
    OBVIOUS
  <1>2. Sayable(s) /\ Gathered(s) /\ Decoded(s) /\ Sayable(t)
    BY <1>1, SaySayable DEF Heard
  <1>3. /\ builder = [pending |-> builder.pending, current |-> builder.current,
                      input |-> builder.input, done |-> builder.done, shown |-> builder.shown]
        /\ ByBlock(s)
    BY <1>2 DEF Decoded
  <1>4. /\ s = [text |-> s.text, calls |-> s.calls, pieces |-> s.pieces, open |-> s.open,
                from |-> s.from, msgs |-> s.msgs, ended |-> s.ended]
        /\ s.msgs \in Nat /\ s.pieces + 1 \in Piece
        /\ s.open \in Calls!CallIds \union {None} /\ DOMAIN s.calls \subseteq Calls!CallIds
    BY <1>2 DEF Sayable, Piece
  <1>5. SUFFICES Gathered(t)' /\ Decoded(t)'
    BY <1>1, <1>2 DEF Heard, Sayable
  <1>6. PICK n : n = Len(builder.done)
    OBVIOUS
  <1>7. /\ n \in Nat /\ builder.done \in Seq([id : Nat, args : Seq(Int)])
        /\ DOMAIN builder.done = 1..n
        /\ \A i \in 1..n : /\ builder.done[i].id = i - 1
                           /\ Calls!Plainly(builder.done[i].args) = s.calls[i - 1]
    <2>1. builder.done \in Seq([id : Nat, args : Seq(Int)])
      BY <1>3 DEF ByBlock
    <2>2. n \in Nat /\ DOMAIN builder.done = 1..n
      BY <1>6, <2>1
    <2>3. \A i \in DOMAIN builder.done :
              /\ builder.done[i].id = i - 1
              /\ Calls!Plainly(builder.done[i].args) = s.calls[i - 1]
      BY <1>3 DEF ByBlock
    <2> QED
      BY <2>1, <2>2, <2>3
  <1>8. MaxToolCalls \in Nat /\ None \notin Nat /\ None \notin Seq([id : Nat, args : Seq(Int)])
    BY StreamAssumption
  <1>9. \A c \in Calls!CallIds : c \in Nat /\ c < MaxToolCalls
    BY <1>8 DEF Calls!CallIds
  <1>10. CASE TextEvent(s, ev)
    <2>1. ev.e = "text"
      BY <1>10 DEF TextEvent
    <2>2. full' = [full EXCEPT !.text = Append(@, p)] /\ builder' = builder
      BY <2>1 DEF Calls!AnthropicEvent, Calls!Yields
    <2>3. t = [s EXCEPT !.text = Append(@, s.pieces + 1), !.pieces = @ + 1,
                        !.msgs = IF @ = 0 THEN 1 ELSE @]
      BY <1>1, <1>10, SayIs
    <2>4. /\ t.text = Append(s.text, s.pieces + 1) /\ t.msgs >= s.msgs /\ t.msgs \in Nat
          /\ t.ended = s.ended /\ t.calls = s.calls /\ t.open = s.open
      BY <1>4, <2>3
    <2>5. Gathered(t)'
      BY <1>2, <2>1, <2>2, <2>4, TextGathered
    <2>6. ByBlock(t)'
      BY <1>3, <2>2, <2>4 DEF ByBlock
    <2> QED
      BY <1>3, <2>2, <2>5, <2>6 DEF Decoded
  <1>11. CASE HeadEvent(s, ev)
    <2>1. /\ ev.e = "head" /\ s.open = None
          /\ ev.c \in Calls!CallIds /\ ev.c \notin DOMAIN s.calls
          /\ \A c \in Calls!NewCalls(s) : ev.c <= c
      BY <1>11 DEF HeadEvent
    <2>2. DOMAIN s.calls = 0..(n - 1)
      BY <1>3, <1>6, <2>1 DEF ByBlock
    <2>3. ev.c = n
      <3>1. ev.c \in Nat /\ ev.c < MaxToolCalls /\ n <= ev.c
        BY <1>7, <1>9, <2>1, <2>2
      <3>2. n \in Calls!NewCalls(s)
        BY <1>7, <1>8, <2>2, <3>1 DEF Calls!NewCalls, Calls!CallIds
      <3> QED
        BY <1>7, <2>1, <3>1, <3>2
    <2>4. full' = full /\ builder' = [builder EXCEPT !.current = n, !.input = <<>>]
      BY <2>1, <2>3 DEF Calls!AnthropicEvent, Calls!Keeps
    <2>5. builder' = [pending |-> builder.pending, current |-> n, input |-> <<>>,
                      done |-> builder.done, shown |-> builder.shown]
      BY <1>3, <2>4
    <2>6. t = [s EXCEPT !.calls = Calls!Put(@, ev.c, <<>>), !.open = ev.c]
      BY <1>1, <1>11, SayIs
    <2>7. /\ t.text = s.text /\ t.msgs = s.msgs /\ t.ended = s.ended
          /\ t.calls = Calls!Put(s.calls, n, <<>>) /\ t.open = n
      BY <1>4, <2>3, <2>6
    <2>8. Gathered(t)'
      BY <1>2, <2>4, <2>7, NothingGathered
    <2>9. /\ DOMAIN t.calls = 0..n /\ t.calls[n] = <<>>
          /\ \A i \in 1..n : t.calls[i - 1] = s.calls[i - 1]
      BY <1>7, <2>2, <2>7 DEF Calls!Put
    <2>10. n # None
      BY <1>7, <1>8
    <2>11. ByBlock(t)'
      <3>1. builder.done' = builder.done /\ builder.current' = n /\ builder.input' = <<>>
        BY <2>5
      <3>2. <<>> \in Seq(Int) /\ Calls!Plainly(<<>>) = t.calls[n]
        BY <2>9, PlainlyEmpty
      <3>3. \A i \in 1..n : /\ builder.done[i].id = i - 1
                            /\ Calls!Plainly(builder.done[i].args) = t.calls[i - 1]
        BY <1>7, <2>9
      <3> QED
        BY <1>6, <1>7, <2>7, <2>9, <2>10, <3>1, <3>2, <3>3 DEF ByBlock
    <2> QED
      BY <2>5, <2>8, <2>11 DEF Decoded
  <1>12. CASE ArgsEvent(s, ev)
    <2>1. ev.e = "args" /\ ev.c = s.open /\ s.open \in DOMAIN s.calls
      BY <1>12 DEF ArgsEvent
    <2>2. s.open # None
      BY <1>4, <1>8, <1>9, <2>1
    <2>3. /\ s.open = n /\ DOMAIN s.calls = 0..n /\ builder.input \in Seq(Int)
          /\ Calls!Plainly(builder.input) = s.calls[n] /\ builder.current = n
      BY <1>3, <1>6, <2>2 DEF ByBlock
    <2>4. PICK input : input = Append(builder.input, p)
      OBVIOUS
    <2>5. full' = full /\ builder' = [builder EXCEPT !.input = input]
      BY <2>1, <2>4 DEF Calls!AnthropicEvent, Calls!Keeps
    <2>6. builder' = [pending |-> builder.pending, current |-> n, input |-> input,
                      done |-> builder.done, shown |-> builder.shown]
      BY <1>3, <2>3, <2>5
    <2>7. t = [s EXCEPT !.calls[ev.c] = Append(@, s.pieces + 1), !.pieces = @ + 1]
      BY <1>1, <1>12, SayIs
    <2>8. /\ t.text = s.text /\ t.msgs = s.msgs /\ t.ended = s.ended /\ t.open = n
          /\ t.calls = [s.calls EXCEPT ![n] = Append(@, s.pieces + 1)]
      BY <1>4, <2>1, <2>3, <2>7
    <2>9. Gathered(t)'
      BY <1>2, <2>5, <2>8, NothingGathered
    <2>10. /\ DOMAIN t.calls = 0..n /\ t.calls[n] = Append(s.calls[n], s.pieces + 1)
           /\ \A i \in 1..n : t.calls[i - 1] = s.calls[i - 1]
      <3>1. n \in DOMAIN s.calls /\ \A i \in 1..n : i - 1 \in DOMAIN s.calls /\ i - 1 # n
        BY <1>7, <2>3
      <3> QED
        BY <2>3, <2>8, <3>1
    <2>11. input \in Seq(Int) /\ Calls!Plainly(input) = t.calls[n]
      BY <1>4, <2>1, <2>3, <2>4, <2>10, PlainlyPiece
    <2>12. n # None
      BY <1>7, <1>8
    <2>13. ByBlock(t)'
      BY <1>6, <1>7, <2>6, <2>8, <2>10, <2>11, <2>12 DEF ByBlock
    <2> QED
      BY <2>6, <2>9, <2>13 DEF Decoded
  <1>13. CASE StopEvent(ev)
    <2>1. ev.e = "stop"
      BY <1>13 DEF StopEvent
    <2>2. t = [s EXCEPT !.open = None]
      BY <1>1, <1>13, SayIs
    <2>3. /\ t.text = s.text /\ t.msgs = s.msgs /\ t.ended = s.ended /\ t.open = None
          /\ t.calls = s.calls
      BY <1>4, <2>2
    <2>4. full' = full
      BY <2>1 DEF Calls!AnthropicEvent, Calls!Keeps
    <2>5. Gathered(t)'
      BY <1>2, <2>3, <2>4, NothingGathered
    <2>6. CASE s.open = None
      <3>1. builder' = builder
        BY <1>3, <2>1, <2>6 DEF Calls!AnthropicEvent, ByBlock
      <3>2. ByBlock(t)'
        BY <1>3, <2>3, <2>6, <3>1 DEF ByBlock
      <3> QED
        BY <1>3, <2>5, <3>1, <3>2 DEF Decoded
    <2>7. CASE s.open # None
      <3>1. /\ s.open = n /\ DOMAIN s.calls = 0..n /\ builder.input \in Seq(Int)
            /\ Calls!Plainly(builder.input) = s.calls[n] /\ builder.current = n /\ n # None
        BY <1>3, <1>6, <2>7 DEF ByBlock
      <3>2. PICK x : x = [id |-> n, args |-> builder.input]
        OBVIOUS
      <3>3. PICK list : list = Append(builder.done, x)
        OBVIOUS
      <3>4. builder' = [builder EXCEPT !.done = list, !.current = None, !.input = <<>>]
        BY <2>1, <3>1, <3>2, <3>3 DEF Calls!AnthropicEvent
      <3>5. builder' = [pending |-> builder.pending, current |-> None, input |-> <<>>,
                        done |-> list, shown |-> builder.shown]
        BY <1>3, <3>4
      <3>6. x \in [id : Nat, args : Seq(Int)]
        BY <1>7, <3>1, <3>2
      <3>7. /\ list \in Seq([id : Nat, args : Seq(Int)]) /\ Len(list) = n + 1
            /\ list[n + 1] = x /\ \A i \in 1..n : list[i] = builder.done[i]
        BY <1>6, <1>7, <3>3, <3>6
      <3>8. \A i \in 1..(n + 1) : /\ list[i].id = i - 1
                                  /\ Calls!Plainly(list[i].args) = s.calls[i - 1]
        <4> SUFFICES ASSUME NEW i \in 1..(n + 1)
                     PROVE  /\ list[i].id = i - 1
                            /\ Calls!Plainly(list[i].args) = s.calls[i - 1]
          OBVIOUS
        <4>1. CASE i = n + 1
          <5>1. i - 1 = n
            BY <1>7, <4>1
          <5> QED
            BY <3>1, <3>2, <3>7, <4>1, <5>1
        <4>2. CASE i # n + 1
          <5>1. i \in 1..n
            BY <1>7, <4>2
          <5> QED
            BY <1>7, <3>7, <5>1
        <4> QED
          BY <4>1, <4>2
      <3>9. DOMAIN s.calls = 0..((n + 1) - 1) /\ DOMAIN list = 1..(n + 1)
        BY <1>7, <3>1, <3>7
      <3>10. ByBlock(t)'
        BY <2>3, <3>5, <3>7, <3>8, <3>9 DEF ByBlock
      <3> QED
        BY <2>5, <3>5, <3>10 DEF Decoded
    <2> QED
      BY <2>6, <2>7
  <1>14. CASE DoneEvent(s, ev)
    <2>1. ev.e = "done" /\ s.open = None
      BY <1>14 DEF DoneEvent
    <2>2. DOMAIN s.calls = 0..(n - 1)
      BY <1>3, <1>6, <2>1 DEF ByBlock
    <2>3. PICK list : list = IF builder.done = <<>> THEN None ELSE builder.done
      OBVIOUS
    <2>4. full' = [full EXCEPT !.done = TRUE, !.calls = list] /\ builder' = builder
      BY <2>1, <2>3 DEF Calls!AnthropicEvent, Calls!YieldsDone
    <2>5. SameCalls(list, s.calls)
      <3>1. CASE builder.done = <<>>
        <4>1. n = 0
          BY <1>6, <3>1
        <4>2. DOMAIN s.calls = {}
          BY <2>2, <4>1
        <4> QED
          BY <2>3, <3>1, <4>2, NoneSame
      <3>2. CASE builder.done # <<>>
        <4>1. list = builder.done /\ DOMAIN list = 1..n
          BY <1>7, <2>3, <3>2
        <4>2. list # None
          BY <1>7, <1>8, <4>1
        <4>3. \A i \in DOMAIN list : list[i].id = i - 1
          BY <1>7, <4>1
        <4>4. {list[i].id : i \in DOMAIN list} = 0..(n - 1)
          <5>1. \A c \in 0..(n - 1) : c + 1 \in DOMAIN list /\ list[c + 1].id = c
            BY <1>7, <4>1, <4>3
          <5>2. \A i \in DOMAIN list : list[i].id \in 0..(n - 1)
            <6>1. \A i \in 1..n : i - 1 \in 0..(n - 1)
              BY <1>7
            <6> QED
              BY <4>1, <4>3, <6>1
          <5> QED
            BY <5>1, <5>2
        <4>5. \A i \in DOMAIN list : Calls!Plainly(list[i].args) = s.calls[list[i].id]
          BY <1>7, <4>1, <4>3
        <4>6. \A i, j \in DOMAIN list : i < j => list[i].id < list[j].id
          BY <1>7, <4>1, <4>3
        <4>7. {list[i].id : i \in DOMAIN list} = DOMAIN s.calls
          BY <2>2, <4>4
        <4>8. PICK spoken : spoken = s.calls
          OBVIOUS
        <4>9. /\ {list[i].id : i \in DOMAIN list} = DOMAIN spoken
              /\ \A i \in DOMAIN list : Calls!Plainly(list[i].args) = spoken[list[i].id]
          BY <4>5, <4>7, <4>8
        <4>10. SameCalls(list, spoken)
          BY <4>2, <4>6, <4>9 DEF SameCalls
        <4> QED
          BY <4>8, <4>10
      <3> QED
        BY <3>1, <3>2
    <2>6. t = [s EXCEPT !.ended = TRUE]
      BY <1>1, <1>14, SayIs
    <2>7. t.text = s.text /\ t.msgs = s.msgs /\ t.calls = s.calls /\ t.ended = TRUE
      BY <1>4, <2>6
    <2>8. Gathered(t)'
      BY <1>2, <2>4, <2>5, <2>7, DoneGathered
    <2> QED
      BY <1>3, <2>4, <2>7, <2>8 DEF Decoded
  <1> QED
    BY <1>10, <1>11, <1>12, <1>13, <1>14

\* Ollama: text only.
LEMMA OllamaHears ==
    ASSUME NEW s, Heard(s), kind = "ollama", kind' = kind, ~s.ended, NEW ev,
           TextEvent(s, ev) \/ DoneEvent(s, ev),
           NEW p, ev.e \in {"text", "args"} => p \in {s.pieces + 1, -(s.pieces + 1)},
           Calls!OllamaEvent(ev, p)
    PROVE  Heard(Calls!Say(s, ev))'
  <1>1. PICK t : t = Calls!Say(s, ev)
    OBVIOUS
  <1>2. Sayable(s) /\ Gathered(s) /\ Decoded(s) /\ Sayable(t)
    BY <1>1, SaySayable DEF Heard
  <1>3. /\ builder = [pending |-> builder.pending, current |-> builder.current,
                      input |-> builder.input, done |-> builder.done, shown |-> builder.shown]
        /\ DOMAIN s.calls = {}
    BY <1>2 DEF Decoded
  <1>4. /\ s = [text |-> s.text, calls |-> s.calls, pieces |-> s.pieces, open |-> s.open,
                from |-> s.from, msgs |-> s.msgs, ended |-> s.ended]
        /\ s.msgs \in Nat
    BY <1>2 DEF Sayable
  <1>5. SUFFICES Gathered(t)' /\ Decoded(t)'
    BY <1>1, <1>2 DEF Heard, Sayable
  <1>6. builder' = builder
    BY DEF Calls!OllamaEvent
  <1>7. CASE TextEvent(s, ev)
    <2>1. ev.e = "text"
      BY <1>7 DEF TextEvent
    <2>2. full' = [full EXCEPT !.text = Append(@, p)]
      BY <2>1 DEF Calls!OllamaEvent, Calls!Yields
    <2>3. t = [s EXCEPT !.text = Append(@, s.pieces + 1), !.pieces = @ + 1,
                        !.msgs = IF @ = 0 THEN 1 ELSE @]
      BY <1>1, <1>7, SayIs
    <2>4. /\ t.text = Append(s.text, s.pieces + 1) /\ t.msgs >= s.msgs /\ t.msgs \in Nat
          /\ t.ended = s.ended /\ t.calls = s.calls
      BY <1>4, <2>3
    <2>5. Gathered(t)'
      BY <1>2, <2>1, <2>2, <2>4, TextGathered
    <2> QED
      BY <1>3, <1>6, <2>4, <2>5 DEF Decoded
  <1>8. CASE DoneEvent(s, ev)
    <2>1. ev.e = "done"
      BY <1>8 DEF DoneEvent
    <2>2. full' = [full EXCEPT !.done = TRUE, !.calls = None]
      BY <2>1 DEF Calls!OllamaEvent, Calls!YieldsDone
    <2>3. t = [s EXCEPT !.ended = TRUE]
      BY <1>1, <1>8, SayIs
    <2>4. t.text = s.text /\ t.msgs = s.msgs /\ t.calls = s.calls /\ t.ended = TRUE
      BY <1>4, <2>3
    <2>5. Gathered(t)'
      BY <1>2, <1>3, <2>2, <2>4, NoneSame, DoneGathered
    <2> QED
      BY <1>3, <1>6, <2>4, <2>5 DEF Decoded
  <1> QED
    BY <1>7, <1>8

\* The Claude CLI: of a longer text the rest is passed on.
LEMMA BeyondText ==
    ASSUME NEW S, NEW u \in Seq(S), NEW q \in S, NEW n, n = Len(u)
    PROVE  /\ SubSeq(Append(u, q), 1, Len(Append(u, q))) = Append(u, q)
           /\ SubSeq(Append(u, q), n + 1, Len(Append(u, q))) = <<q>>
           /\ SubSeq(u, 1, Len(u)) = u
           /\ SubSeq(u, n + 1, Len(u)) = <<>>
  <1>1. PICK v : v = Append(u, q)
    OBVIOUS
  <1>2. n \in Nat /\ v \in Seq(S) /\ Len(v) = n + 1 /\ v[n + 1] = q
    BY <1>1
  <1>3. SubSeq(v, 1, n + 1) = v
    BY <1>2
  <1>4. SubSeq(v, n + 1, n + 1) = <<q>>
    <2>1. PICK w : w = SubSeq(v, n + 1, n + 1)
      OBVIOUS
    <2>2. w \in Seq(S) /\ Len(w) = 1 /\ w[1] = v[n + 1]
      BY <1>2, <2>1, SubSeqProperties
    <2>3. PICK x : x = <<q>>
      OBVIOUS
    <2>4. x \in Seq(S) /\ Len(x) = 1 /\ x[1] = q
      BY <2>3
    <2>5. Len(w) = Len(x) /\ \A i \in 1..Len(w) : w[i] = x[i]
      BY <1>2, <2>2, <2>4
    <2>6. w = x
      BY <2>2, <2>4, <2>5, SeqEqual
    <2> QED
      BY <2>1, <2>3, <2>6
  <1>5. SubSeq(u, 1, n) = u
    BY <1>2
  <1>6. SubSeq(u, n + 1, n) = <<>>
    BY <1>2
  <1> QED
    BY <1>1, <1>2, <1>3, <1>4, <1>5, <1>6

LEMMA CliHears ==
    ASSUME NEW s, Heard(s), kind = "claude-cli", kind' = kind, ~s.ended, NEW ev,
           TextEvent(s, ev) \/ MessageEvent(s, ev) \/ NoteEvent(ev) \/ DoneEvent(s, ev),
           said' = Calls!Say(s, ev), Calls!CliEvent(ev)
    PROVE  Heard(Calls!Say(s, ev))'
  <1>1. PICK t : t = Calls!Say(s, ev)
    OBVIOUS
  <1>2. Sayable(s) /\ Gathered(s) /\ Decoded(s) /\ Sayable(t) /\ said' = t
    BY <1>1, SaySayable DEF Heard
  <1>3. /\ builder = [pending |-> builder.pending, current |-> builder.current,
                      input |-> builder.input, done |-> builder.done, shown |-> builder.shown]
        /\ ByLength(s)
    BY <1>2 DEF Decoded
  <1>4. /\ s = [text |-> s.text, calls |-> s.calls, pieces |-> s.pieces, open |-> s.open,
                from |-> s.from, msgs |-> s.msgs, ended |-> s.ended]
        /\ s.msgs \in Nat /\ s.pieces + 1 \in Piece /\ s.text \in Seq(Piece)
        /\ s.ended = FALSE
        /\ s.msgs <= 1 => s.from = 0
        /\ t.msgs <= 1 => t.from = 0
    BY <1>2 DEF Sayable, Piece
  <1>5. SUFFICES Gathered(t)' /\ Decoded(t)'
    BY <1>1, <1>2 DEF Heard, Sayable
  <1>6. /\ full = [text |-> full.text, calls |-> full.calls, done |-> full.done]
        /\ full.done = FALSE /\ full.calls = None
        /\ s.msgs <= 1 => full.text \in Seq(Int) /\ Calls!Plainly(full.text) = s.text
    BY <1>2 DEF Gathered, Sayable
  <1>7. PICK text : text = SubSeq(t.text, t.from + 1, Len(t.text))
    OBVIOUS
  <1>8. PICK rest : rest = SubSeq(text, builder.shown + 1, Len(text))
    OBVIOUS
  <1>9. PICK n : n = Len(s.text)
    OBVIOUS
  <1>10. CASE TextEvent(s, ev) \/ MessageEvent(s, ev)
    <2>1. ev.e \in {"text", "message"} /\ ev.e # "note"
      BY <1>10 DEF TextEvent, MessageEvent
    <2>2. /\ full' = [full EXCEPT !.text = @ \o rest]
          /\ builder' = [builder EXCEPT !.shown = IF Len(text) > @ THEN Len(text) ELSE @]
      BY <1>2, <1>7, <1>8, <2>1 DEF Calls!CliEvent, Calls!Beyond, Calls!MessageText
    <2>3. /\ t.text = Append(s.text, s.pieces + 1) /\ t.msgs >= s.msgs
          /\ t.ended = s.ended /\ t.calls = s.calls
      <3>1. CASE TextEvent(s, ev)
        <4>1. t = [s EXCEPT !.text = Append(@, s.pieces + 1), !.pieces = @ + 1,
                            !.msgs = IF @ = 0 THEN 1 ELSE @]
          BY <1>1, <3>1, SayIs
        <4> QED
          BY <1>4, <4>1
      <3>2. CASE MessageEvent(s, ev)
        <4>1. t = [s EXCEPT !.text = Append(@, s.pieces + 1), !.pieces = @ + 1,
                            !.from = Len(s.text), !.msgs = @ + 1]
          BY <1>1, <3>2, SayIs
        <4> QED
          BY <1>4, <4>1
      <3> QED
        BY <1>10, <3>1, <3>2
    <2>4. full' = [text |-> full.text \o rest, calls |-> None, done |-> FALSE]
      BY <1>6, <2>2
    <2>5. builder' = [pending |-> builder.pending, current |-> builder.current,
                      input |-> builder.input, done |-> builder.done,
                      shown |-> IF Len(text) > builder.shown THEN Len(text) ELSE builder.shown]
      BY <1>3, <2>2
    <2>6. ASSUME t.msgs <= 1
          PROVE  /\ full.text \o rest \in Seq(Int)
                 /\ Calls!Plainly(full.text \o rest) = t.text
                 /\ builder'.shown = Len(t.text)
      <3>1. s.msgs <= 1 /\ t.from = 0 /\ t.msgs \in Nat
        BY <1>2, <1>4, <2>3, <2>6 DEF Sayable
      <3>2. builder.shown = n /\ n \in Nat
        BY <1>3, <1>4, <1>9, <3>1 DEF ByLength
      <3>3. text = t.text
        BY <1>4, <1>7, <1>9, <2>3, <3>1, BeyondText
      <3>4. rest = <<s.pieces + 1>>
        BY <1>4, <1>8, <1>9, <2>3, <3>2, <3>3, BeyondText
      <3>5. full.text \in Seq(Int) /\ Calls!Plainly(full.text) = s.text
        BY <1>6, <3>1
      <3>6. full.text \o rest = Append(full.text, s.pieces + 1)
        BY <3>4, <3>5
      <3>7. Len(t.text) = n + 1
        BY <1>4, <1>9, <2>3
      <3>8. /\ Append(full.text, s.pieces + 1) \in Seq(Int)
            /\ Calls!Plainly(Append(full.text, s.pieces + 1)) = t.text
        BY <1>4, <2>3, <3>5, PlainlyPiece
      <3>9. builder'.shown = Len(t.text)
        BY <2>5, <3>2, <3>3, <3>7
      <3> QED
        BY <3>6, <3>8, <3>9
    <2>7. Gathered(t)'
      BY <1>4, <1>6, <2>3, <2>4, <2>6 DEF Gathered
    <2>8. ByLength(t)'
      BY <1>3, <2>3, <2>6 DEF ByLength
    <2> QED
      BY <2>5, <2>7, <2>8 DEF Decoded
  <1>11. CASE NoteEvent(ev)
    <2>1. ev.e = "note" /\ t = s
      BY <1>1, <1>11, SayIs DEF NoteEvent
    <2>2. full' = [full EXCEPT !.text = Append(@, 0)] /\ builder' = builder
      BY <2>1 DEF Calls!CliEvent, Calls!Yields
    <2>3. full' = [text |-> Append(full.text, 0), calls |-> None, done |-> FALSE]
      BY <1>6, <2>2
    <2>4. s.msgs <= 1 => Append(full.text, 0) \in Seq(Int)
                         /\ Calls!Plainly(Append(full.text, 0)) = s.text
      BY <1>6, PlainlyNext DEF Calls!AddPiece
    <2>5. Gathered(t)'
      BY <1>4, <1>6, <2>1, <2>3, <2>4 DEF Gathered
    <2> QED
      BY <1>3, <2>1, <2>2, <2>5 DEF Decoded, ByLength
  <1>12. CASE DoneEvent(s, ev)
    <2>1. ev.e = "done"
      BY <1>12 DEF DoneEvent
    <2>2. /\ full' = [full EXCEPT !.text = @ \o rest, !.done = TRUE, !.calls = None]
          /\ builder' = builder
      BY <1>2, <1>7, <1>8, <2>1 DEF Calls!CliEvent, Calls!Beyond, Calls!MessageText
    <2>3. full' = [text |-> full.text \o rest, calls |-> None, done |-> TRUE]
      BY <1>6, <2>2
    <2>4. t = [s EXCEPT !.ended = TRUE]
      BY <1>1, <1>12, SayIs
    <2>5. t.text = s.text /\ t.msgs = s.msgs /\ t.calls = s.calls /\ t.ended = TRUE
      BY <1>4, <2>4
    <2>6. ASSUME t.msgs <= 1
          PROVE  full.text \o rest = full.text /\ full.text \in Seq(Int)
                 /\ Calls!Plainly(full.text) = t.text
      <3>1. builder.shown = n /\ t.from = 0
        BY <1>3, <1>4, <1>9, <2>5, <2>6 DEF ByLength
      <3>2. text = s.text
        BY <1>4, <1>7, <1>9, <2>5, <3>1, BeyondText
      <3>3. rest = <<>>
        BY <1>4, <1>8, <1>9, <3>1, <3>2, BeyondText
      <3>4. full.text \in Seq(Int) /\ Calls!Plainly(full.text) = s.text
        BY <1>6, <2>5, <2>6
      <3> QED
        BY <2>5, <3>3, <3>4
    <2>7. SameCalls(None, t.calls)
      BY <1>3, <2>5, NoneSame DEF ByLength
    <2>8. Gathered(t)'
      BY <2>3, <2>5, <2>6, <2>7 DEF Gathered
    <2> QED
      BY <1>3, <2>2, <2>5, <2>8 DEF Decoded
  <1> QED
    BY <1>10, <1>11, <1>12

\* What is recorded after the last event is what was said.
LEMMA HeardWhole ==
    ASSUME NEW s, OnItsWay(s), Heard(s), full.done
    PROVE  /\ said.ended
           /\ said.msgs <= 1 => Calls!Plainly(full.text) = said.text
           /\ SameCalls(full.calls, said.calls)
  <1>1. s.ended
    BY DEF Heard, Gathered
  <1>2. Calls!Events(s) = {}
    BY <1>1 DEF Calls!Events
  <1>3. said = s
    BY <1>2 DEF OnItsWay
  <1> QED
    BY <1>1, <1>3 DEF Heard, Gathered

\* Nothing was heard, and no stream begun.
LEMMA SilentHeard ==
    ASSUME kind \in Calls!Kinds, builder = Calls!NoBuilder, full = Calls!NothingYet
    PROVE  Heard(Calls!Silent)
  <1>1. PICK s : s = Calls!Silent
    OBVIOUS
  <1>2. /\ s = [text |-> <<>>, calls |-> s.calls, pieces |-> 0, open |-> None, from |-> 0,
                msgs |-> 0, ended |-> FALSE]
        /\ DOMAIN s.calls = {} /\ s.calls \in [DOMAIN s.calls -> Seq(Piece)]
    BY <1>1 DEF Calls!Silent, Calls!NoCalls
  <1>3. Sayable(s)
    <2>1. s.text = <<>> /\ s.pieces = 0 /\ s.open = None /\ s.from = 0 /\ s.msgs = 0
      BY <1>2
    <2>2. s \in [text : Seq(Piece), calls : {s.calls}, pieces : Nat,
                open : Calls!CallIds \union {None}, from : Nat, msgs : Nat, ended : BOOLEAN]
      <3>1. PICK f : f = s.calls
        OBVIOUS
      <3>2. s = [text |-> <<>>, calls |-> f, pieces |-> 0, open |-> None, from |-> 0,
                 msgs |-> 0, ended |-> FALSE]
        BY <1>2, <3>1
      <3>3. s \in [text : Seq(Piece), calls : {f}, pieces : Nat,
                  open : Calls!CallIds \union {None}, from : Nat, msgs : Nat, ended : BOOLEAN]
        BY <3>2
      <3> QED
        BY <3>1, <3>3
    <2> QED
      BY <1>2, <2>1, <2>2 DEF Sayable
  <1>4. Gathered(s)
    <2>1. <<>> \in Seq(Int) /\ Calls!Plainly(<<>>) = <<>>
      BY PlainlyEmpty
    <2>2. s.text = <<>> /\ s.ended = FALSE
      BY <1>2
    <2>3. /\ full = [text |-> full.text, calls |-> full.calls, done |-> full.done]
          /\ full.text = <<>> /\ full.calls = None /\ full.done = FALSE
      BY DEF Calls!NothingYet
    <2> QED
      BY <2>1, <2>2, <2>3 DEF Gathered
  <1>5. Decoded(s)
    <2>1. /\ builder = [pending |-> builder.pending, current |-> None, input |-> <<>>,
                        done |-> <<>>, shown |-> 0]
          /\ DOMAIN builder.pending = {}
      BY DEF Calls!NoBuilder, Calls!NoCalls
    <2>2. ByIndex(s)
      BY <1>2, <2>1 DEF ByIndex
    <2>3. ByBlock(s)
      <3>1. /\ builder.done = <<>> /\ builder.current = None /\ s.open = None
            /\ <<>> \in Seq([id : Nat, args : Seq(Int)]) /\ Len(<<>>) = 0 /\ DOMAIN <<>> = {}
        BY <1>2, <2>1
      <3>2. DOMAIN s.calls = 0..(0 - 1)
        BY <1>2
      <3> QED
        BY <3>1, <3>2 DEF ByBlock
    <2>4. ByLength(s)
      BY <1>2, <2>1 DEF ByLength
    <2> QED
      BY <1>2, <2>1, <2>2, <2>3, <2>4 DEF Decoded, Calls!Kinds
  <1> QED
    BY <1>1, <1>3, <1>4, <1>5 DEF Heard

LEMMA WholeStarts == Calls!Init => WholeInv
  BY DEF Calls!Init, WholeInv

\* A step that ends a call of which nothing was heard, or goes on to the next model.
LEMMA WholeBefore ==
    ASSUME CallInv, WholeInv, callPc \in {"next", "asked"}, UNCHANGED <<full, builder, buffer>>,
           \/ callPc' \in {"next", "asked"}
           \/ callPc' = "end" /\ result'.calls = None
    PROVE  WholeInv'
  <1>1. builder' = Calls!NoBuilder /\ buffer' = None /\ full' = Calls!NothingYet
    BY DEF CallInv, AnswerInv, WholeInv
  <1>2. full'.done = FALSE
    BY <1>1 DEF Calls!NothingYet
  <1>3. callPc' = "end" => DoneMeansWhole'
    BY <1>2 DEF DoneMeansWhole, Calls!DoneMeansWhole
  <1> QED
    BY <1>1, <1>3 DEF WholeInv

\* The stream is handed to the consumer.
LEMMA WholeStarted ==
    ASSUME CallInv, WholeInv, Calls!StreamStarts
    PROVE  WholeInv'
  <1>1. /\ callPc = "asked" /\ callPc' = "stream"
        /\ UNCHANGED <<kind, said, buffer, builder, full>>
    BY DEF Calls!StreamStarts, Calls!server, Calls!stream
  <1>2. /\ builder = Calls!NoBuilder /\ buffer = None /\ full = Calls!NothingYet
        /\ said = Calls!Silent /\ kind \in Calls!Kinds
    BY <1>1 DEF CallInv, AnswerInv, WholeInv
  <1>3. Heard(Calls!Silent)'
    <2>1. Heard(Calls!Silent)
      BY <1>2, SilentHeard
    <2> QED
      BY <1>1, <2>1 DEF Heard, Sayable, Gathered, Decoded, ByIndex, ByBlock, ByLength
  <1>4. OnItsWay(Calls!Silent)'
    BY <1>1, <1>2 DEF OnItsWay
  <1> QED
    BY <1>1, <1>3, <1>4 DEF WholeInv

\* A chunk ends inside an event.
LEMMA WholeInside ==
    ASSUME CallInv, WholeInv, Calls!ChunkEndsInside
    PROVE  WholeInv'
  <1>1. /\ callPc = "stream" /\ callPc' = "stream" /\ buffer = None /\ kind # "claude-cli"
        /\ kind \in Calls!Kinds /\ UNCHANGED <<kind, quirk, builder, full>>
    BY DEF Calls!ChunkEndsInside, CallInv, AnswerInv
  <1>2. PICK ev \in Calls!Events(said), garbled \in BOOLEAN :
            buffer' = [ev |-> ev, garbled |-> garbled] /\ said' = Calls!Say(said, ev)
    BY DEF Calls!ChunkEndsInside
  <1>3. CASE quirk
    BY <1>1, <1>3 DEF WholeInv
  <1>4. CASE ~quirk
    <2>1. PICK s : OnItsWay(s) /\ Heard(s)
      BY <1>1, <1>4 DEF WholeInv
    <2>2. said = s /\ Sayable(s)
      BY <1>1, <2>1 DEF OnItsWay, Heard
    <2>3. \/ TextEvent(s, ev) \/ MessageEvent(s, ev) \/ HeadEvent(s, ev) \/ ArgsEvent(s, ev)
          \/ StopEvent(ev) \/ NoteEvent(ev) \/ DoneEvent(s, ev) \/ ErrorEvent(ev)
      BY <1>1, <2>2, EventForms
    <2>4. MaxToolCalls \in Nat
      BY StreamAssumption
    <2>5. s.pieces + 1 \in Nat /\ \A c \in Calls!CallIds : c \in Nat
      BY <2>2, <2>4 DEF Sayable, Calls!CallIds
    <2> DEFINE names == {"text", "message", "head", "args", "stop", "note", "done", "error"}
               sent == [e : names] \union [e : names, p : Nat] \union [e : names, c : Nat]
                          \union [e : names, c : Nat, p : Nat]
    <2>6. ev \in sent
      <3>1. CASE TextEvent(s, ev) \/ MessageEvent(s, ev)
        <4>1. ev \in [e : names, p : Nat]
          BY <2>5, <3>1 DEF TextEvent, MessageEvent
        <4> QED
          BY <4>1
      <3>2. CASE HeadEvent(s, ev)
        <4>1. ev \in [e : names, c : Nat]
          BY <2>5, <3>2 DEF HeadEvent
        <4> QED
          BY <4>1
      <3>3. CASE ArgsEvent(s, ev)
        <4>1. ev.c \in Nat
          BY <2>2, <2>5, <3>3 DEF ArgsEvent, Sayable
        <4>2. ev \in [e : names, c : Nat, p : Nat]
          BY <2>5, <3>3, <4>1 DEF ArgsEvent
        <4> QED
          BY <4>2
      <3>4. CASE StopEvent(ev) \/ NoteEvent(ev) \/ DoneEvent(s, ev) \/ ErrorEvent(ev)
        <4>1. ev \in [e : names]
          BY <3>4 DEF StopEvent, NoteEvent, DoneEvent, ErrorEvent
        <4> QED
          BY <4>1
      <3> QED
        BY <2>3, <3>1, <3>2, <3>3, <3>4
    <2>7. buffer' # None /\ buffer'.ev = ev
      <3>1. None \notin [ev : sent, garbled : BOOLEAN]
        BY StreamAssumption
      <3> HIDE DEF sent, names
      <3> QED
        BY <1>2, <2>6, <3>1
    <2>8. Heard(s)'
      BY <1>1, <2>1 DEF Heard, Sayable, Gathered, Decoded, ByIndex, ByBlock, ByLength
    <2>9. ev \in Calls!Events(s)'
      BY <1>1, <1>2, <2>2 DEF Calls!Events
    <2>10. OnItsWay(s)'
      BY <1>1, <1>2, <2>2, <2>7, <2>9 DEF OnItsWay
    <2> QED
      BY <1>1, <2>8, <2>10 DEF WholeInv
  <1> QED
    BY <1>3, <1>4

\* An event is there as a whole.
LEMMA WholeArrives ==
    ASSUME CallInv, WholeInv, Calls!EventArrives
    PROVE  WholeInv'
  <1>1. /\ callPc = "stream" /\ UNCHANGED <<kind, quirk, mode>> /\ kind \in Calls!Kinds
        /\ callPc' \in {"stream", "end"}
    BY DEF Calls!EventArrives, Calls!Returns, Calls!call, CallInv, AnswerInv
  <1>2. CASE quirk
    BY <1>1, <1>2 DEF WholeInv, DoneMeansWhole, Calls!DoneMeansWhole
  <1>3. CASE ~quirk
    <2>1. PICK s : OnItsWay(s) /\ Heard(s)
      BY <1>1, <1>3 DEF WholeInv
    <2>2. PICK ev \in IF buffer = None THEN Calls!Events(said) ELSE {buffer.ev} :
            LET p == IF ev.e \notin {"text", "args"} THEN 0
                     ELSE IF buffer # None /\ buffer.garbled THEN -ev.p ELSE ev.p
            IN  /\ said' = IF buffer = None THEN Calls!Say(said, ev) ELSE said
                /\ buffer' = None
                /\ IF ev.e = "error"
                   THEN Calls!Returns(Calls!Failed) /\ UNCHANGED <<builder, full>>
                   ELSE /\ UNCHANGED <<callPc, result>>
                        /\ CASE kind = "openai" ->
                                  \E usage \in IF quirk THEN BOOLEAN ELSE {FALSE} :
                                      Calls!OpenAIEvent(ev, p, usage)
                             [] kind = "anthropic" -> Calls!AnthropicEvent(ev, p)
                             [] kind = "ollama" -> Calls!OllamaEvent(ev, p)
                             [] kind = "claude-cli" -> Calls!CliEvent(ev)
      BY DEF Calls!EventArrives
    <2>3. PICK p : p = IF ev.e \notin {"text", "args"} THEN 0
                       ELSE IF buffer # None /\ buffer.garbled THEN -ev.p ELSE ev.p
      OBVIOUS
    <2>4. ev \in Calls!Events(s) /\ said' = Calls!Say(s, ev) /\ buffer' = None
      <3>1. CASE buffer = None
        BY <2>1, <2>2, <3>1 DEF OnItsWay
      <3>2. CASE buffer # None
        BY <2>1, <2>2, <3>2 DEF OnItsWay
      <3> QED
        BY <3>1, <3>2
    <2>5. /\ ~s.ended /\ Sayable(s)
          /\ \/ TextEvent(s, ev) \/ MessageEvent(s, ev) \/ HeadEvent(s, ev) \/ ArgsEvent(s, ev)
             \/ StopEvent(ev) \/ NoteEvent(ev) \/ DoneEvent(s, ev) \/ ErrorEvent(ev)
      BY <1>1, <2>1, <2>4, EventForms DEF Heard
    <2>6. CASE ev.e = "error"
      <3>1. callPc' = "end" /\ result' = Calls!Failed /\ full' = full
        BY <2>2, <2>6 DEF Calls!Returns
      <3>2. ~full.done
        BY <2>1, <2>5 DEF Heard, Gathered
      <3>3. DoneMeansWhole'
        BY <3>1, <3>2 DEF DoneMeansWhole, Calls!DoneMeansWhole, Calls!Failed
      <3> QED
        BY <3>1, <3>3 DEF WholeInv
    <2>7. CASE ev.e # "error"
      <3>1. /\ callPc' = "stream" /\ ~ErrorEvent(ev)
            /\ kind = "openai" => Calls!OpenAIEvent(ev, p, FALSE)
            /\ kind = "anthropic" => Calls!AnthropicEvent(ev, p)
            /\ kind = "ollama" => Calls!OllamaEvent(ev, p)
            /\ kind = "claude-cli" => Calls!CliEvent(ev)
        <4>1. callPc' = "stream" /\ ~ErrorEvent(ev)
          BY <1>1, <2>2, <2>7 DEF ErrorEvent
        <4>2. kind = "openai" => Calls!OpenAIEvent(ev, p, FALSE)
          BY <1>3, <2>2, <2>3, <2>7
        <4>3. kind = "anthropic" => Calls!AnthropicEvent(ev, p)
          BY <2>2, <2>3, <2>7
        <4>4. kind = "ollama" => Calls!OllamaEvent(ev, p)
          BY <2>2, <2>3, <2>7
        <4>5. kind = "claude-cli" => Calls!CliEvent(ev)
          BY <2>2, <2>7
        <4> QED
          BY <4>1, <4>2, <4>3, <4>4, <4>5
      <3>2. ev.e \in {"text", "args"} => p \in {s.pieces + 1, -(s.pieces + 1)}
        <4>1. ev.e \in {"text", "args"} => ev.p = s.pieces + 1
          BY <2>5 DEF TextEvent, MessageEvent, HeadEvent, ArgsEvent, StopEvent, NoteEvent,
                      DoneEvent, ErrorEvent
        <4> QED
          BY <2>3, <4>1
      <3>3. Heard(Calls!Say(s, ev))'
        <4>1. CASE kind = "openai"
          <5>1. TextEvent(s, ev) \/ HeadEvent(s, ev) \/ ArgsEvent(s, ev) \/ DoneEvent(s, ev)
            BY <2>5, <3>1, <4>1 DEF MessageEvent, StopEvent, NoteEvent
          <5> QED
            BY <1>1, <2>1, <2>5, <3>1, <3>2, <4>1, <5>1, OpenAIHears
        <4>2. CASE kind = "anthropic"
          <5>1. \/ TextEvent(s, ev) \/ HeadEvent(s, ev) \/ ArgsEvent(s, ev) \/ StopEvent(ev)
                \/ DoneEvent(s, ev)
            BY <2>5, <3>1, <4>2 DEF MessageEvent, NoteEvent
          <5> QED
            BY <1>1, <2>1, <2>5, <3>1, <3>2, <4>2, <5>1, AnthropicHears
        <4>3. CASE kind = "ollama"
          <5>1. TextEvent(s, ev) \/ DoneEvent(s, ev)
            BY <2>5, <3>1, <4>3 DEF MessageEvent, HeadEvent, ArgsEvent, StopEvent, NoteEvent
          <5> QED
            BY <1>1, <2>1, <2>5, <3>1, <3>2, <4>3, <5>1, OllamaHears
        <4>4. CASE kind = "claude-cli"
          <5>1. TextEvent(s, ev) \/ MessageEvent(s, ev) \/ NoteEvent(ev) \/ DoneEvent(s, ev)
            BY <2>5, <3>1, <4>4 DEF HeadEvent, ArgsEvent, StopEvent
          <5> QED
            BY <1>1, <2>1, <2>4, <2>5, <3>1, <4>4, <5>1, CliHears
        <4> QED
          BY <1>1, <4>1, <4>2, <4>3, <4>4 DEF Calls!Kinds
      <3>4. OnItsWay(Calls!Say(s, ev))'
        BY <2>4 DEF OnItsWay
      <3> QED
        BY <3>1, <3>3, <3>4 DEF WholeInv
    <2> QED
      BY <2>6, <2>7
  <1> QED
    BY <1>2, <1>3

\* The stream breaks, or ends.
LEMMA WholeEnds ==
    ASSUME CallInv, WholeInv, Calls!StreamBreaks \/ Calls!StreamEnds
    PROVE  WholeInv'
  <1>1. /\ callPc = "stream" /\ callPc' = "end"
        /\ UNCHANGED <<kind, quirk, said, full>>
        /\ \/ result' = Calls!Failed
           \/ result' = [ok |-> TRUE, text |-> full.text, calls |-> full.calls]
    BY DEF Calls!StreamBreaks, Calls!StreamEnds, Calls!Returns, Calls!server, Calls!stream
  <1>2. CASE quirk
    BY <1>1, <1>2 DEF WholeInv, DoneMeansWhole, Calls!DoneMeansWhole
  <1>3. CASE ~quirk
    <2>1. PICK s : OnItsWay(s) /\ Heard(s)
      BY <1>1, <1>3 DEF WholeInv
    <2>2. CASE full.done
      <3>1. /\ said.ended
            /\ said.msgs <= 1 => Calls!Plainly(full.text) = said.text
            /\ SameCalls(full.calls, said.calls)
        BY <2>1, <2>2, HeardWhole
      <3>2. DoneMeansWhole'
        BY <1>1, <3>1 DEF DoneMeansWhole, Calls!DoneMeansWhole, SameCalls, Calls!Failed
      <3> QED
        BY <1>1, <3>2 DEF WholeInv
    <2>3. CASE ~full.done
      <3>1. full.calls = None
        BY <2>1, <2>3 DEF Heard, Gathered
      <3>2. result'.calls = None
        BY <1>1, <3>1 DEF Calls!Failed
      <3>3. DoneMeansWhole'
        BY <1>1, <2>3, <3>2 DEF DoneMeansWhole, Calls!DoneMeansWhole
      <3> QED
        BY <1>1, <3>3 DEF WholeInv
    <2> QED
      BY <2>2, <2>3
  <1> QED
    BY <1>2, <1>3

LEMMA WholeStep ==
    ASSUME CallInv, WholeInv, [Calls!Next]_(Calls!vars)
    PROVE  WholeInv'
  <1>1. CASE UNCHANGED Calls!vars
    <2>1. UNCHANGED <<callPc, kind, quirk, mode, said, buffer, builder, full, result>>
      BY <1>1 DEF Calls!vars, Calls!call, Calls!server, Calls!stream
    <2>2. DoneMeansWhole => DoneMeansWhole'
      BY <2>1 DEF DoneMeansWhole, Calls!DoneMeansWhole
    <2>3. ASSUME NEW s, OnItsWay(s), Heard(s)
          PROVE  OnItsWay(s)' /\ Heard(s)'
      <3>1. Calls!Events(s)' = Calls!Events(s)
        BY <2>1 DEF Calls!Events
      <3>2. OnItsWay(s)'
        BY <2>1, <2>3, <3>1 DEF OnItsWay
      <3>3. Sayable(s)' /\ Gathered(s)' /\ Decoded(s)'
        BY <2>1, <2>3 DEF Heard, Sayable, Gathered, Decoded, ByIndex, ByBlock, ByLength
      <3> QED
        BY <3>2, <3>3 DEF Heard
    <2> QED
      BY <2>1, <2>2, <2>3 DEF WholeInv
  <1>2. CASE Calls!SkipCandidate \/ Calls!Exhausted \/ Calls!CallFails \/ Calls!RefusalUnnoticed
    <2>1. /\ callPc \in {"next", "asked"} /\ UNCHANGED <<full, builder, buffer>>
          /\ \/ callPc' \in {"next", "asked"}
             \/ callPc' = "end" /\ result'.calls = None
      <3>1. CASE Calls!SkipCandidate \/ Calls!Exhausted
        BY <3>1 DEF Calls!SkipCandidate, Calls!Exhausted, Calls!Returns, Calls!Failed,
                    Calls!stream
      <3>2. CASE Calls!CallFails
        <4>1. PICK e : IF mode # "summarize" /\ Calls!FallbackAllowed(e, Calls!Config(Calls!Current))
                       THEN callPc' = "next" /\ UNCHANGED result
                       ELSE Calls!Returns(Calls!Failed)
          BY <3>2 DEF Calls!CallFails
        <4>2. callPc = "asked" /\ UNCHANGED <<full, builder, buffer>>
          BY <3>2 DEF Calls!CallFails, Calls!stream
        <4> QED
          BY <4>1, <4>2 DEF Calls!Returns, Calls!Failed
      <3>3. CASE Calls!RefusalUnnoticed
        BY <3>3 DEF Calls!RefusalUnnoticed, Calls!Returns, Calls!stream
      <3> QED
        BY <1>2, <3>1, <3>2, <3>3
    <2> QED
      BY <2>1, WholeBefore
  <1>3. CASE Calls!AskCandidate
    <2>1. callPc = "next" /\ callPc' = "asked" /\ UNCHANGED <<full, builder, buffer>>
      BY <1>3 DEF Calls!AskCandidate, Calls!stream
    <2> QED
      BY <2>1, WholeBefore
  <1>4. CASE \/ Calls!OpenAIReplies \/ Calls!AnthropicReplies \/ Calls!OllamaReplies
             \/ Calls!CliReplies \/ Calls!SummaryReplies
    <2>1. mode # "stream" /\ mode' = mode /\ callPc' = "end"
      BY <1>4 DEF Calls!OpenAIReplies, Calls!AnthropicReplies, Calls!OllamaReplies,
                  Calls!CliReplies, Calls!SummaryReplies, Calls!Replies, Calls!Returns, Calls!call
    <2> QED
      BY <2>1 DEF WholeInv, DoneMeansWhole, Calls!DoneMeansWhole
  <1>5. CASE Calls!Done
    BY <1>1, <1>5 DEF Calls!Done
  <1> QED
    BY <1>1, <1>2, <1>3, <1>4, <1>5, WholeStarted, WholeInside, WholeArrives, WholeEnds
    DEF Calls!Next

\* The decoders of the streams lose and mix up nothing, for any number of pieces, calls and
\* notes, however the events are cut into chunks and the pieces of several calls
\* interleaved: an answer recorded after its last event has the text that was said and its
\* calls, whole and in order, and calls are recorded only of an answer that was finished
\* (chat_stream of the four providers, and stream_with_tool_loop, which consumes it).
THEOREM AnswersAreWhole == Calls!Spec => []DoneMeansWhole
  <1>1. CallInv /\ WholeInv => DoneMeansWhole
    BY DEF CallInv, AnswerInv, WholeInv, DoneMeansWhole, Calls!DoneMeansWhole
  <1>2. CallInv /\ WholeInv /\ [Calls!Next]_(Calls!vars) => (CallInv /\ WholeInv)'
    BY CallStep, WholeStep
  <1>3. Calls!Spec => [](CallInv /\ WholeInv)
    BY CallStarts, WholeStarts, <1>2, PTL DEF Calls!Spec
  <1> QED
    BY <1>1, <1>3, PTL
=============================================================================
