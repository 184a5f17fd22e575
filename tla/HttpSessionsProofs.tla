------------------------- MODULE HttpSessionsProofs -------------------------
(***************************************************************************)
(* The session table of the HTTP server stays consistent, loses no answer  *)
(* it still lists, and can deadlock in one place only, for any number of   *)
(* requests and ids and any limit of the table.                            *)
(*                                                                         *)
(* The argument rests on what a handler that cloned an agent knows of the  *)
(* map it has unlocked: the agent may have left the map, but it is listed  *)
(* under no other id (AgentInv); and a handler that holds an agent's mutex *)
(* runs its turn, or is the result handler of chat or approve_tool         *)
(* (LockInv).                                                              *)
(***************************************************************************)
EXTENDS HttpSessions, SequenceTheorems, FiniteSetTheorems, TLAPS

\* What a request is.
Requests == [kind : Kinds \union {"none"}, id : Ids \union {Nobody}, agent : Agents \union {NoAgent}]

\* The types of the map, of the mutexes and of the requests.
MapTypes ==
    /\ agentOf \in [Ids -> (1..used) \union {NoAgent}]
    /\ used \in 0..MaxAgents
    /\ dirty \subseteq {s \in Ids : InMap(s)}
    /\ unsaved \subseteq 1..used
LockTypes ==
    /\ table \in Reqs \union {saver, Nobody}
    /\ agentLock \in [Agents -> Reqs \union {Nobody}]
    /\ gate \in Reqs \union {Nobody}
ReqTypes ==
    /\ pc \in [Reqs -> States]
    /\ req \in [Reqs -> Requests]
    /\ \A r \in Reqs : IF pc[r] = "idle" THEN req[r] = NoReq ELSE req[r].kind \in Kinds /\ req[r].id \in Ids

\* A list without repetition, and what is in it.
Distinct(q) == \A i, j \in DOMAIN q : q[i] = q[j] => i = j
Listed(q) == {q[i] : i \in DOMAIN q}

\* The recency list has the ids of the map, once each.
RecencyInv ==
    /\ recency \in Seq(Ids) /\ Distinct(recency)
    /\ Listed(recency) = {s \in Ids : InMap(s)}

\* An agent is listed under one id, and under no other than that of the request
\* that holds it.
AgentInv ==
    /\ \A s, t \in Ids : InMap(s) /\ agentOf[s] = agentOf[t] => s = t
    /\ \A r \in Reqs :
        /\ req[r].agent # NoAgent => req[r].agent \in 1..used
        /\ pc[r] \in {"agent", "turn", "mark"} \/ (pc[r] = "gate" /\ req[r].kind = "openai")
             => req[r].agent # NoAgent
        /\ \A s \in Ids : InMap(s) /\ agentOf[s] = req[r].agent => s = req[r].id

\* Who holds an agent is in its turn, or at the result of chat or approve_tool.
LockInv ==
    \A a \in Agents, r \in Reqs : agentLock[a] = r =>
        /\ req[r].agent = a
        /\ pc[r] = "turn" \/ (pc[r] = "mark" /\ req[r].kind \in {"chat", "approve"})

\* What the save task has to visit is dirty, and it holds the table.
SaveInv == saving \subseteq dirty /\ (saving # {} => table = saver)

IInv ==
    /\ MapTypes /\ LockTypes /\ ReqTypes
    /\ RecencyInv /\ AgentInv /\ LockInv /\ SaveInv /\ AnsweredIsDirty

USE HttpAssumption DEF Agents

-----------------------------------------------------------------------------
(* Facts about lists without repetition.                                   *)

\* The list without its i-th element.
LEMMA RemoveAtFacts ==
    ASSUME NEW S, NEW q \in Seq(S), NEW i \in 1..Len(q)
    PROVE  /\ RemoveAt(q, i) \in Seq(S) /\ Len(RemoveAt(q, i)) = Len(q) - 1
           /\ \A j \in 1..(Len(q) - 1) : RemoveAt(q, i)[j] = IF j < i THEN q[j] ELSE q[j + 1]
<1>1. PICK a : a = SubSeq(q, 1, i - 1)
  OBVIOUS
<1>2. PICK b : b = SubSeq(q, i + 1, Len(q))
  OBVIOUS
<1>3. a \in Seq(S) /\ Len(a) = i - 1 /\ \A j \in 1..(i - 1) : a[j] = q[j]
  BY <1>1
<1>4. b \in Seq(S) /\ Len(b) = Len(q) - i /\ \A j \in 1..(Len(q) - i) : b[j] = q[i + j]
  BY <1>2
<1>5. RemoveAt(q, i) = a \o b
  BY <1>1, <1>2 DEF RemoveAt
<1>6. a \o b \in Seq(S) /\ Len(a \o b) = Len(q) - 1
  BY <1>3, <1>4, ConcatProperties
<1>7. \A j \in 1..(Len(q) - 1) : (a \o b)[j] = IF j <= i - 1 THEN a[j] ELSE b[j - (i - 1)]
  BY <1>3, <1>4, ConcatProperties
<1>8. \A j \in 1..(Len(q) - 1) : ~(j < i) => b[j - (i - 1)] = q[j + 1]
  BY <1>4
<1> QED BY <1>3, <1>5, <1>6, <1>7, <1>8

\* The list without one of its elements.
LEMMA RemoveFirstFacts ==
    ASSUME NEW S, NEW q \in Seq(S), Distinct(q), NEW e \in Listed(q)
    PROVE  /\ RemoveFirst(q, e) \in Seq(S) /\ Distinct(RemoveFirst(q, e))
           /\ Listed(RemoveFirst(q, e)) = Listed(q) \ {e}
<1>1. PICK i \in 1..Len(q) : q[i] = e
  BY DEF Listed
<1>2. \A j \in 1..Len(q) : q[j] = e => j = i
  BY <1>1 DEF Distinct
<1>3. RemoveFirst(q, e) = RemoveAt(q, i)
  <2>1. {j \in 1..Len(q) : q[j] = e} = {i}
    BY <1>1, <1>2
  <2>2. Min({i}) = i
    BY DEF Min
  <2> QED BY <1>1, <2>1, <2>2 DEF RemoveFirst, SelectInSeq
<1> DEFINE r == RemoveAt(q, i)
<1>4. /\ r \in Seq(S) /\ DOMAIN r = 1..(Len(q) - 1) /\ DOMAIN q = 1..Len(q) /\ Len(q) \in Nat
      /\ \A j \in 1..(Len(q) - 1) : r[j] = IF j < i THEN q[j] ELSE q[j + 1]
  BY RemoveAtFacts
<1> HIDE DEF r
<1>5. Distinct(r)
  <2> SUFFICES ASSUME NEW j \in DOMAIN r, NEW k \in DOMAIN r, r[j] = r[k] PROVE j = k
    BY DEF Distinct
  <2>1. j \in DOMAIN q /\ j + 1 \in DOMAIN q /\ k \in DOMAIN q /\ k + 1 \in DOMAIN q
    BY <1>4
  <2> QED BY <1>4, <2>1 DEF Distinct
<1>6. Listed(r) = Listed(q) \ {e}
  <2>1. ASSUME NEW j \in DOMAIN r PROVE r[j] \in Listed(q) \ {e}
    <3>1. j \in DOMAIN q /\ j + 1 \in DOMAIN q
      BY <1>4
    <3> QED BY <1>2, <1>4, <3>1 DEF Listed
  <2>2. ASSUME NEW j \in DOMAIN q, q[j] # e PROVE q[j] \in Listed(r)
    <3>1. CASE j < i
      <4>1. j \in DOMAIN r /\ r[j] = q[j]
        BY <1>4, <3>1
      <4> QED BY <4>1 DEF Listed
    <3>2. CASE ~(j < i)
      <4>1. j - 1 \in DOMAIN r /\ r[j - 1] = q[j]
        BY <1>1, <1>4, <2>2, <3>2
      <4> QED BY <4>1 DEF Listed
    <3> QED BY <3>1, <3>2
  <2> QED BY <2>1, <2>2 DEF Listed
<1> QED BY <1>3, <1>4, <1>5, <1>6 DEF r

\* The list with a new last element.
LEMMA AppendFacts ==
    ASSUME NEW S, NEW q \in Seq(S), Distinct(q), NEW e \in S, e \notin Listed(q)
    PROVE  Append(q, e) \in Seq(S) /\ Distinct(Append(q, e)) /\ Listed(Append(q, e)) = Listed(q) \union {e}
<1> DEFINE r == Append(q, e)
<1>1. /\ r \in Seq(S) /\ DOMAIN r = 1..(Len(q) + 1) /\ DOMAIN q = 1..Len(q) /\ Len(q) \in Nat
      /\ r[Len(q) + 1] = e /\ \A i \in 1..Len(q) : r[i] = q[i]
  OBVIOUS
<1> HIDE DEF r
<1>2. Listed(r) = Listed(q) \union {e}
  BY <1>1 DEF Listed
<1>3. Distinct(r)
  BY <1>1 DEF Distinct, Listed
<1> QED BY <1>1, <1>2, <1>3 DEF r

\* The list without its first n elements.
LEMMA SuffixFacts ==
    ASSUME NEW S, NEW q \in Seq(S), Distinct(q), NEW n \in 1..Len(q)
    PROVE  LET r == SubSeq(q, n + 1, Len(q)) IN
             /\ r \in Seq(S) /\ Distinct(r)
             /\ Listed(r) = Listed(q) \ {q[i] : i \in 1..n}
<1> DEFINE r == SubSeq(q, n + 1, Len(q))
<1>1. /\ r \in Seq(S) /\ DOMAIN r = 1..(Len(q) - n) /\ DOMAIN q = 1..Len(q) /\ Len(q) \in Nat
      /\ \A i \in 1..(Len(q) - n) : r[i] = q[n + i]
  OBVIOUS
<1> HIDE DEF r
<1>2. \A i \in DOMAIN r : n + i \in DOMAIN q /\ r[i] = q[n + i] /\ ~(n + i \in 1..n)
  BY <1>1
<1>3. \A j \in DOMAIN q : ~(j \in 1..n) => j - n \in DOMAIN r /\ r[j - n] = q[j]
  <2> SUFFICES ASSUME NEW j \in DOMAIN q, ~(j \in 1..n) PROVE j - n \in DOMAIN r /\ r[j - n] = q[j]
    OBVIOUS
  <2>1. j - n \in 1..(Len(q) - n) /\ n + (j - n) = j
    BY <1>1
  <2> QED BY <1>1, <2>1
<1>4. 1..n \subseteq DOMAIN q
  BY <1>1
<1>5. Distinct(r)
  BY <1>1, <1>2 DEF Distinct
<1>6. Listed(r) = Listed(q) \ {q[i] : i \in 1..n}
  <2>1. ASSUME NEW i \in DOMAIN r PROVE r[i] \in Listed(q) /\ r[i] \notin {q[j] : j \in 1..n}
    BY <1>2, <1>4 DEF Listed, Distinct
  <2>2. ASSUME NEW j \in DOMAIN q, q[j] \notin {q[i] : i \in 1..n} PROVE q[j] \in Listed(r)
    BY <1>3, <2>2 DEF Listed
  <2> QED BY <2>1, <2>2 DEF Listed
<1> QED BY <1>1, <1>5, <1>6 DEF r

\* The list without its first element.
LEMMA TailFacts ==
    ASSUME NEW S, NEW q \in Seq(S), Distinct(q), q # <<>>
    PROVE  /\ Tail(q) \in Seq(S) /\ Distinct(Tail(q))
           /\ Listed(Tail(q)) = Listed(q) \ {Head(q)} /\ Head(q) \in Listed(q)
<1>1. 1 \in 1..Len(q) /\ Tail(q) = SubSeq(q, 2, Len(q)) /\ Head(q) = q[1] /\ 1 \in DOMAIN q
  OBVIOUS
<1>2. {q[i] : i \in 1..1} = {q[1]}
  OBVIOUS
<1>3. /\ SubSeq(q, 1 + 1, Len(q)) \in Seq(S) /\ Distinct(SubSeq(q, 1 + 1, Len(q)))
      /\ Listed(SubSeq(q, 1 + 1, Len(q))) = Listed(q) \ {q[i] : i \in 1..1}
  BY <1>1, SuffixFacts
<1>4. Head(q) \in Listed(q)
  BY <1>1 DEF Listed
<1>5. 1 + 1 = 2
  OBVIOUS
<1> QED BY <1>1, <1>2, <1>3, <1>4, <1>5, Zenon

\* An element that becomes the last one is still there once.
LEMMA TouchFacts ==
    ASSUME NEW S, NEW q \in Seq(S), Distinct(q), NEW e \in Listed(q)
    PROVE  Touch(e, q) \in Seq(S) /\ Distinct(Touch(e, q)) /\ Listed(Touch(e, q)) = Listed(q)
<1>1. e \in S
  BY DEF Listed
<1>2. /\ RemoveFirst(q, e) \in Seq(S) /\ Distinct(RemoveFirst(q, e))
      /\ Listed(RemoveFirst(q, e)) = Listed(q) \ {e}
  BY RemoveFirstFacts
<1> DEFINE r == RemoveFirst(q, e)
<1>3. e \notin Listed(r) /\ Listed(r) \union {e} = Listed(q)
  BY <1>2
<1>4. Touch(e, q) = Append(r, e)
  BY DEF Touch
<1> HIDE DEF r
<1>5. r \in Seq(S) /\ Distinct(r)
  BY <1>2 DEF r
<1>6. Append(r, e) \in Seq(S) /\ Distinct(Append(r, e)) /\ Listed(Append(r, e)) = Listed(r) \union {e}
  BY <1>1, <1>3, <1>5, AppendFacts
<1> QED BY <1>3, <1>4, <1>6, Zenon

-----------------------------------------------------------------------------
(* What the operations on the map do.                                      *)

\* An entry that is touched stays what it is.
LEMMA TouchInv ==
    ASSUME IInv, NEW s \in Ids, InMap(s), recency' = Touch(s, recency), UNCHANGED agentOf
    PROVE  RecencyInv'
<1>1. recency \in Seq(Ids) /\ Distinct(recency) /\ s \in Listed(recency)
  BY DEF IInv, RecencyInv
<1>2. /\ Touch(s, recency) \in Seq(Ids) /\ Distinct(Touch(s, recency))
      /\ Listed(Touch(s, recency)) = Listed(recency)
  BY <1>1, TouchFacts
<1> QED BY <1>2 DEF IInv, RecencyInv, InMap

\* Entries that are dropped leave the map, the list and the dirty ids together.
LEMMA DropInv ==
    ASSUME IInv, NEW X, NEW rest, DropEntries(X, rest), saving = {},
           rest \in Seq(Ids), Distinct(rest), Listed(rest) = Listed(recency) \ X,
           UNCHANGED <<table, agentLock, gate, req, pc, saving, unsaved>>
    PROVE  IInv'
<1> USE DEF IInv, DropEntries, InMap
<1>1. MapTypes'
  BY DEF MapTypes
<1>2. LockTypes' /\ ReqTypes' /\ LockInv'
  BY DEF LockTypes, ReqTypes, LockInv
<1>3. RecencyInv'
  BY DEF RecencyInv
<1>4. AgentInv'
  BY DEF AgentInv
<1>5. SaveInv'
  BY DEF SaveInv
<1>6. AnsweredIsDirty'
  <2>1. NoAgent \notin unsaved
    <3>1. 1..used \subseteq 1..MaxAgents /\ unsaved \subseteq 1..used
      BY DEF MapTypes
    <3> QED BY <3>1
  <2>2. \A s \in Ids : agentOf'[s] = IF s \in X THEN NoAgent ELSE agentOf[s]
    OBVIOUS
  <2> QED BY <2>1, <2>2 DEF AnsweredIsDirty
<1> QED BY <1>1, <1>2, <1>3, <1>4, <1>5, <1>6

\* A new entry has an agent nobody has seen, and is dirty.
LEMMA InsertFacts ==
    ASSUME IInv, NEW s \in Ids, ~InMap(s), NEW X, NEW rest, Insert(s, X, rest),
           X \subseteq Listed(recency), saving = {}, UNCHANGED <<saving, unsaved>>,
           rest \in Seq(Ids), Distinct(rest), Listed(rest) = Listed(recency) \ X
    PROVE  /\ MapTypes' /\ RecencyInv' /\ AnsweredIsDirty'
           /\ used' = used + 1 /\ used \in Nat /\ used + 1 \in Agents /\ agentOf'[s] = used + 1
           /\ \A t \in Ids : t # s => agentOf'[t] \in {agentOf[t], NoAgent}
           /\ saving' \subseteq dirty'
<1> USE DEF IInv, InMap
<1>1. /\ used + 1 \in Agents /\ used' = used + 1 /\ used \in Nat
      /\ agentOf' = [i \in Ids |-> CASE i = s -> used + 1
                                     [] i \in X \ {s} -> NoAgent
                                     [] OTHER -> agentOf[i]]
      /\ dirty' = (dirty \ X) \union {s} /\ recency' = Append(rest, s)
  BY DEF Insert, MapTypes
<1>2. s \notin X
  BY DEF RecencyInv
<1>3. /\ agentOf'[s] = used + 1
      /\ \A t \in Ids : t # s => agentOf'[t] = IF t \in X THEN NoAgent ELSE agentOf[t]
  BY <1>1, <1>2
<1>4. used + 1 # NoAgent
  BY <1>1
<1>5. MapTypes'
  <2>1. \A t \in Ids : agentOf'[t] \in (1..(used + 1)) \union {NoAgent}
    BY <1>1, <1>3 DEF MapTypes
  <2>2. agentOf' \in [Ids -> (1..used') \union {NoAgent}]
    BY <1>1, <2>1
  <2>3. dirty' \subseteq {t \in Ids : InMap(t)'}
    BY <1>1, <1>2, <1>3, <1>4 DEF MapTypes
  <2> QED BY <1>1, <2>2, <2>3 DEF MapTypes
<1>6. RecencyInv'
  <2>1. s \notin Listed(rest)
    BY DEF RecencyInv
  <2>2. /\ recency' \in Seq(Ids) /\ Distinct(recency')
        /\ Listed(recency') = Listed(rest) \union {s}
    BY <1>1, <2>1, AppendFacts
  <2>3. Listed(recency') = {t \in Ids : agentOf'[t] # NoAgent}
    BY <1>2, <1>3, <1>4, <2>2 DEF RecencyInv
  <2> QED BY <2>2, <2>3 DEF RecencyInv
<1>7. AnsweredIsDirty'
  BY <1>1, <1>2, <1>3 DEF AnsweredIsDirty, MapTypes
<1> QED BY <1>1, <1>3, <1>5, <1>6, <1>7

\* What get_or_create_session and the lookup of chat_completions leave.
LEMMA CreateFacts ==
    ASSUME IInv, NEW s \in Ids, GetOrCreate(s) \/ OpenAiGetOrCreate(s), saving = {},
           UNCHANGED <<saving, unsaved>>
    PROVE  /\ MapTypes' /\ RecencyInv' /\ AnsweredIsDirty' /\ saving' \subseteq dirty'
           /\ \/ agentOf' = agentOf /\ used' = used /\ InMap(s)
              \/ /\ used' = used + 1 /\ used \in Nat /\ used + 1 \in Agents /\ agentOf'[s] = used + 1
                 /\ \A t \in Ids : t # s => agentOf'[t] \in {agentOf[t], NoAgent}
<1>1. recency \in Seq(Ids) /\ Distinct(recency) /\ MaxSessions \in Nat \ {0}
  BY DEF IInv, RecencyInv
<1>2. CASE InMap(s)
  <2>1. TouchEntry(s)
    BY <1>2 DEF GetOrCreate, OpenAiGetOrCreate
  <2>2. RecencyInv'
    BY <1>2, <2>1, TouchInv DEF TouchEntry
  <2> QED BY <1>2, <2>1, <2>2 DEF IInv, MapTypes, InMap, AnsweredIsDirty, TouchEntry
<1>3. CASE ~InMap(s) /\ Insert(s, {}, recency)
  BY <1>1, <1>3, InsertFacts
<1>4. CASE ~InMap(s) /\ Len(recency) >= MaxSessions /\ Insert(s, {Head(recency)}, Tail(recency))
  <2>1. recency # <<>>
    BY <1>1, <1>4
  <2>2. /\ Tail(recency) \in Seq(Ids) /\ Distinct(Tail(recency))
        /\ Listed(Tail(recency)) = Listed(recency) \ {Head(recency)}
        /\ {Head(recency)} \subseteq Listed(recency)
    BY <1>1, <2>1, TailFacts
  <2> QED BY <1>4, <2>2, InsertFacts
<1>5. Len(recency) < MaxSessions \/ Len(recency) >= MaxSessions
  BY <1>1
<1> QED BY <1>2, <1>3, <1>4, <1>5 DEF GetOrCreate, OpenAiGetOrCreate

\* A task that finds the table free finds the save task at rest.
LEMMA TableFree == ASSUME IInv, table = Nobody PROVE saving = {}
  BY DEF IInv, SaveInv

\* A request that ends holds nothing, and the others hold what they held.
LEMMA LeaveFacts ==
    ASSUME IInv, NEW r \in Reqs, Leave(r), UNCHANGED <<agentOf, used>>
    PROVE  /\ LockTypes' /\ ReqTypes' /\ AgentInv' /\ LockInv'
           /\ table = saver => table' = saver
<1> USE DEF IInv, Leave
<1>1. LockTypes'
  BY DEF LockTypes
<1>2. NoReq \in Requests /\ NoReq.agent = NoAgent
  BY DEF NoReq, Requests
<1>3. \A q \in Reqs : q # r => pc'[q] = pc[q] /\ req'[q] = req[q]
  BY DEF ReqTypes
<1>4. pc'[r] = "idle" /\ req'[r] = NoReq
  BY DEF ReqTypes
<1>5. ReqTypes'
  <2>1. pc' \in [Reqs -> States]
    BY DEF ReqTypes, States
  <2>2. req' \in [Reqs -> Requests]
    BY <1>2 DEF ReqTypes
  <2> QED BY <2>1, <2>2, <1>3, <1>4 DEF ReqTypes
<1>6. AgentInv'
  <2>1. \A q \in Reqs : q # r =>
          /\ req'[q].agent # NoAgent => req'[q].agent \in 1..used'
          /\ pc'[q] \in {"agent", "turn", "mark"} \/ (pc'[q] = "gate" /\ req'[q].kind = "openai")
               => req'[q].agent # NoAgent
          /\ \A s \in Ids : InMap(s)' /\ agentOf'[s] = req'[q].agent => s = req'[q].id
    BY <1>3 DEF AgentInv, InMap
  <2> QED BY <1>2, <1>4, <2>1 DEF AgentInv, InMap
<1>7. LockInv'
  <2>1. \A a \in Agents, q \in Reqs : agentLock'[a] = q => q # r /\ agentLock[a] = q
    BY DEF LockTypes
  <2> QED BY <1>3, <2>1 DEF LockInv
<1>8. table = saver => table' = saver
  OBVIOUS
<1> QED BY <1>1, <1>5, <1>6, <1>7, <1>8

\* A handler that ends without a mark.
LEMMA LeaveInv ==
    ASSUME IInv, NEW r \in Reqs, Leave(r), UNCHANGED <<map, saving, unsaved>>
    PROVE  IInv'
<1>1. UNCHANGED <<agentOf, dirty, recency, used, saving, unsaved>>
  BY DEF map
<1>2. LockTypes' /\ ReqTypes' /\ AgentInv' /\ LockInv' /\ (table = saver => table' = saver)
  BY <1>1, LeaveFacts
<1>3. MapTypes' /\ RecencyInv' /\ AnsweredIsDirty'
  BY <1>1 DEF IInv, MapTypes, RecencyInv, AnsweredIsDirty, InMap
<1>4. SaveInv'
  BY <1>1, <1>2 DEF IInv, SaveInv
<1> QED BY <1>2, <1>3, <1>4 DEF IInv

\* A request arrives.
LEMMA ArriveInv ==
    ASSUME IInv, NEW r \in Reqs, NEW k \in Kinds, NEW s \in Ids, Arrive(r, k, s) PROVE IInv'
<1> DEFINE n == [kind |-> k, id |-> s, agent |-> NoAgent]
<1> USE DEF IInv
<1>1. n \in Requests /\ n.kind = k /\ n.id = s /\ n.agent = NoAgent
  BY DEF Requests
<1>2. /\ pc[r] = "idle" /\ req' = [req EXCEPT ![r] = n] /\ pc' = [pc EXCEPT ![r] = FirstState(k)]
      /\ UNCHANGED <<agentOf, dirty, recency, used, table, agentLock, gate, saving, unsaved>>
  BY DEF Arrive, map
<1> HIDE DEF n
<1>3. /\ FirstState(k) \in {"gate", "fetch", "create"} /\ (FirstState(k) = "gate" => k # "openai")
  BY DEF FirstState
<1>4. /\ req'[r] = n /\ pc'[r] = FirstState(k)
      /\ \A q \in Reqs : q # r => pc'[q] = pc[q] /\ req'[q] = req[q]
  BY <1>2 DEF ReqTypes
<1>5. MapTypes' /\ RecencyInv' /\ AnsweredIsDirty' /\ SaveInv' /\ LockTypes'
  BY <1>2 DEF MapTypes, RecencyInv, AnsweredIsDirty, InMap, SaveInv, LockTypes
<1>6. ReqTypes'
  <2>1. pc' \in [Reqs -> States] /\ req' \in [Reqs -> Requests]
    BY <1>1, <1>2, <1>3 DEF ReqTypes, States
  <2> QED BY <1>1, <1>3, <1>4, <2>1 DEF ReqTypes
<1>7. AgentInv'
  BY <1>1, <1>2, <1>3, <1>4 DEF AgentInv, InMap
<1>8. LockInv'
  <2>1. \A a \in Agents : agentLock[a] # r
    BY <1>2 DEF LockInv
  <2> QED BY <1>2, <1>4, <2>1 DEF LockInv
<1> QED BY <1>5, <1>6, <1>7, <1>8

\* The entry of a request is found or made; an OpenAI handler clones its agent.
LEMMA CreateInv ==
    ASSUME IInv, NEW r \in Reqs, Create(r) PROVE IInv'
<1> DEFINE s == req[r].id
<1> USE DEF IInv
<1>1. /\ pc[r] = "create" /\ table = Nobody /\ pc' = [pc EXCEPT ![r] = "gate"]
      /\ UNCHANGED <<table, agentLock, gate, saving, unsaved>>
      /\ GetOrCreate(s) \/ OpenAiGetOrCreate(s)
  BY DEF Create
<1>2. s \in Ids /\ req[r].kind \in Kinds /\ saving = {}
  BY <1>1, TableFree DEF ReqTypes
<1>3. /\ MapTypes' /\ RecencyInv' /\ AnsweredIsDirty' /\ saving' \subseteq dirty'
      /\ \/ agentOf' = agentOf /\ used' = used /\ InMap(s)
         \/ /\ used' = used + 1 /\ used \in Nat /\ used + 1 \in Agents /\ agentOf'[s] = used + 1
            /\ \A t \in Ids : t # s => agentOf'[t] \in {agentOf[t], NoAgent}
  BY <1>1, <1>2, CreateFacts
<1>4. LockTypes' /\ SaveInv'
  BY <1>1, <1>2, <1>3 DEF LockTypes, SaveInv
<1>5. agentOf'[s] \in 1..used' /\ agentOf'[s] \in Agents
  BY <1>2, <1>3 DEF MapTypes, InMap
<1>6. /\ req'[r].kind = req[r].kind /\ req'[r].id = s /\ req'[r] \in Requests
      /\ req'[r].agent = IF req[r].kind = "openai" THEN agentOf'[s] ELSE req[r].agent
      /\ req' \in [Reqs -> Requests]
      /\ \A q \in Reqs : q # r => req'[q] = req[q]
  BY <1>5 DEF Create, ReqTypes, Requests
<1>7. pc' \in [Reqs -> States] /\ pc'[r] = "gate" /\ \A q \in Reqs : q # r => pc'[q] = pc[q]
  BY <1>1 DEF ReqTypes, States
<1> HIDE DEF s
<1>8. ReqTypes'
  BY <1>2, <1>6, <1>7 DEF ReqTypes
<1>9. AgentInv'
  <2>1. \A t, v \in Ids : InMap(t)' /\ agentOf'[t] = agentOf'[v] => t = v
    BY <1>2, <1>3 DEF AgentInv, InMap, MapTypes
  <2>2. 1..used \subseteq 1..used' /\ used' \in Nat
    BY <1>3 DEF MapTypes
  <2>3. \A q \in Reqs : req[q].agent # NoAgent => req[q].agent \in 1..used
    BY DEF AgentInv
  <2>4. \A q \in Reqs, t \in Ids :
          agentOf'[t] # NoAgent /\ agentOf'[t] = req[q].agent => t = req[q].id
    BY <1>2, <1>3, <2>3 DEF AgentInv, InMap, MapTypes
  <2>5. NoAgent \notin 1..used'
    BY <1>3 DEF MapTypes
  <2> SUFFICES ASSUME NEW q \in Reqs
               PROVE  /\ req'[q].agent # NoAgent => req'[q].agent \in 1..used'
                      /\ pc'[q] \in {"agent", "turn", "mark"}
                           \/ (pc'[q] = "gate" /\ req'[q].kind = "openai")
                           => req'[q].agent # NoAgent
                      /\ \A t \in Ids : InMap(t)' /\ agentOf'[t] = req'[q].agent => t = req'[q].id
    BY <2>1 DEF AgentInv
  <2>6. CASE q # r
    BY <1>6, <1>7, <2>2, <2>3, <2>4, <2>6 DEF AgentInv, InMap
  <2>7. CASE q = r /\ req[r].kind = "openai"
    BY <1>2, <1>5, <1>6, <2>1, <2>5, <2>7 DEF InMap
  <2>8. CASE q = r /\ req[r].kind # "openai"
    BY <1>6, <1>7, <2>2, <2>3, <2>4, <2>8 DEF InMap, s
  <2> QED BY <2>6, <2>7, <2>8
<1>10. LockInv'
  <2>1. \A a \in Agents : agentLock[a] # r
    BY <1>1 DEF LockInv
  <2> QED BY <1>1, <1>6, <1>7, <2>1 DEF LockInv
<1> QED BY <1>3, <1>4, <1>8, <1>9, <1>10

\* The permit of the gate.
LEMMA AcquireGateInv ==
    ASSUME IInv, NEW r \in Reqs, AcquireGate(r) PROVE IInv'
<1> USE DEF IInv
<1>1. /\ pc[r] = "gate" /\ gate' = r
      /\ pc' = [pc EXCEPT ![r] = IF req[r].kind = "openai" THEN "agent" ELSE "fetch"]
      /\ UNCHANGED <<agentOf, dirty, recency, used, table, agentLock, req, saving, unsaved>>
  BY DEF AcquireGate, map
<1>2. MapTypes' /\ RecencyInv' /\ AnsweredIsDirty' /\ SaveInv' /\ LockTypes'
  BY <1>1 DEF MapTypes, RecencyInv, AnsweredIsDirty, InMap, SaveInv, LockTypes
<1>3. ReqTypes'
  BY <1>1 DEF ReqTypes, States
<1>4. AgentInv'
  BY <1>1 DEF AgentInv, InMap, ReqTypes
<1>5. LockInv'
  BY <1>1 DEF LockInv, ReqTypes
<1> QED BY <1>2, <1>3, <1>4, <1>5

\* The agent of an entry is cloned, which is then listed under the id of the
\* request (Fetch and AdminLock).
LEMMA CloneInv ==
    ASSUME IInv, NEW r \in Reqs, pc[r] = "fetch", InMap(req[r].id), table = Nobody,
           recency' = Touch(req[r].id, recency), dirty' \in {dirty, dirty \union {req[r].id}},
           req' = [req EXCEPT ![r].agent = agentOf[req[r].id]], pc' = [pc EXCEPT ![r] = "agent"],
           table' \in {table, r},
           UNCHANGED <<agentOf, used, gate, agentLock, saving, unsaved>>
    PROVE  IInv'
<1> DEFINE s == req[r].id
<1> USE DEF IInv
<1>1. s \in Ids /\ req[r].kind \in Kinds /\ saving = {}
  BY TableFree DEF ReqTypes
<1>2. RecencyInv'
  BY <1>1, TouchInv
<1>3. MapTypes'
  BY <1>1 DEF MapTypes, InMap
<1>4. AnsweredIsDirty' /\ LockTypes' /\ SaveInv'
  BY <1>1 DEF AnsweredIsDirty, LockTypes, SaveInv
<1>5. agentOf[s] \in 1..used /\ agentOf[s] \in Agents /\ agentOf[s] # NoAgent
  BY <1>1 DEF MapTypes, InMap
<1>6. /\ req'[r].kind = req[r].kind /\ req'[r].id = s /\ req'[r].agent = agentOf[s]
      /\ req' \in [Reqs -> Requests]
      /\ \A q \in Reqs : q # r => req'[q] = req[q]
  BY <1>5 DEF ReqTypes, Requests
<1>7. pc' \in [Reqs -> States] /\ pc'[r] = "agent" /\ \A q \in Reqs : q # r => pc'[q] = pc[q]
  BY DEF ReqTypes, States
<1> HIDE DEF s
<1>8. ReqTypes'
  BY <1>1, <1>6, <1>7 DEF ReqTypes
<1>9. AgentInv'
  BY <1>1, <1>5, <1>6, <1>7 DEF AgentInv, InMap
<1>10. LockInv'
  <2>1. \A a \in Agents : agentLock[a] # r
    BY DEF LockInv
  <2> QED BY <1>6, <1>7, <2>1 DEF LockInv
<1> QED BY <1>2, <1>3, <1>4, <1>8, <1>9, <1>10

\* A handler finds its entry again, or does not.
LEMMA FetchInv ==
    ASSUME IInv, NEW r \in Reqs, Fetch(r) PROVE IInv'
<1>1. CASE InMap(req[r].id)
  BY <1>1, CloneInv DEF Fetch
<1>2. CASE ~InMap(req[r].id)
  BY <1>2, LeaveInv DEF Fetch
<1> QED BY <1>1, <1>2

\* A session endpoint keeps the table while it waits for the agent.
LEMMA AdminLockInv ==
    ASSUME IInv, NEW r \in Reqs, AdminLock(r) PROVE IInv'
<1>1. CASE InMap(req[r].id)
  BY <1>1, CloneInv DEF AdminLock, TouchEntry
<1>2. CASE ~InMap(req[r].id)
  BY <1>2, LeaveInv DEF AdminLock
<1> QED BY <1>1, <1>2

\* An agent's mutex is taken by the request that has cloned it.
LEMMA LockAgentInv ==
    ASSUME IInv, NEW r \in Reqs, LockAgent(r) PROVE IInv'
<1> USE DEF IInv
<1>1. /\ pc[r] = "agent" /\ agentLock' = [agentLock EXCEPT ![req[r].agent] = r]
      /\ pc' = [pc EXCEPT ![r] = "turn"]
      /\ UNCHANGED <<agentOf, dirty, recency, used, table, gate, req, saving, unsaved>>
  BY DEF LockAgent, map
<1>2. MapTypes' /\ RecencyInv' /\ AnsweredIsDirty' /\ SaveInv' /\ LockTypes'
  BY <1>1 DEF MapTypes, RecencyInv, AnsweredIsDirty, InMap, SaveInv, LockTypes
<1>3. ReqTypes'
  BY <1>1 DEF ReqTypes, States
<1>4. AgentInv'
  BY <1>1 DEF AgentInv, InMap, ReqTypes
<1>5. LockInv'
  BY <1>1 DEF LockInv, ReqTypes, LockTypes
<1> QED BY <1>2, <1>3, <1>4, <1>5

\* An OpenAI handler gives up its agent before it marks; the others keep it.
LEMMA EndTurnInv ==
    ASSUME IInv, NEW r \in Reqs, EndTurn(r) PROVE IInv'
<1> USE DEF IInv
<1>1. /\ pc[r] = "turn" /\ req[r].kind \in {"chat", "approve", "openai"}
      /\ pc' = [pc EXCEPT ![r] = "mark"]
      /\ agentLock' = IF req[r].kind = "openai" THEN [agentLock EXCEPT ![req[r].agent] = Nobody]
                                                ELSE agentLock
      /\ UNCHANGED <<agentOf, dirty, recency, used, table, gate, req, saving, unsaved>>
  BY DEF EndTurn, map
<1>2. MapTypes' /\ RecencyInv' /\ AnsweredIsDirty' /\ SaveInv' /\ LockTypes'
  BY <1>1 DEF MapTypes, RecencyInv, AnsweredIsDirty, InMap, SaveInv, LockTypes
<1>3. ReqTypes'
  BY <1>1 DEF ReqTypes, States
<1>4. AgentInv'
  BY <1>1 DEF AgentInv, InMap, ReqTypes
<1>5. LockInv'
  BY <1>1 DEF LockInv, ReqTypes, LockTypes
<1> QED BY <1>2, <1>3, <1>4, <1>5

\* The answered agent, if it is listed, is listed under the id that is marked.
LEMMA MarkInv ==
    ASSUME IInv, NEW r \in Reqs, Mark(r) PROVE IInv'
<1> USE DEF IInv
<1>1. /\ pc[r] = "mark" /\ table = Nobody /\ Leave(r)
      /\ dirty' = IF InMap(req[r].id) THEN dirty \union {req[r].id} ELSE dirty
      /\ unsaved' = unsaved \union {req[r].agent}
      /\ UNCHANGED <<agentOf, recency, used, saving>>
  BY DEF Mark
<1>2. LockTypes' /\ ReqTypes' /\ AgentInv' /\ LockInv'
  BY <1>1, LeaveFacts
<1>3. req[r].id \in Ids /\ req[r].agent \in 1..used
  BY <1>1 DEF ReqTypes, AgentInv
<1>4. MapTypes' /\ RecencyInv'
  BY <1>1, <1>3 DEF MapTypes, RecencyInv, InMap
<1>5. SaveInv'
  BY <1>1, TableFree DEF SaveInv
<1>6. AnsweredIsDirty'
  <2>1. NoAgent # req[r].agent
    BY <1>1 DEF AgentInv
  <2> QED BY <1>1, <1>3, <2>1 DEF AnsweredIsDirty, AgentInv, InMap
<1> QED BY <1>2, <1>4, <1>5, <1>6

\* An entry is deleted, or the oldest ones expire.
LEMMA RemoveInv ==
    ASSUME IInv, (\E s \in Ids : DeleteSession(s)) \/ (\E n \in 1..Len(recency) : Cleanup(n))
    PROVE  IInv'
<1>0. recency \in Seq(Ids) /\ Distinct(recency)
  BY DEF IInv, RecencyInv
<1>1. ASSUME NEW s \in Ids, DeleteSession(s) PROVE IInv'
  <2>1. s \in Listed(recency) /\ saving = {}
    BY <1>1, TableFree DEF DeleteSession, IInv, RecencyInv
  <2>2. /\ RemoveFirst(recency, s) \in Seq(Ids) /\ Distinct(RemoveFirst(recency, s))
        /\ Listed(RemoveFirst(recency, s)) = Listed(recency) \ {s}
    BY <1>0, <2>1, RemoveFirstFacts
  <2> QED BY <1>1, <2>1, <2>2, DropInv DEF DeleteSession
<1>2. ASSUME NEW n \in 1..Len(recency), Cleanup(n) PROVE IInv'
  <2> DEFINE r == SubSeq(recency, n + 1, Len(recency))
  <2>1. r \in Seq(Ids) /\ Distinct(r) /\ Listed(r) = Listed(recency) \ {recency[i] : i \in 1..n}
    BY <1>0, SuffixFacts
  <2>2. /\ saving = {} /\ DropEntries({recency[i] : i \in 1..n}, r)
        /\ UNCHANGED <<table, agentLock, gate, req, pc, saving, unsaved>>
    BY <1>2, TableFree DEF Cleanup
  <2> HIDE DEF r
  <2> QED BY <2>1, <2>2, DropInv
<1> QED BY <1>1, <1>2

\* The save task: what it writes is no longer unsaved, nor dirty.
LEMMA SaveStepInv ==
    ASSUME IInv, Save PROVE IInv'
<1> USE DEF IInv
<1>0. UNCHANGED <<agentOf, recency, used, agentLock, gate, req, pc>>
  BY DEF Save, SaveStart, SaveEntry, SaveEnd, map
<1>1. RecencyInv' /\ ReqTypes' /\ AgentInv' /\ LockInv'
  BY <1>0 DEF RecencyInv, ReqTypes, AgentInv, LockInv, InMap
<1>2. LockTypes' /\ SaveInv'
  BY <1>0 DEF Save, SaveStart, SaveEntry, SaveEnd, map, LockTypes, SaveInv
<1>3. MapTypes'
  BY <1>0 DEF Save, SaveStart, SaveEntry, SaveEnd, map, MapTypes, InMap
<1>4. AnsweredIsDirty'
  <2>1. CASE SaveStart \/ SaveEnd
    BY <2>1 DEF SaveStart, SaveEnd, map, AnsweredIsDirty
  <2>2. ASSUME NEW s \in Ids, SaveEntry(s) PROVE AnsweredIsDirty'
    <3>1. InMap(s)
      BY <2>2 DEF SaveEntry, SaveInv, MapTypes
    <3> QED BY <2>2, <3>1 DEF SaveEntry, AnsweredIsDirty, AgentInv
  <2> QED BY <2>1, <2>2 DEF Save
<1> QED BY <1>1, <1>2, <1>3, <1>4

-----------------------------------------------------------------------------
(* The theorems.                                                           *)

\* The table is empty at first, and nobody holds anything.
LEMMA InitInv == ASSUME Init PROVE IInv
<1> USE DEF Init
<1>1. MapTypes /\ LockTypes /\ AgentInv /\ LockInv /\ SaveInv /\ AnsweredIsDirty
  BY DEF MapTypes, LockTypes, AgentInv, LockInv, SaveInv, AnsweredIsDirty, InMap, NoReq
<1>2. ReqTypes
  BY DEF ReqTypes, States, Requests, NoReq
<1>3. RecencyInv
  <2>1. <<>> \in Seq(Ids) /\ Listed(<<>>) = {} /\ Distinct(<<>>)
    BY DEF Listed, Distinct
  <2> QED BY <2>1 DEF RecencyInv, InMap
<1> QED BY <1>1, <1>2, <1>3 DEF IInv

\* Every step keeps the invariant.
LEMMA StepInv == ASSUME IInv, [Next]_vars PROVE IInv'
<1>1. ASSUME NEW r \in Reqs, NEW k \in Kinds, NEW s \in Ids, Arrive(r, k, s) PROVE IInv'
  BY <1>1, ArriveInv
<1>2. ASSUME NEW r \in Reqs, Handler(r) PROVE IInv'
  <2>1. CASE EndStream(r) \/ AdminDone(r)
    BY <2>1, LeaveInv DEF EndStream, AdminDone
  <2> QED BY <1>2, <2>1, CreateInv, AcquireGateInv, FetchInv, LockAgentInv, EndTurnInv, MarkInv,
             AdminLockInv DEF Handler
<1>3. ASSUME NEW r \in Reqs, LockFailed(r) \/ FailTurn(r) \/ Cancel(r) PROVE IInv'
  BY <1>3, LeaveInv DEF LockFailed, FailTurn, Cancel
<1>4. ASSUME NEW n, Cleanup(n) PROVE IInv'
  BY <1>4, RemoveInv DEF Cleanup
<1>5. CASE (\E s \in Ids : DeleteSession(s)) \/ Save
  BY <1>5, RemoveInv, SaveStepInv
<1>6. CASE UNCHANGED vars
  BY <1>6 DEF vars, map, IInv, MapTypes, LockTypes, ReqTypes, RecencyInv, AgentInv, LockInv, SaveInv,
     AnsweredIsDirty, InMap
<1> QED BY <1>1, <1>2, <1>3, <1>4, <1>5, <1>6 DEF Next

\* The invariant of every state that can be reached.
LEMMA Invariance == Spec => []IInv
<1>1. Init => IInv
  BY InitInv
<1>2. IInv /\ [Next]_vars => IInv'
  BY StepInv
<1> QED BY <1>1, <1>2, PTL DEF Spec

\* A list without repetition is as long as what it lists.
LEMMA ListLength ==
    ASSUME NEW S, NEW q \in Seq(S), Distinct(q)
    PROVE  Cardinality(Listed(q)) = Len(q)
<1>1. q \in Bijection(1..Len(q), Listed(q))
  <2>1. q \in [1..Len(q) -> Listed(q)] /\ DOMAIN q = 1..Len(q)
    BY DEF Listed
  <2>2. q \in Injection(1..Len(q), Listed(q))
    BY <2>1 DEF Distinct, Injection, IsInjective
  <2>3. q \in Surjection(1..Len(q), Listed(q))
    BY <2>1 DEF Listed, Surjection
  <2> QED BY <2>2, <2>3 DEF Bijection
<1>2. ExistsBijection(1..Len(q), Listed(q))
  BY <1>1 DEF ExistsBijection
<1> QED BY <1>2, FS_CountingElements

\* The list and the map have the same ids, hence the same size.
LEMMA TableConsistent == ASSUME IInv PROVE MapConsistent
<1>1. recency \in Seq(Ids) /\ Distinct(recency) /\ Listed(recency) = {s \in Ids : InMap(s)}
  BY DEF IInv, RecencyInv
<1>2. Listed(recency) = {recency[i] : i \in 1..Len(recency)}
  BY <1>1 DEF Listed
<1>3. Len(recency) = Cardinality({s \in Ids : InMap(s)})
  BY <1>1, ListLength
<1> QED BY <1>1, <1>2, <1>3 DEF MapConsistent, IInv, AgentInv

\* A handler that holds an agent and needs the table is at the result of chat or
\* approve_tool.
LEMMA CycleAtResult == ASSUME IInv PROVE CyclesOnlyAtResult
<1> SUFFICES ASSUME NEW t \in Reqs \union {saver}, NEW u \in Reqs, Cycle(t, u)
             PROVE  req[u].kind \in {"chat", "approve"} /\ pc[u] = "mark"
  BY DEF CyclesOnlyAtResult
<1>1. pc[u] \in {"create", "mark", "fetch"}
  BY DEF Cycle, WaitsForTable
<1> QED BY <1>1 DEF Cycle, IInv, LockInv

\* The types of the parts are those of the whole.
LEMMA TypesHold == ASSUME IInv PROVE TypeOK
<1>1. MapTypes /\ LockTypes /\ ReqTypes /\ SaveInv /\ recency \in Seq(Ids)
  BY DEF IInv, RecencyInv
<1>2. agentOf \in [Ids -> Agents \union {NoAgent}] /\ unsaved \subseteq Agents
  BY <1>1 DEF MapTypes
<1> QED BY <1>1, <1>2 DEF TypeOK, MapTypes, LockTypes, ReqTypes, SaveInv

\* The variables of the session table have their types.
THEOREM HttpTypeCorrect == Spec => []TypeOK
<1>1. IInv => TypeOK
  BY TypesHold
<1> QED BY <1>1, Invariance, PTL

\* The recency order and the map list the same ids, and no two ids share an
\* agent, whatever is evicted, expired, deleted and created anew while turns run
\* on agents they have cloned (get_or_create_session, cleanup_expired_sessions).
THEOREM TableStaysConsistent == Spec => []MapConsistent
<1>1. IInv => MapConsistent
  BY TableConsistent
<1> QED BY <1>1, Invariance, PTL

\* An answered turn whose agent is listed is on disk or its entry is dirty: no
\* save that runs between the turn and its mark makes the table forget it
\* (handle_chat_result, save_dirty_sessions).
THEOREM AnswersStayDirty == Spec => []AnsweredIsDirty
<1>1. IInv => AnsweredIsDirty
  BY DEF IInv
<1> QED BY <1>1, Invariance, PTL

\* Two tasks wait for each other only where chat or approve_tool marks its entry
\* with the agent still locked: no OpenAI request and no stream can close a cycle.
THEOREM CyclesNowhereElse == Spec => []CyclesOnlyAtResult
<1>1. IInv => CyclesOnlyAtResult
  BY CycleAtResult
<1> QED BY <1>1, Invariance, PTL
=============================================================================
