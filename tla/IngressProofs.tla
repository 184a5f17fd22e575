--------------------------- MODULE IngressProofs ---------------------------
(***************************************************************************)
(* The way of a message from the bus to its task loses none, duplicates    *)
(* none, keeps the order of each source and keeps untrusted text at its    *)
(* level, for any sources, capacity of the bus and limits of the buffers.  *)
(*                                                                         *)
(* The argument rests on one order for all messages: what is in a buffer   *)
(* is older than what is in the channel, and that is older than what is on *)
(* the bus (OrderInv); places that are not ordered, two buffers or a       *)
(* buffer and a task, have no message in common (ApartInv).  Trust rests   *)
(* on two facts (TrustInv): the owner and the users have sources of their  *)
(* own, whatever scripts push there, and only a message that was not       *)
(* joined with another names a prompt or a script.                         *)
(***************************************************************************)
EXTENDS Ingress, SequenceTheorems, FiniteSetTheorems, TLAPS

\* The types, with the fields of tasks and ended batches.
QueueTypes ==
    /\ count \in 0..MaxMsgs
    /\ bus \in Seq(Msgs) /\ Len(bus) <= BusCap
    /\ chan \in Seq(Msgs)
    /\ buf \in [Sources -> Seq(Msgs)]
BatchTypes ==
    /\ due \subseteq {s \in Sources : buf[s] # <<>>}
    /\ tasks \subseteq Tasks
    /\ done \subseteq Ended
OpenType == open \in BOOLEAN
PromptType == prompt \in [Sources -> {"none", "default", "persona"}]

\* Only the owner and the users have messages of their levels under their sources.
OwnLevel(source, trust) ==
    /\ trust = "owner" => source = Owner
    /\ trust = "untrusted" => source \in Users
Honest(q) == \A i \in DOMAIN q : OwnLevel(q[i].source, q[i].trust)

\* The levels gathered in a batch are those of its source, its own among them.
Gathered(k) == k.trust \in k.trusts /\ \A t \in k.trusts : OwnLevel(k.source, t)

\* A trusted batch that does anything is one message.
TrustInv ==
    /\ Honest(bus) /\ Honest(chan)
    /\ \A s \in Sources : Honest(buf[s]) /\ \A i \in DOMAIN buf[s] : buf[s][i].source = s
    /\ \A k \in tasks \union done : Gathered(k)
    /\ \A k \in tasks : k.names => k.trusts = {k.trust}
    /\ \A k \in tasks : k.trust = "trusted" => k.at = "start" \/ k.names
    /\ \A b \in done : b.trust = "trusted" /\ b.ran => b.trusts = {b.trust}

\* Messages in the order of their numbers, and sets of numbers one below the other.
Rising(q) == \A i, j \in DOMAIN q : i < j => q[i].id < q[j].id
Below(A, B) == \A a \in A, b \in B : a < b

\* Every queue is in order, and each is older than the one behind it.
OrderInv ==
    /\ Rising(bus) /\ Rising(chan)
    /\ IdsIn(bus) \subseteq 1..count /\ IdsIn(chan) \subseteq 1..count
    /\ Below(IdsIn(chan), IdsIn(bus))
    /\ \A s \in Sources :
        /\ Rising(buf[s]) /\ IdsIn(buf[s]) \subseteq 1..count
        /\ Below(IdsIn(buf[s]), IdsIn(chan)) /\ Below(IdsIn(buf[s]), IdsIn(bus))

\* So is what was handed out.
BatchInv ==
    \A k \in tasks \union done :
        /\ k.ids # <<>> /\ IdsOf(k) \subseteq 1..count
        /\ \A i, j \in DOMAIN k.ids : i < j => k.ids[i] < k.ids[j]
        /\ Below(IdsOf(k), IdsIn(chan)) /\ Below(IdsOf(k), IdsIn(bus))
        /\ Below(IdsOf(k), IdsIn(buf[k.source]))

\* Places that are not ordered have nothing in common.
ApartInv ==
    /\ \A s, t \in Sources : s # t => IdsIn(buf[s]) \intersect IdsIn(buf[t]) = {}
    /\ \A s \in Sources : \A k \in tasks \union done : IdsIn(buf[s]) \intersect IdsOf(k) = {}
    /\ \A k, l \in tasks : k # l => IdsOf(k) \intersect IdsOf(l) = {}
    /\ \A k, l \in done : k # l => IdsOf(k) \intersect IdsOf(l) = {}
    /\ \A k \in tasks, l \in done : IdsOf(k) \intersect IdsOf(l) = {}

\* Every message is somewhere.
SomewhereInv ==
    \A i \in 1..count :
        \/ i \in IdsIn(bus) \/ i \in IdsIn(chan)
        \/ \E s \in Sources : i \in IdsIn(buf[s])
        \/ \E k \in tasks \union done : i \in IdsOf(k)

IInv ==
    /\ QueueTypes /\ BatchTypes /\ OpenType /\ PromptType /\ TrustInv
    /\ OrderInv /\ BatchInv /\ ApartInv /\ SomewhereInv

USE BoundsAssumption

-----------------------------------------------------------------------------
(* Facts about queues of messages and what their operations do to them.    *)

\* An empty queue has no numbers.
LEMMA EmptyFacts == IdsIn(<<>>) = {} /\ Rising(<<>>) /\ Honest(<<>>)
  BY DEF IdsIn, Rising, Honest

\* A message that joins a queue is its last.
LEMMA AppendFacts ==
    ASSUME NEW q \in Seq(Msgs), NEW m \in Msgs
    PROVE  /\ Append(q, m) \in Seq(Msgs) /\ Append(q, m) # <<>>
           /\ IdsIn(Append(q, m)) = IdsIn(q) \union {m.id}
           /\ Rising(q) /\ Below(IdsIn(q), {m.id}) => Rising(Append(q, m))
           /\ Honest(q) /\ OwnLevel(m.source, m.trust) => Honest(Append(q, m))
<1> DEFINE r == Append(q, m)
<1>1. /\ r \in Seq(Msgs) /\ r # <<>> /\ Len(r) = Len(q) + 1 /\ DOMAIN r = 1..(Len(q) + 1)
      /\ r[Len(q) + 1] = m /\ DOMAIN q = 1..Len(q) /\ Len(q) \in Nat
      /\ \A i \in 1..Len(q) : r[i] = q[i]
  OBVIOUS
<1> HIDE DEF r
<1>2. IdsIn(r) = IdsIn(q) \union {m.id}
  BY <1>1 DEF IdsIn
<1>3. Rising(q) /\ Below(IdsIn(q), {m.id}) => Rising(r)
  BY <1>1 DEF IdsIn, Rising, Below
<1>4. Honest(q) /\ OwnLevel(m.source, m.trust) => Honest(r)
  BY <1>1 DEF Honest
<1> QED BY <1>1, <1>2, <1>3, <1>4 DEF r

\* The message that leaves a queue is its first, and the rest is as it was.
LEMMA TailFacts ==
    ASSUME NEW q \in Seq(Msgs), q # <<>>
    PROVE  /\ Head(q) \in Msgs /\ Tail(q) \in Seq(Msgs) /\ Len(Tail(q)) = Len(q) - 1
           /\ IdsIn(q) = {Head(q).id} \union IdsIn(Tail(q))
           /\ Rising(q) => Rising(Tail(q)) /\ Below({Head(q).id}, IdsIn(Tail(q)))
           /\ Honest(q) => Honest(Tail(q)) /\ OwnLevel(Head(q).source, Head(q).trust)
<1> DEFINE r == Tail(q)
<1> DEFINE h == Head(q)
<1>1. /\ r \in Seq(Msgs) /\ Len(r) = Len(q) - 1 /\ DOMAIN r = 1..(Len(q) - 1)
      /\ h = q[1] /\ h \in Msgs /\ DOMAIN q = 1..Len(q) /\ Len(q) \in Nat \ {0}
      /\ \A i \in 1..(Len(q) - 1) : r[i] = q[i + 1]
  OBVIOUS
<1> HIDE DEF r, h
<1>2. IdsIn(q) = {h.id} \union IdsIn(r)
  <2>1. ASSUME NEW i \in DOMAIN q PROVE q[i].id \in {h.id} \union IdsIn(r)
    <3>1. CASE i = 1
      BY <1>1, <3>1
    <3>2. CASE i # 1
      <4>1. i - 1 \in DOMAIN r /\ r[i - 1] = q[i]
        BY <1>1, <3>2
      <4> QED BY <4>1 DEF IdsIn
    <3> QED BY <3>1, <3>2
  <2>2. ASSUME NEW i \in DOMAIN r PROVE r[i].id \in IdsIn(q)
    <3>1. i + 1 \in DOMAIN q /\ q[i + 1] = r[i]
      BY <1>1
    <3> QED BY <3>1 DEF IdsIn
  <2>3. h.id \in IdsIn(q)
    BY <1>1 DEF IdsIn
  <2> QED BY <2>1, <2>2, <2>3 DEF IdsIn
<1>3. ASSUME Rising(q) PROVE Rising(r) /\ Below({h.id}, IdsIn(r))
  <2>1. \A i, j \in DOMAIN r : i < j => i + 1 \in DOMAIN q /\ j + 1 \in DOMAIN q /\ i + 1 < j + 1
    BY <1>1
  <2>2. Rising(r)
    BY <1>1, <1>3, <2>1 DEF Rising
  <2>3. \A i \in DOMAIN r : h.id < r[i].id
    <3> TAKE i \in DOMAIN r
    <3>1. 1 \in DOMAIN q /\ i + 1 \in DOMAIN q /\ 1 < i + 1 /\ r[i] = q[i + 1]
      BY <1>1
    <3> QED BY <1>1, <1>3, <3>1 DEF Rising
  <2> QED BY <2>2, <2>3 DEF IdsIn, Below
<1>4. ASSUME Honest(q) PROVE Honest(r) /\ OwnLevel(h.source, h.trust)
  <2>1. \A i \in DOMAIN r : i + 1 \in DOMAIN q /\ r[i] = q[i + 1]
    BY <1>1
  <2>2. 1 \in DOMAIN q
    BY <1>1
  <2> QED BY <1>1, <1>4, <2>1, <2>2 DEF Honest
<1> QED BY <1>1, <1>2, <1>3, <1>4 DEF r, h

-----------------------------------------------------------------------------
(* One lemma for each kind of step.                                        *)

\* A message at a level of its source gets the next number.
LEMMA PushInv ==
    ASSUME IInv, NEW s \in Sources, NEW trust \in Trusts, NEW p \in Payloads,
           OwnLevel(s, trust), Push(s, trust, p)
    PROVE  IInv'
<1> DEFINE m == [id |-> count + 1, source |-> s, trust |-> trust, payload |-> p]
<1> USE DEF IInv
<1>1. /\ count < MaxMsgs /\ Len(bus) < BusCap /\ count' = count + 1 /\ bus' = Append(bus, m)
      /\ UNCHANGED <<open, chan, buf, due, tasks, done, prompt>>
  BY DEF Push
<1>2. m \in Msgs /\ m.id = count + 1 /\ OwnLevel(m.source, m.trust)
  BY DEF Msgs, QueueTypes
<1> HIDE DEF m
<1>3. bus \in Seq(Msgs) /\ count \in Nat
  BY DEF QueueTypes
<1>4. Below(IdsIn(bus), {m.id})
  BY <1>2, <1>3 DEF OrderInv, Below
<1>5. IdsIn(bus)' = IdsIn(bus) \union {count + 1} /\ Rising(bus)' /\ Honest(bus)' /\ bus' \in Seq(Msgs)
  BY <1>1, <1>2, <1>3, <1>4, AppendFacts DEF OrderInv, TrustInv
<1>6. QueueTypes'
  BY <1>1, <1>3, <1>5 DEF QueueTypes
<1>7. BatchTypes' /\ PromptType'
  BY <1>1 DEF BatchTypes, PromptType
<1>8. OpenType'
  BY <1>1 DEF OpenType
<1>9. TrustInv'
  BY <1>1, <1>5 DEF TrustInv, Honest
<1>10. OrderInv'
  <2>0. \A i \in 1..count : i < count + 1
    BY <1>3
  <2>1. Below(IdsIn(chan), IdsIn(bus))' /\ \A t \in Sources : Below(IdsIn(buf[t]), IdsIn(bus))'
    BY <1>1, <1>5, <2>0 DEF OrderInv, Below
  <2>2. IdsIn(bus)' \subseteq 1..count' /\ 1..count \subseteq 1..count'
    BY <1>1, <1>3, <1>5 DEF OrderInv
  <2> QED BY <1>1, <1>5, <2>1, <2>2 DEF OrderInv
<1>11. BatchInv'
  BY <1>1, <1>3, <1>5 DEF BatchInv, Below
<1>12. ApartInv'
  BY <1>1 DEF ApartInv
<1>13. SomewhereInv'
  BY <1>1, <1>3, <1>5 DEF SomewhereInv
<1> QED BY <1>6, <1>7, <1>8, <1>9, <1>10, <1>11, <1>12, <1>13

\* The last sender is dropped; nothing moves.
LEMMA CloseInv == ASSUME IInv, Close PROVE IInv'
<1> USE DEF IInv, Close
<1>1. QueueTypes' /\ BatchTypes' /\ PromptType' /\ TrustInv' /\ OrderInv' /\ BatchInv'
  BY DEF QueueTypes, BatchTypes, PromptType, TrustInv, Honest, OrderInv, BatchInv
<1>2. OpenType'
  BY DEF OpenType
<1>3. ApartInv' /\ SomewhereInv'
  BY DEF ApartInv, SomewhereInv
<1> QED BY <1>1, <1>2, <1>3

\* The oldest message of the bus is newer than all of the channel.
LEMMA ForwardInv == ASSUME IInv, Forward PROVE IInv'
<1> DEFINE m == Head(bus)
<1> USE DEF IInv
<1>1. /\ bus # <<>> /\ chan' = Append(chan, m) /\ bus' = Tail(bus)
      /\ UNCHANGED <<count, open, buf, due, tasks, done, prompt>>
  BY DEF Forward
<1>2. /\ m \in Msgs /\ bus' \in Seq(Msgs) /\ Len(bus') = Len(bus) - 1
      /\ IdsIn(bus) = {m.id} \union IdsIn(bus')
      /\ Rising(bus') /\ Below({m.id}, IdsIn(bus'))
      /\ Honest(bus') /\ OwnLevel(m.source, m.trust)
  BY <1>1, TailFacts DEF QueueTypes, OrderInv, TrustInv
<1> HIDE DEF m
<1>3. Below(IdsIn(chan), {m.id}) /\ chan \in Seq(Msgs)
  BY <1>2 DEF OrderInv, Below, QueueTypes
<1>4. /\ chan' \in Seq(Msgs) /\ IdsIn(chan') = IdsIn(chan) \union {m.id}
      /\ Rising(chan') /\ Honest(chan')
  BY <1>1, <1>2, <1>3, AppendFacts DEF OrderInv, TrustInv
<1>5. QueueTypes'
  BY <1>1, <1>2, <1>4 DEF QueueTypes
<1>6. BatchTypes' /\ PromptType'
  BY <1>1 DEF BatchTypes, PromptType
<1>7. OpenType'
  BY <1>1 DEF OpenType
<1>8. TrustInv'
  BY <1>1, <1>2, <1>4 DEF TrustInv
<1>9. OrderInv'
  BY <1>1, <1>2, <1>4 DEF OrderInv, Below
<1>10. BatchInv'
  BY <1>1, <1>2, <1>4 DEF BatchInv, Below
<1>11. ApartInv'
  BY <1>1 DEF ApartInv
<1>12. SomewhereInv'
  BY <1>1, <1>2, <1>4 DEF SomewhereInv
<1> QED BY <1>5, <1>6, <1>7, <1>8, <1>9, <1>10, <1>11, <1>12

\* The oldest message of the channel is newer than all of the buffers, and than
\* every batch.
LEMMA IngestInv == ASSUME IInv, Ingest PROVE IInv'
<1> DEFINE m == Head(chan)
<1> DEFINE s == m.source
<1> USE DEF IInv
<1>1. /\ chan # <<>> /\ chan' = Tail(chan)
      /\ buf' = [buf EXCEPT ![s] = Append(buf[s], m)]
      /\ due' \subseteq due \union {s}
      /\ UNCHANGED <<count, bus, open, tasks, done, prompt>>
  BY DEF Ingest
<1>2. /\ m \in Msgs /\ chan' \in Seq(Msgs)
      /\ IdsIn(chan) = {m.id} \union IdsIn(chan')
      /\ Rising(chan') /\ Below({m.id}, IdsIn(chan'))
      /\ Honest(chan') /\ OwnLevel(m.source, m.trust)
  BY <1>1, TailFacts DEF QueueTypes, OrderInv, TrustInv
<1> HIDE DEF m
<1>3. s \in Sources /\ m.id \in 1..count
  BY <1>2 DEF Msgs, OrderInv
<1>4. Below(IdsIn(buf[s]), {m.id}) /\ buf[s] \in Seq(Msgs)
  BY <1>2, <1>3 DEF OrderInv, Below, QueueTypes
<1>5. /\ Append(buf[s], m) \in Seq(Msgs) /\ Append(buf[s], m) # <<>>
      /\ IdsIn(Append(buf[s], m)) = IdsIn(buf[s]) \union {m.id}
      /\ Rising(Append(buf[s], m)) /\ Honest(Append(buf[s], m))
  BY <1>2, <1>3, <1>4, AppendFacts DEF OrderInv, TrustInv
<1> DEFINE b == Append(buf[s], m)
<1>6. Honest(b) /\ \A i \in DOMAIN b : b[i].source = s
  BY <1>2, <1>3, <1>4, <1>5 DEF TrustInv
<1> HIDE DEF b
<1>7. buf' \in [Sources -> Seq(Msgs)] /\ buf'[s] = b /\ \A t \in Sources : t # s => buf'[t] = buf[t]
  BY <1>1, <1>3, <1>5 DEF QueueTypes, b
<1>8. IdsIn(buf'[s]) = IdsIn(buf[s]) \union {m.id} /\ Rising(buf'[s]) /\ buf'[s] # <<>>
  BY <1>5, <1>7 DEF b
<1>9. QueueTypes'
  BY <1>1, <1>2, <1>7 DEF QueueTypes
<1>10. BatchTypes' /\ PromptType'
  BY <1>1, <1>3, <1>7, <1>8 DEF BatchTypes, PromptType
<1>11. OpenType'
  BY <1>1 DEF OpenType
<1>12. TrustInv'
  BY <1>1, <1>2, <1>6, <1>7 DEF TrustInv
<1>13. OrderInv'
  <2>1. ASSUME NEW t \in Sources
        PROVE  /\ Rising(buf'[t]) /\ IdsIn(buf'[t]) \subseteq 1..count
               /\ Below(IdsIn(buf'[t]), IdsIn(chan')) /\ Below(IdsIn(buf'[t]), IdsIn(bus))
    BY <1>2, <1>3, <1>7, <1>8 DEF OrderInv, Below
  <2> QED BY <1>1, <1>2, <2>1 DEF OrderInv, Below
<1>14. BatchInv'
  BY <1>1, <1>2, <1>7, <1>8 DEF BatchInv, Below, BatchTypes, Tasks, Ended
<1>15. ApartInv'
  <2>1. \A t \in Sources : m.id \notin IdsIn(buf[t])
    BY <1>2, <1>3 DEF OrderInv, Below
  <2>2. \A k \in tasks \union done : m.id \notin IdsOf(k)
    <3>1. m.id \in IdsIn(chan) /\ m.id \in Nat
      BY <1>2, <1>3 DEF QueueTypes
    <3>2. ~(m.id < m.id)
      BY <3>1
    <3> QED BY <3>1, <3>2 DEF BatchInv, Below
  <2> QED BY <1>1, <1>3, <1>7, <1>8, <2>1, <2>2 DEF ApartInv
<1>16. SomewhereInv'
  BY <1>1, <1>2, <1>3, <1>7, <1>8 DEF SomewhereInv
<1> QED BY <1>9, <1>10, <1>11, <1>12, <1>13, <1>14, <1>15, <1>16

\* Time passes for a source.
LEMMA QuietInv == ASSUME IInv, NEW s \in Sources, Quiet(s) PROVE IInv'
<1> USE DEF IInv, Quiet
<1>1. QueueTypes' /\ BatchTypes' /\ PromptType' /\ TrustInv' /\ OrderInv' /\ BatchInv'
  BY DEF QueueTypes, BatchTypes, PromptType, TrustInv, Honest, OrderInv, BatchInv
<1>2. OpenType'
  BY DEF OpenType
<1>3. ApartInv' /\ SomewhereInv'
  BY DEF ApartInv, SomewhereInv
<1> QED BY <1>1, <1>2, <1>3

\* The gathered message has the numbers of the buffer, in their order, and levels
\* of its source; if it names anything, it is the only message of the buffer.
LEMMA CombineFacts ==
    ASSUME IInv, NEW s \in Sources, buf[s] # <<>>
    PROVE  /\ Combine(s) \in Tasks /\ Combine(s).source = s /\ Combine(s).at = "start"
           /\ Gathered(Combine(s))
           /\ Combine(s).names => Combine(s).trusts = {Combine(s).trust}
           /\ IdsOf(Combine(s)) = IdsIn(buf[s]) /\ Combine(s).ids # <<>>
           /\ \A i, j \in DOMAIN Combine(s).ids : i < j => Combine(s).ids[i] < Combine(s).ids[j]
<1> DEFINE ids == [i \in DOMAIN buf[s] |-> buf[s][i].id]
<1>1. buf[s] \in Seq(Msgs) /\ DOMAIN buf[s] = 1..Len(buf[s]) /\ Len(buf[s]) \in Nat \ {0}
  BY DEF IInv, QueueTypes
<1>2. \A i \in 1..Len(buf[s]) : buf[s][i] \in Msgs /\ buf[s][i].id \in Nat
  <2>1. \A i \in 1..Len(buf[s]) : buf[s][i] \in Msgs
    BY <1>1
  <2>2. \A m \in Msgs : m.id \in Nat
    BY DEF Msgs
  <2> QED BY <2>1, <2>2
<1>3. ids \in Seq(Nat) /\ ids # <<>> /\ DOMAIN ids = DOMAIN buf[s]
  BY <1>1, <1>2
<1>4. PICK tr : tr = {buf[s][i].trust : i \in DOMAIN buf[s]}
  OBVIOUS
<1>5. PICK first : first = Head(buf[s]).trust
  OBVIOUS
<1>50. PICK names : names = (Len(buf[s]) = 1 /\ Head(buf[s]).payload.names)
  OBVIOUS
<1>51. /\ first \in tr /\ tr \in SUBSET Trusts /\ first \in Trusts
       /\ \A t \in tr : OwnLevel(s, t)
  <2>1. first = buf[s][1].trust /\ 1 \in DOMAIN buf[s]
    BY <1>1, <1>5
  <2>2. \A m \in Msgs : m.trust \in Trusts
    BY DEF Msgs
  <2>3. \A i \in DOMAIN buf[s] : buf[s][i].trust \in Trusts /\ OwnLevel(s, buf[s][i].trust)
    BY <1>1, <1>2, <2>2 DEF IInv, TrustInv, Honest
  <2> QED BY <1>4, <2>1, <2>3
<1>52. names \in BOOLEAN /\ (names => tr = {first})
  <2>1. names \in BOOLEAN
    BY <1>50, Zenon
  <2>2. ASSUME names PROVE tr = {first}
    <3>1. Len(buf[s]) = 1
      BY <1>50, <2>2
    <3>2. DOMAIN buf[s] = {1} /\ first = buf[s][1].trust
      BY <1>1, <1>5, <3>1
    <3> QED BY <1>4, <3>2
  <2> QED BY <2>1, <2>2
<1>53. Combine(s) = [source |-> s, trust |-> first, names |-> names, trusts |-> tr,
                     ids |-> ids, at |-> "start"]
  BY <1>4, <1>5, <1>50 DEF Combine
<1>6. \A i, j \in DOMAIN ids : i < j => ids[i] < ids[j]
  BY DEF IInv, OrderInv, Rising
<1>7. IdsIn(buf[s]) = {ids[i] : i \in DOMAIN ids}
  BY DEF IdsIn
<1> HIDE DEF ids
<1> QED BY <1>3, <1>51, <1>52, <1>53, <1>6, <1>7 DEF Tasks, IdsOf, Gathered

\* Each source that is handed out leaves its buffer for one task.
LEMMA HandOutInv ==
    ASSUME IInv, NEW ready, ready \subseteq {s \in Sources : buf[s] # <<>>}, HandOut(ready),
           UNCHANGED <<count, bus, open, chan, done, prompt>>
    PROVE  IInv'
<1> USE DEF IInv
<1>1. /\ \A k \in tasks' : k \in tasks \/ \E s \in ready : k = Combine(s)
      /\ tasks \subseteq tasks' /\ \A s \in ready : Combine(s) \in tasks'
      /\ due' = due \ ready
      /\ \A s \in Sources : buf'[s] = IF s \in ready THEN <<>> ELSE buf[s]
      /\ buf' = [s \in Sources |-> IF s \in ready THEN <<>> ELSE buf[s]]
  BY DEF HandOut
<1>2. \A s \in ready : s \in Sources /\ buf[s] # <<>>
  OBVIOUS
<1>3. \A s \in ready :
        /\ Combine(s) \in Tasks /\ Combine(s).source = s /\ Combine(s).at = "start"
        /\ Gathered(Combine(s))
        /\ Combine(s).names => Combine(s).trusts = {Combine(s).trust}
        /\ IdsOf(Combine(s)) = IdsIn(buf[s]) /\ Combine(s).ids # <<>>
        /\ \A i, j \in DOMAIN Combine(s).ids : i < j => Combine(s).ids[i] < Combine(s).ids[j]
  BY <1>2, CombineFacts
<1>4. \A s \in Sources : IdsIn(buf'[s]) = IF s \in ready THEN {} ELSE IdsIn(buf[s])
  BY <1>1, EmptyFacts
<1>5. QueueTypes'
  <2>1. <<>> \in Seq(Msgs)
    OBVIOUS
  <2> QED BY <1>1, <2>1 DEF QueueTypes
<1>6. BatchTypes' /\ PromptType'
  BY <1>1, <1>3 DEF BatchTypes, PromptType
<1>7. OpenType'
  BY DEF OpenType
<1>8. TrustInv'
  BY <1>1, <1>3 DEF TrustInv, Honest
<1>9. OrderInv'
  <2>1. \A s \in Sources : Rising(buf'[s])
    BY <1>1, EmptyFacts DEF OrderInv
  <2> QED BY <1>4, <2>1 DEF OrderInv, Below
<1>10. BatchInv'
  <2> SUFFICES ASSUME NEW k \in tasks' \union done'
               PROVE  /\ k.ids # <<>> /\ IdsOf(k) \subseteq 1..count
                      /\ \A i, j \in DOMAIN k.ids : i < j => k.ids[i] < k.ids[j]
                      /\ Below(IdsOf(k), IdsIn(chan)) /\ Below(IdsOf(k), IdsIn(bus))
                      /\ Below(IdsOf(k), IdsIn(buf'[k.source]))
    BY DEF BatchInv
  <2>1. CASE k \in tasks \union done
    <3>1. k.source \in Sources
      BY <2>1 DEF BatchTypes, Tasks, Ended
    <3> QED BY <2>1, <3>1, <1>4 DEF BatchInv, Below
  <2>2. CASE k \notin tasks \union done
    <3>1. PICK s \in ready : k = Combine(s)
      BY <1>1, <2>2
    <3> QED BY <1>2, <1>3, <1>4, <3>1 DEF OrderInv, Below
  <2> QED BY <2>1, <2>2
<1>11. ApartInv'
  <2>1. \A s, t \in Sources : s # t => IdsIn(buf'[s]) \intersect IdsIn(buf'[t]) = {}
    BY <1>4 DEF ApartInv
  <2>2. \A s \in Sources : \A k \in tasks' \union done : IdsIn(buf'[s]) \intersect IdsOf(k) = {}
    BY <1>1, <1>2, <1>3, <1>4 DEF ApartInv
  <2>3. \A k, l \in tasks' : k # l => IdsOf(k) \intersect IdsOf(l) = {}
    <3> SUFFICES ASSUME NEW k \in tasks', NEW l \in tasks', k # l
                 PROVE  IdsOf(k) \intersect IdsOf(l) = {}
      OBVIOUS
    <3>1. CASE k \in tasks /\ l \in tasks
      BY <3>1 DEF ApartInv
    <3>2. CASE k \in tasks /\ l \notin tasks
      BY <1>1, <1>2, <1>3, <3>2 DEF ApartInv
    <3>3. CASE k \notin tasks /\ l \in tasks
      BY <1>1, <1>2, <1>3, <3>3 DEF ApartInv
    <3>4. CASE k \notin tasks /\ l \notin tasks
      BY <1>1, <1>2, <1>3, <3>4 DEF ApartInv
    <3> QED BY <3>1, <3>2, <3>3, <3>4
  <2>4. \A k \in tasks', l \in done : IdsOf(k) \intersect IdsOf(l) = {}
    BY <1>1, <1>2, <1>3 DEF ApartInv
  <2> QED BY <2>1, <2>2, <2>3, <2>4 DEF ApartInv
<1>12. SomewhereInv'
  <2> SUFFICES ASSUME NEW i \in 1..count
               PROVE  \/ i \in IdsIn(bus) \/ i \in IdsIn(chan)
                      \/ \E s \in Sources : i \in IdsIn(buf'[s])
                      \/ \E k \in tasks' \union done : i \in IdsOf(k)
    BY DEF SomewhereInv
  <2>1. ASSUME NEW s \in Sources, i \in IdsIn(buf[s])
        PROVE  i \in IdsIn(buf'[s]) \/ (s \in ready /\ i \in IdsOf(Combine(s)))
    BY <2>1, <1>3, <1>4
  <2> QED BY <1>1, <2>1 DEF SomewhereInv
<1> QED BY <1>5, <1>6, <1>7, <1>8, <1>9, <1>10, <1>11, <1>12

\* A task goes on with the messages it has.
LEMMA AdvanceInv ==
    ASSUME IInv, NEW k \in tasks, NEW at \in {"persona", "chat"}, Advance(k, at), PromptType',
           k.trust = "trusted" => k.names,
           UNCHANGED <<count, bus, open, chan, buf, due, done>>
    PROVE  IInv'
<1> DEFINE n == [k EXCEPT !.at = at]
<1> USE DEF IInv
<1>1. /\ n \in Tasks /\ n.source = k.source /\ n.trust = k.trust /\ n.ids = k.ids
      /\ n.names = k.names /\ n.trusts = k.trusts
  BY DEF BatchTypes, Tasks
<1>2. tasks' = (tasks \ {k}) \union {n}
  BY DEF Advance
<1> HIDE DEF n
<1>3. IdsOf(n) = IdsOf(k)
  BY <1>1 DEF IdsOf
<1>4. QueueTypes' /\ BatchTypes'
  BY <1>1, <1>2 DEF QueueTypes, BatchTypes
<1>5. OpenType'
  BY DEF OpenType
<1>6. TrustInv' /\ OrderInv'
  BY <1>1, <1>2 DEF TrustInv, Honest, Gathered, OrderInv
<1>7. BatchInv'
  BY <1>1, <1>2, <1>3 DEF BatchInv
<1>8. ApartInv'
  BY <1>2, <1>3 DEF ApartInv
<1>9. SomewhereInv'
  BY <1>2, <1>3 DEF SomewhereInv
<1> QED BY <1>4, <1>5, <1>6, <1>7, <1>8, <1>9

\* A task that ends leaves its messages with the batches that are done.
LEMMA FinishInv ==
    ASSUME IInv, NEW k \in tasks, NEW ran \in BOOLEAN, Finish(k, ran),
           k.trust = "trusted" /\ ran => k.names,
           UNCHANGED <<count, bus, open, chan, buf, due, prompt>>
    PROVE  IInv'
<1> DEFINE n == [source |-> k.source, trust |-> k.trust, trusts |-> k.trusts,
                 ids |-> k.ids, ran |-> ran]
<1> USE DEF IInv
<1>1. /\ n \in Ended /\ n.source = k.source /\ n.trust = k.trust /\ n.ids = k.ids
      /\ n.trusts = k.trusts /\ n.ran = ran
  BY DEF BatchTypes, Tasks, Ended
<1>2. tasks' = tasks \ {k} /\ done' = done \union {n}
  BY DEF Finish
<1> HIDE DEF n
<1>3. IdsOf(n) = IdsOf(k)
  BY <1>1 DEF IdsOf
<1>4. QueueTypes' /\ BatchTypes' /\ PromptType'
  BY <1>1, <1>2 DEF QueueTypes, BatchTypes, PromptType
<1>5. OpenType'
  BY DEF OpenType
<1>6. TrustInv' /\ OrderInv'
  BY <1>1, <1>2 DEF TrustInv, Honest, Gathered, OrderInv
<1>7. BatchInv'
  BY <1>1, <1>2, <1>3 DEF BatchInv
<1>8. ApartInv'
  BY <1>2, <1>3 DEF ApartInv
<1>9. SomewhereInv'
  BY <1>2, <1>3 DEF SomewhereInv
<1> QED BY <1>4, <1>5, <1>6, <1>7, <1>8, <1>9

-----------------------------------------------------------------------------
(* The invariant.                                                          *)

\* Nothing is on its way at first.
LEMMA InitInv == ASSUME Init PROVE IInv
<1> USE DEF Init
<1>1. <<>> \in Seq(Msgs) /\ Len(<<>>) = 0
  OBVIOUS
<1>2. QueueTypes /\ BatchTypes /\ PromptType
  BY <1>1 DEF QueueTypes, BatchTypes, PromptType
<1>3. OpenType
  BY DEF OpenType
<1>4. TrustInv /\ OrderInv
  BY EmptyFacts DEF TrustInv, OrderInv, Below
<1>5. BatchInv /\ ApartInv /\ SomewhereInv
  BY EmptyFacts DEF BatchInv, ApartInv, SomewhereInv
<1> QED BY <1>2, <1>3, <1>4, <1>5 DEF IInv

\* Telegram's level depends on the sender, and everyone else's is "trusted".
LEMMA ProducerInv ==
    ASSUME IInv, NEW s \in Sources, Telegram(s) \/ CronJob(s) \/ ScriptPush(s) PROVE IInv'
<1>1. PICK trust \in Trusts, p \in Payloads : OwnLevel(s, trust) /\ Push(s, trust, p)
  BY DEF Telegram, TelegramTrust, CronJob, ScriptPush, OwnLevel, Trusts, Chats
<1> QED BY <1>1, PushInv

\* Both ways out of the buffers hand out sources that have messages.
LEMMA FlushInv == ASSUME IInv, Tick \/ FlushAll PROVE IInv'
<1>1. CASE Tick
  BY <1>1, HandOutInv DEF Tick, IInv, BatchTypes
<1>2. CASE FlushAll
  BY <1>2, HandOutInv DEF FlushAll
<1> QED BY <1>1, <1>2

\* A task goes on or ends.
LEMMA ProcessInv ==
    ASSUME IInv, NEW k \in tasks, Process(k) \/ EndChat(k) PROVE IInv'
<1>0. k.source \in Sources /\ prompt \in [Sources -> {"none", "default", "persona"}]
  BY DEF IInv, BatchTypes, Tasks, PromptType
<1>1. CASE StartOwner(k)
  <2>1. PromptType'
    BY <1>0, <1>1 DEF StartOwner, PromptType
  <2> QED BY <1>1, <2>1, AdvanceInv DEF StartOwner
<1>2. CASE StartJob(k) \/ StartSanitizer(k)
  <2>1. PromptType'
    BY <1>0, <1>2 DEF StartJob, StartSanitizer, PromptType
  <2> QED BY <1>2, <2>1, AdvanceInv DEF StartJob, StartSanitizer
<1>3. CASE Renew(k)
  <2>1. PromptType'
    BY <1>0, <1>3 DEF Renew, PromptType
  <2>2. k.trust = "trusted" => k.names
    BY <1>3 DEF Renew, IInv, TrustInv
  <2> QED BY <1>3, <2>1, <2>2, AdvanceInv DEF Renew
<1>4. CASE NoSession(k) \/ RunScript(k) \/ IgnoreTrusted(k) \/ EndChat(k)
  <2>1. PICK ran \in BOOLEAN : Finish(k, ran) /\ (k.trust = "trusted" /\ ran => k.names)
    BY <1>4 DEF NoSession, RunScript, IgnoreTrusted, EndChat, IInv, TrustInv
  <2> QED BY <1>4, <2>1, FinishInv DEF NoSession, RunScript, IgnoreTrusted, EndChat
<1> QED BY <1>1, <1>2, <1>3, <1>4 DEF Process

\* A step that changes nothing keeps the invariant.
LEMMA StutterInv == ASSUME IInv, UNCHANGED vars PROVE IInv'
<1> USE DEF vars, IInv
<1>1. QueueTypes' /\ BatchTypes' /\ PromptType' /\ TrustInv' /\ OrderInv' /\ BatchInv'
  BY DEF QueueTypes, BatchTypes, PromptType, TrustInv, Honest, OrderInv, BatchInv
<1>2. OpenType'
  BY DEF OpenType
<1>3. ApartInv' /\ SomewhereInv'
  BY DEF ApartInv, SomewhereInv
<1> QED BY <1>1, <1>2, <1>3

\* Every step keeps the invariant.
LEMMA StepInv == ASSUME IInv, [Next]_vars PROVE IInv'
<1>1. ASSUME NEW s \in Sources, Telegram(s) \/ CronJob(s) \/ ScriptPush(s) \/ Quiet(s) PROVE IInv'
  BY <1>1, ProducerInv, QuietInv
<1>2. CASE Close \/ Forward \/ Ingest \/ Tick \/ FlushAll
  BY <1>2, CloseInv, ForwardInv, IngestInv, FlushInv
<1>3. ASSUME NEW k \in tasks, Process(k) \/ EndChat(k) PROVE IInv'
  BY <1>3, ProcessInv
<1>4. CASE UNCHANGED vars
  BY <1>4, StutterInv
<1> QED BY <1>1, <1>2, <1>3, <1>4 DEF Next

\* The invariant of every state that can be reached.
LEMMA Invariance == Spec => []IInv
<1>1. Init => IInv
  BY InitInv
<1>2. IInv /\ [Next]_vars => IInv'
  BY StepInv
<1> QED BY <1>1, <1>2, PTL DEF Spec

-----------------------------------------------------------------------------
(* What follows from it.                                                   *)

\* A message is in at least one place, and in no two.
LEMMA InOnePlace == ASSUME IInv PROVE Conserved
<1> SUFFICES ASSUME NEW i \in 1..count PROVE Places(i) = 1
  BY DEF Conserved
<1> DEFINE S == {s \in Sources : i \in IdsIn(buf[s])}
<1> DEFINE T == {k \in tasks : i \in IdsOf(k)}
<1> DEFINE D == {b \in done : i \in IdsOf(b)}
<1> DEFINE inBus == i \in IdsIn(bus)
<1> DEFINE inChan == i \in IdsIn(chan)
<1> USE DEF IInv
<1>1. ~(i < i)
  BY DEF QueueTypes
<1>2. inBus => ~inChan /\ S = {} /\ T = {} /\ D = {}
  BY <1>1 DEF OrderInv, BatchInv, Below
<1>3. inChan => S = {} /\ T = {} /\ D = {}
  BY <1>1 DEF OrderInv, BatchInv, Below
<1>4. ASSUME S # {} PROVE (\E s : S = {s}) /\ T = {} /\ D = {}
  <2>1. PICK s \in S : TRUE
    BY <1>4
  <2>2. S = {s}
    BY <2>1 DEF ApartInv
  <2>3. T = {} /\ D = {}
    BY <2>1 DEF ApartInv
  <2> QED BY <2>2, <2>3
<1>5. ASSUME T # {} PROVE (\E k : T = {k}) /\ D = {}
  <2>1. PICK k \in T : TRUE
    BY <1>5
  <2>2. T = {k}
    BY <2>1 DEF ApartInv
  <2>3. D = {}
    BY <2>1 DEF ApartInv
  <2> QED BY <2>2, <2>3
<1>6. ASSUME D # {} PROVE (\E b : D = {b})
  <2>1. PICK b \in D : TRUE
    BY <1>6
  <2>2. D = {b}
    BY <2>1 DEF ApartInv
  <2> QED BY <2>2
<1>7. inBus \/ inChan \/ S # {} \/ T # {} \/ D # {}
  BY DEF SomewhereInv
<1>8. Places(i) = (IF inBus THEN 1 ELSE 0) + (IF inChan THEN 1 ELSE 0)
                  + Cardinality(S) + Cardinality(T) + Cardinality(D)
  BY DEF Places
<1> HIDE DEF S, T, D, inBus, inChan
<1>9. Cardinality({}) = 0 /\ \A x : Cardinality({x}) = 1
  BY FS_EmptySet, FS_Singleton
<1>10. CASE inBus \/ inChan
  BY <1>2, <1>3, <1>8, <1>9, <1>10
<1>11. CASE ~inBus /\ ~inChan
  <2>1. Cardinality(S) = (IF S = {} THEN 0 ELSE 1) /\ Cardinality(T) = (IF T = {} THEN 0 ELSE 1)
        /\ Cardinality(D) = (IF D = {} THEN 0 ELSE 1)
    BY <1>4, <1>5, <1>6, <1>9
  <2> QED BY <1>4, <1>5, <1>7, <1>8, <1>11, <2>1
<1> QED BY <1>10, <1>11

\* Two queues in order, one older than the other, are one queue in order.
LEMMA ConcatFacts ==
    ASSUME NEW p \in Seq(Msgs), NEW q \in Seq(Msgs), Rising(p), Rising(q), Below(IdsIn(p), IdsIn(q))
    PROVE  p \o q \in Seq(Msgs) /\ Rising(p \o q) /\ IdsIn(p \o q) = IdsIn(p) \union IdsIn(q)
<1> DEFINE r == p \o q
<1>1. /\ r \in Seq(Msgs) /\ DOMAIN r = 1..(Len(p) + Len(q))
      /\ DOMAIN p = 1..Len(p) /\ DOMAIN q = 1..Len(q) /\ Len(p) \in Nat /\ Len(q) \in Nat
      /\ \A i \in 1..(Len(p) + Len(q)) : r[i] = IF i <= Len(p) THEN p[i] ELSE q[i - Len(p)]
  OBVIOUS
<1> HIDE DEF r
<1>2. \A i \in DOMAIN r : IF i <= Len(p) THEN i \in DOMAIN p /\ r[i] = p[i]
                                         ELSE i - Len(p) \in DOMAIN q /\ r[i] = q[i - Len(p)]
  BY <1>1
<1>3. \A i \in DOMAIN p, j \in DOMAIN q : p[i].id < q[j].id
  BY DEF Below, IdsIn
<1>4. Rising(r)
  <2> SUFFICES ASSUME NEW i \in DOMAIN r, NEW j \in DOMAIN r, i < j PROVE r[i].id < r[j].id
    BY DEF Rising
  <2>1. CASE i <= Len(p) /\ j <= Len(p)
    BY <1>1, <1>2, <2>1 DEF Rising
  <2>2. CASE i <= Len(p) /\ ~(j <= Len(p))
    BY <1>1, <1>2, <1>3, <2>2
  <2>3. CASE ~(i <= Len(p)) /\ ~(j <= Len(p))
    <3>1. i - Len(p) < j - Len(p)
      BY <1>1
    <3> QED BY <1>2, <2>3, <3>1 DEF Rising
  <2> QED BY <1>1, <2>1, <2>2, <2>3
<1>5. IdsIn(r) = IdsIn(p) \union IdsIn(q)
  <2>1. \A i \in DOMAIN p : i \in DOMAIN r /\ r[i] = p[i]
    BY <1>1
  <2>2. \A i \in DOMAIN q : i + Len(p) \in DOMAIN r /\ r[i + Len(p)] = q[i]
    BY <1>1
  <2> QED BY <1>2, <2>1, <2>2 DEF IdsIn
<1> QED BY <1>1, <1>4, <1>5 DEF r

\* Buffer, channel and bus are in one order.
LEMMA OrderKept == ASSUME IInv PROVE SourceOrder
<1> SUFFICES ASSUME NEW s \in Sources
             PROVE  LET way == buf[s] \o chan \o bus
                        mine == {i \in DOMAIN way : way[i].source = s} IN
                      /\ \A i, j \in mine : i < j => way[i].id < way[j].id
                      /\ \A k \in tasks \union done : k.source = s =>
                           /\ \A i, j \in DOMAIN k.ids : i < j => k.ids[i] < k.ids[j]
                           /\ \A i \in IdsOf(k), j \in mine : i < way[j].id
  BY DEF SourceOrder
<1> DEFINE front == buf[s] \o chan
<1> DEFINE way == front \o bus
<1> USE DEF IInv
<1>1. /\ buf[s] \in Seq(Msgs) /\ chan \in Seq(Msgs) /\ bus \in Seq(Msgs)
      /\ Rising(buf[s]) /\ Rising(chan) /\ Rising(bus)
      /\ Below(IdsIn(buf[s]), IdsIn(chan)) /\ Below(IdsIn(buf[s]), IdsIn(bus))
      /\ Below(IdsIn(chan), IdsIn(bus))
  BY DEF QueueTypes, OrderInv
<1>2. front \in Seq(Msgs) /\ Rising(front) /\ IdsIn(front) = IdsIn(buf[s]) \union IdsIn(chan)
  BY <1>1, ConcatFacts
<1> HIDE DEF front
<1>3. Below(IdsIn(front), IdsIn(bus))
  BY <1>1, <1>2 DEF Below
<1>4. Rising(way) /\ IdsIn(way) = IdsIn(front) \union IdsIn(bus)
  BY <1>1, <1>2, <1>3, ConcatFacts
<1>5. ASSUME NEW k \in tasks \union done, k.source = s
      PROVE  /\ \A i, j \in DOMAIN k.ids : i < j => k.ids[i] < k.ids[j]
             /\ Below(IdsOf(k), IdsIn(way))
  BY <1>2, <1>4, <1>5 DEF BatchInv, Below
<1>6. \A j \in DOMAIN way : way[j].id \in IdsIn(way)
  BY DEF IdsIn
<1>7. \A i, j \in DOMAIN way : i < j => way[i].id < way[j].id
  BY <1>4 DEF Rising
<1>8. \A k \in tasks \union done : k.source = s =>
        \A i \in IdsOf(k), j \in DOMAIN way : i < way[j].id
  BY <1>5, <1>6 DEF Below
<1> QED BY <1>5, <1>7, <1>8 DEF front

\* The variables of the ingress pipeline have their types.
THEOREM IngressTypeCorrect == Spec => []TypeOK
<1>1. IInv => TypeOK
  BY DEF IInv, QueueTypes, BatchTypes, OpenType, PromptType, TypeOK
<1> QED BY <1>1, Invariance, PTL

\* From push() to the end of its task a message is in exactly one place, for any
\* number of sources and messages, any capacity of the bus and any limit of the
\* buffer: debounce, forced flush and the flush at shutdown neither lose nor
\* duplicate one (bus.rs, controller.rs, debounce.rs, handler.rs).
THEOREM NothingLostOnTheWay == Spec => []Conserved
<1>1. IInv => Conserved
  BY InOnePlace
<1> QED BY <1>1, Invariance, PTL

\* Untrusted text keeps its level although combine_session takes that of the
\* first message and scripts push under any source: it is part of no command of
\* the owner, and joined behind a script's message it has no effect.
THEOREM UntrustedStaysConfined == Spec => []UntrustedConfined
<1>1. ASSUME IInv PROVE UntrustedConfined
  <2>1. \A k \in tasks \union done : "untrusted" \in k.trusts => k.trust # "owner"
    BY <1>1, SourcesAssumption DEF IInv, TrustInv, Gathered, OwnLevel
  <2>2. \A k \in tasks : "untrusted" \in k.trusts /\ k.trust = "trusted" => k.at = "start"
    BY <1>1 DEF IInv, TrustInv
  <2>3. \A b \in done : "untrusted" \in b.trusts /\ b.trust = "trusted" => ~b.ran
    BY <1>1 DEF IInv, TrustInv
  <2> QED BY <2>1, <2>2, <2>3 DEF UntrustedConfined
<1> QED BY <1>1, Invariance, PTL

\* The messages of a source stay in the order in which they were pushed, through
\* bus, channel, buffer and batches.
THEOREM SourceOrderKept == Spec => []SourceOrder
<1>1. IInv => SourceOrder
  BY OrderKept
<1> QED BY <1>1, Invariance, PTL
=============================================================================
