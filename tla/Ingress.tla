------------------------------ MODULE Ingress ------------------------------
(***************************************************************************)
(* From the outside world to an agent turn: producers push messages onto   *)
(* the bounded ingress bus (ingress/bus.rs), the ingress loop forwards     *)
(* them to the debounce worker (ingress/controller.rs), which gathers the  *)
(* messages of each source into one (ingress/debounce.rs) and spawns a     *)
(* task per gathered message (ingress/handler.rs).                         *)
(*                                                                         *)
(* Producers: Telegram by polling or webhook (server/telegram_polling.rs,  *)
(* server/telegram.rs), cron jobs (scheduler/), scripts (scripting/deno.rs)*)
(*                                                                         *)
(* Messages are numbered in the order of their arrival on the bus.  Time   *)
(* enters only as "this source has been quiet for debounce_seconds".       *)
(* A payload is reduced to its length and to whether, taken alone, it is   *)
(* the name of an existing prompt or script.                               *)
(***************************************************************************)
EXTENDS Naturals, Sequences, FiniteSets, FiniteSetsExt

CONSTANTS
    Owner,          \* the source of the configured owner, "telegram:<owner id>"
    Users,          \* sources of other Telegram users
    Jobs,           \* "scheduler:<name>" of jobs and dynamic scripts
    KnownJobs,      \* those whose prompt or script exists
    ScriptSources,  \* sources that only scripts use
    Noisy,          \* sources that need never be quiet for debounce_seconds
    Payloads,       \* what messages say, see the assumption
    BusCap,         \* capacity of the bus (100 in the daemon)
    MaxDebounce,    \* ingress.max_debounce_messages
    MaxChars,       \* ingress.max_debounce_chars
    MaxMsgs         \* bound: messages pushed altogether

Chats == {Owner} \union Users

Sources == Chats \union Jobs \union ScriptSources

\* A user id is the owner's or not, and "telegram:" is not "scheduler:".
ASSUME SourcesAssumption ==
    /\ Owner \notin Users
    /\ Chats \intersect Jobs = {}
    /\ KnownJobs \subseteq Jobs
    /\ Noisy \subseteq Sources

ASSUME BoundsAssumption ==
    /\ BusCap \in Nat \ {0}
    /\ MaxDebounce \in Nat
    /\ MaxChars \in Nat
    /\ MaxMsgs \in Nat

\* names: alone, the payload is the name of an existing prompt or script.
ASSUME PayloadsAssumption == Payloads \subseteq [names : BOOLEAN, chars : Nat]

VARIABLES
    count,      \* messages pushed so far
    bus,        \* the bounded channel
    open,       \* some sender of the bus is still alive
    chan,       \* the unbounded channel to the debounce worker
    buf,        \* the worker's buffer for each source
    due,        \* sources whose last_update is at least debounce_seconds ago
    tasks,      \* running process_ingress_message tasks
    done,       \* batches whose task has ended, and whether it had an effect
    prompt      \* the system context of each source's session

vars == <<count, bus, open, chan, buf, due, tasks, done, prompt>>

Trusts == {"owner", "trusted", "untrusted"}

Msgs == [id : Nat, source : Sources, trust : Trusts, payload : Payloads]

Init ==
    /\ count = 0
    /\ bus = <<>>
    /\ open = TRUE
    /\ chan = <<>>
    /\ buf = [s \in Sources |-> <<>>]
    /\ due = {}
    /\ tasks = {}
    /\ done = {}
    /\ prompt = [s \in Sources |-> "none"]

-----------------------------------------------------------------------------
(* Producers.                                                              *)

\* bus.push(), which waits while the bus is full.
Push(s, trust, p) ==
    /\ open
    /\ count < MaxMsgs
    /\ Len(bus) < BusCap
    /\ count' = count + 1
    /\ bus' = Append(bus, [id |-> count + 1, source |-> s, trust |-> trust,
                           payload |-> p])
    /\ UNCHANGED <<open, chan, buf, due, tasks, done, prompt>>

\* The trust of a Telegram message depends on the sender alone.
TelegramTrust(s) == IF s = Owner THEN "owner" ELSE "untrusted"

\* A chat message, which may look like a job's.
Telegram(s) == s \in Chats /\ \E p \in Payloads : Push(s, TelegramTrust(s), p)

\* dispatch_job and the closure of register_dynamic_job.
CronJob(s) ==
    /\ s \in Jobs
    /\ \E p \in Payloads : p.names = (s \in KnownJobs) /\ Push(s, "trusted", p)

\* op_zier_ingress_push: any payload under any source, a user's chat included.
ScriptPush(s) == \E p \in Payloads : Push(s, "trusted", p)

\* The last sender is dropped.
Close ==
    /\ open
    /\ open' = FALSE
    /\ UNCHANGED <<count, bus, chan, buf, due, tasks, done, prompt>>

-----------------------------------------------------------------------------
(* The ingress loop and the debounce worker.                               *)

\* Mutant: the newest message goes first.
ForwardNewestFirst ==
    /\ bus # <<>>
    /\ chan' = <<Head(bus)>> \o chan
    /\ bus' = Tail(bus)
    /\ UNCHANGED <<count, open, buf, due, tasks, done, prompt>>

\* One round of the ingress loop.
Forward ==
    /\ bus # <<>>
    /\ chan' = Append(chan, Head(bus))
    /\ bus' = Tail(bus)
    /\ UNCHANGED <<count, open, buf, due, tasks, done, prompt>>

\* The buffer is over one of its limits.
Over(msgs) ==
    \/ Len(msgs) > MaxDebounce
    \/ MapThenSumSet(LAMBDA i : msgs[i].payload.chars, DOMAIN msgs) > MaxChars

\* Mutant: last_update is set after the limits are checked.
IngestResets ==
    /\ chan # <<>>
    /\ chan' = Tail(chan)
    /\ LET s == Head(chan).source IN
         /\ buf' = [buf EXCEPT ![s] = Append(buf[s], Head(chan))]
         /\ due' = due \ {s}
    /\ UNCHANGED <<count, bus, open, tasks, done, prompt>>

\* ingest(): a message restarts the quiet period of its source, unless the
\* buffer is now over a limit, which makes the source due at once.
Ingest ==
    /\ chan # <<>>
    /\ chan' = Tail(chan)
    /\ LET s == Head(chan).source
           buffered == Append(buf[s], Head(chan)) IN
         /\ buf' = [buf EXCEPT ![s] = buffered]
         /\ due' = IF Over(buffered) THEN due \union {s} ELSE due \ {s}
    /\ UNCHANGED <<count, bus, open, tasks, done, prompt>>

\* debounce_seconds pass without a message from s.
Quiet(s) ==
    /\ buf[s] # <<>>
    /\ s \notin due
    /\ due' = due \union {s}
    /\ UNCHANGED <<count, bus, open, chan, buf, tasks, done, prompt>>

\* Mutant: the first payload alone says what the gathered one names.
CombineFirstName(s) ==
    [source |-> s, trust |-> Head(buf[s]).trust,
     names |-> Head(buf[s]).payload.names,
     trusts |-> {buf[s][i].trust : i \in DOMAIN buf[s]},
     ids |-> [i \in DOMAIN buf[s] |-> buf[s][i].id], at |-> "start"]

\* combine_session(): the trust of the first message stands for all.  Payloads
\* are joined with a blank line, and a joined one names nothing.  trusts, the
\* levels of the messages, is not in the code.
Combine(s) ==
    [source |-> s, trust |-> Head(buf[s]).trust,
     names |-> Len(buf[s]) = 1 /\ Head(buf[s]).payload.names,
     trusts |-> {buf[s][i].trust : i \in DOMAIN buf[s]},
     ids |-> [i \in DOMAIN buf[s] |-> buf[s][i].id], at |-> "start"]

\* Mutant: the flushed sessions stay in the map.
HandOutKeeps(ready) ==
    /\ tasks' = tasks \union {Combine(s) : s \in ready}
    /\ due' = due \ ready
    /\ UNCHANGED buf

\* Each source of ready becomes one task and leaves the buffer.
HandOut(ready) ==
    /\ tasks' = tasks \union {Combine(s) : s \in ready}
    /\ buf' = [s \in Sources |-> IF s \in ready THEN <<>> ELSE buf[s]]
    /\ due' = due \ ready

\* A tick of the 500 ms ticker that finds sources due: flush_ready().
Tick ==
    /\ due # {}
    /\ HandOut(due)
    /\ UNCHANGED <<count, bus, open, chan, done, prompt>>

\* Mutant: the worker breaks off as soon as the bus is closed.
FlushAllEarly ==
    /\ ~open
    /\ \E s \in Sources : buf[s] # <<>>
    /\ chan' = <<>>
    /\ HandOut({s \in Sources : buf[s] # <<>>})
    /\ UNCHANGED <<count, bus, open, done, prompt>>

\* The bus is closed and both channels are drained: flush_all().
FlushAll ==
    /\ ~open /\ bus = <<>> /\ chan = <<>>
    /\ \E s \in Sources : buf[s] # <<>>
    /\ HandOut({s \in Sources : buf[s] # <<>>})
    /\ UNCHANGED <<count, bus, open, chan, done, prompt>>

-----------------------------------------------------------------------------
(* process_ingress_message.                                                *)

Advance(k, at) == tasks' = (tasks \ {k}) \union {[k EXCEPT !.at = at]}

\* The task ends; ran says whether the message had its effect.
Finish(k, ran) ==
    /\ tasks' = tasks \ {k}
    /\ done' = done \union {[source |-> k.source, trust |-> k.trust,
                             trusts |-> k.trusts, ids |-> k.ids, ran |-> ran]}

\* The session cannot be had: the message is logged and lost.
NoSession(k) ==
    /\ k.at = "start"
    /\ Finish(k, FALSE)
    /\ UNCHANGED <<count, bus, open, chan, buf, due, prompt>>

\* OwnerCommand: a session without messages is set up, then the turn runs.
StartOwner(k) ==
    /\ k.at = "start" /\ k.trust = "owner"
    /\ Advance(k, "chat")
    /\ prompt' = [prompt EXCEPT ![k.source] = IF @ = "none" THEN "default" ELSE @]
    /\ UNCHANGED <<count, bus, open, chan, buf, due, done>>

\* TrustedEvent: the prompt that the payload names is installed, with the tools
\* of the job.  Only a chat's session is not renewed for it.
StartJob(k) ==
    /\ k.at = "start" /\ k.trust = "trusted" /\ k.names
    /\ Advance(k, IF k.source \in Chats THEN "chat" ELSE "persona")
    /\ prompt' = [prompt EXCEPT ![k.source] = "persona"]
    /\ UNCHANGED <<count, bus, open, chan, buf, due, done>>

\* ... or the script that it names is loaded; whether the script then fails is
\* its own affair.
RunScript(k) ==
    /\ k.at = "start" /\ k.trust = "trusted" /\ k.names
    /\ Finish(k, TRUE)
    /\ UNCHANGED <<count, bus, open, chan, buf, due, prompt>>

\* ... and anything else is logged and forgotten.
IgnoreTrusted(k) ==
    /\ k.at = "start" /\ k.trust = "trusted" /\ ~k.names
    /\ Finish(k, FALSE)
    /\ UNCHANGED <<count, bus, open, chan, buf, due, prompt>>

\* UntrustedEvent: the sanitizer's prompt, no tools.
StartSanitizer(k) ==
    /\ k.at = "start" /\ k.trust = "untrusted"
    /\ Advance(k, "persona")
    /\ prompt' = [prompt EXCEPT ![k.source] = "persona"]
    /\ UNCHANGED <<count, bus, open, chan, buf, due, done>>

\* new_session(): a fresh session, with the default system prompt.
Renew(k) ==
    /\ k.at = "persona"
    /\ Advance(k, "chat")
    /\ prompt' = [prompt EXCEPT ![k.source] = "default"]
    /\ UNCHANGED <<count, bus, open, chan, buf, due, done>>

\* chat() returns; a failed turn had no effect.
EndChat(k) ==
    /\ k.at = "chat"
    /\ \E ran \in BOOLEAN : Finish(k, ran)
    /\ UNCHANGED <<count, bus, open, chan, buf, due, prompt>>

Process(k) ==
    \/ NoSession(k) \/ StartOwner(k) \/ StartJob(k) \/ RunScript(k)
    \/ IgnoreTrusted(k) \/ StartSanitizer(k) \/ Renew(k)

-----------------------------------------------------------------------------
Next ==
    \/ \E s \in Sources : Telegram(s) \/ CronJob(s) \/ ScriptPush(s) \/ Quiet(s)
    \/ Close \/ Forward \/ Ingest \/ Tick \/ FlushAll
    \/ \E k \in tasks : Process(k) \/ EndChat(k)

\* The loop and the worker run, the ticker ticks and time passes, but a noisy
\* source need never be quiet.  Nothing is assumed of producers, nor of turns.
Fairness ==
    /\ WF_vars(Forward) /\ WF_vars(Ingest) /\ WF_vars(Tick) /\ WF_vars(FlushAll)
    /\ \A s \in Sources \ Noisy : WF_vars(Quiet(s))

Spec == Init /\ [][Next]_vars /\ Fairness

-----------------------------------------------------------------------------
(* Properties.                                                             *)

\* What a task and an ended batch are.
Tasks == [source : Sources, trust : Trusts, names : BOOLEAN, trusts : SUBSET Trusts,
          ids : Seq(Nat), at : {"start", "persona", "chat"}]
Ended == [source : Sources, trust : Trusts, trusts : SUBSET Trusts, ids : Seq(Nat),
          ran : BOOLEAN]

TypeOK ==
    /\ count \in 0..MaxMsgs
    /\ bus \in Seq(Msgs) /\ Len(bus) <= BusCap
    /\ open \in BOOLEAN
    /\ chan \in Seq(Msgs)
    /\ buf \in [Sources -> Seq(Msgs)]
    /\ due \in SUBSET Sources
    /\ tasks \subseteq Tasks
    /\ done \subseteq Ended
    /\ prompt \in [Sources -> {"none", "default", "persona"}]

\* The numbers of the messages in a sequence.
IdsIn(msgs) == {msgs[i].id : i \in DOMAIN msgs}
IdsOf(b) == {b.ids[i] : i \in DOMAIN b.ids}

\* Message i is in this many places on its way.
Places(i) ==
    (IF i \in IdsIn(bus) THEN 1 ELSE 0) + (IF i \in IdsIn(chan) THEN 1 ELSE 0)
    + Cardinality({s \in Sources : i \in IdsIn(buf[s])})
    + Cardinality({k \in tasks : i \in IdsOf(k)})
    + Cardinality({b \in done : i \in IdsOf(b)})

\* Between push() and the end of its task every message is in exactly one
\* place: full bus, debounce, forced flush and shutdown neither lose nor
\* duplicate one.
Conserved == \A i \in 1..count : Places(i) = 1

\* combine_session takes the level of the first message ("assumed uniform"), and
\* a script may push under a user's source, so levels do mix.  Untrusted text
\* still never acts above its level: it is never part of an owner's command, and
\* where a script's message came first the gathered message does nothing.
UntrustedConfined ==
    /\ \A k \in tasks \union done : "untrusted" \in k.trusts => k.trust # "owner"
    /\ \A k \in tasks : "untrusted" \in k.trusts /\ k.trust = "trusted" => k.at = "start"
    /\ \A b \in done : "untrusted" \in b.trusts /\ b.trust = "trusted" => ~b.ran

\* A source's messages keep their order through bus, channel and buffer, and
\* every message handed to a task is older than those still on their way.
SourceOrder ==
    \A s \in Sources :
        LET way == buf[s] \o chan \o bus
            mine == {i \in DOMAIN way : way[i].source = s} IN
          /\ \A i, j \in mine : i < j => way[i].id < way[j].id
          /\ \A k \in tasks \union done : k.source = s =>
               /\ \A i, j \in DOMAIN k.ids : i < j => k.ids[i] < k.ids[j]
               /\ \A i \in IdsOf(k), j \in mine : i < way[j].id

HandedOut(i) == \E k \in tasks \union done : i \in IdsOf(k)

\* Every message on the bus of a source that falls quiet is handed to a task, and
\* so is every other one once the bus is closed behind it.
Delivered ==
    \A i \in 1..MaxMsgs :
        \/ \E j \in DOMAIN bus : bus[j].id = i /\ bus[j].source \notin Noisy
        \/ i <= count /\ ~open
        ~> HandedOut(i)

\* A source that is never quiet is served by the limits of its buffer: whatever
\* is in a buffer over its limit is handed out, also when messages keep coming.
BurstHandedOut ==
    \A i \in 1..MaxMsgs :
        (\E s \in Sources : i \in IdsIn(buf[s]) /\ Over(buf[s])) ~> HandedOut(i)

=============================================================================
