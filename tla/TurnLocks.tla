----------------------------- MODULE TurnLocks -----------------------------
(***************************************************************************)
(* Who may run an agent turn, and when.  Two locks serialise turns:        *)
(*                                                                         *)
(*   gate   the daemon's TurnGate, a one-permit FIFO semaphore             *)
(*          (concurrency/turn_gate.rs);                                    *)
(*   flock  the advisory lock on workspace.lock, shared by all processes,  *)
(*          with workspace.lock.pid beside it                              *)
(*          (concurrency/workspace_lock.rs).                               *)
(*                                                                         *)
(* An HTTP turn (server/http.rs, server/openai.rs) waits for the gate and  *)
(* then for the file lock; the heartbeat (heartbeat/runner.rs) tries the   *)
(* file lock and then the gate and never waits; a CLI turn (cli/ask.rs,    *)
(* cli/chat.rs) waits for the file lock only.  Ingress turns, desktop      *)
(* turns and `ask --child` run without either lock.                        *)
(*                                                                         *)
(* The order of the two locks differs between HTTP and the heartbeat.      *)
(* What keeps that sound is that the heartbeat only ever tries.            *)
(***************************************************************************)
EXTENDS Integers, Sequences, SequencesExt

CONSTANTS
    Http,       \* slots for HTTP requests of the daemon that run a turn
    Cli,        \* CLI processes, each running one turn at a time
    Bare,       \* daemon tasks that run a turn with no lock (ingress)
    hb,         \* the daemon's heartbeat task
    Daemon,     \* the daemon process, as the pid file names it
    Nobody      \* neither a task nor a process

Tasks == Http \union Cli \union Bare \union {hb}

\* The tasks that follow the locking discipline.
Locking == Http \union Cli \union {hb}

Procs == Cli \union {Daemon}

ASSUME TasksDisjoint ==
    /\ Http \intersect Cli = {}
    /\ Bare \intersect (Http \union Cli) = {}
    /\ hb \notin Http \union Cli \union Bare
    /\ Daemon \notin Tasks
    /\ Nobody \notin Tasks \union {Daemon}

VARIABLES
    gate,       \* the task holding the permit, or Nobody
    gateQ,      \* requests waiting for the permit, in order of arrival
    flock,      \* the task whose file handle holds the exclusive lock
    pidFile,    \* the process named by workspace.lock.pid, Nobody if absent
    unnamed,    \* the lock holder whose write of the pid file failed, or Nobody
    orphan,     \* requests dropped while their blocking lock thread still runs
    pc          \* where each task is

vars == <<gate, gateQ, flock, pidFile, unnamed, orphan, pc>>

(* idle     no turn requested                                              *)
(* queued   awaiting turn_gate.acquire()                                   *)
(* hbLock   heartbeat, past the is_busy() check                            *)
(* lock     in the retry loop of WorkspaceLock::acquire                    *)
(* pid      lock obtained, pid file not yet written                        *)
(* hbGate   heartbeat, about to try the gate                               *)
(* turn     running the agent turn                                         *)
(* hbDrop   heartbeat, tick over, permit and file lock still held          *)
(* drop     turn over, the file lock's guard still held                    *)
(* rmPid    flock released, pid file not yet removed (Drop for the guard)  *)
(* finish   HTTP: only the gate permit is still held                       *)
States == {"idle", "queued", "hbLock", "lock", "pid", "hbGate", "turn",
           "hbDrop", "drop", "rmPid", "finish"}

ProcOf(t) == IF t \in Cli THEN t ELSE Daemon

Goto(t, s) == pc' = [pc EXCEPT ![t] = s]

Init ==
    /\ gate = Nobody
    /\ gateQ = <<>>
    /\ flock = Nobody
    /\ pidFile = Nobody
    /\ unnamed = Nobody
    /\ orphan = {}
    /\ pc = [t \in Tasks |-> "idle"]

-----------------------------------------------------------------------------
(* The gate.  Releasing the permit of a tokio semaphore hands it to the    *)
(* oldest waiter, so a free permit and a waiter never coexist.             *)

\* Release by t, which goes on to s; the oldest waiter goes on to the file lock.
ReleaseGate(t, s) ==
    IF gateQ = <<>>
      THEN /\ gate' = Nobody
           /\ Goto(t, s)
           /\ UNCHANGED gateQ
      ELSE /\ gate' = Head(gateQ)
           /\ gateQ' = Tail(gateQ)
           /\ pc' = [pc EXCEPT ![t] = s, ![Head(gateQ)] = "lock"]

\* gate.acquire().await
AcquireGate(t) ==
    /\ t \in Http
    /\ pc[t] = "idle"
    /\ IF gate = Nobody
         THEN /\ gate' = t
              /\ Goto(t, "lock")
              /\ UNCHANGED gateQ
         ELSE /\ gateQ' = Append(gateQ, t)
              /\ Goto(t, "queued")
              /\ UNCHANGED gate
    /\ UNCHANGED <<flock, pidFile, unnamed, orphan>>

-----------------------------------------------------------------------------
(* The workspace lock.                                                     *)

\* A CLI turn starts with the blocking acquire.
CliStart(t) ==
    /\ t \in Cli
    /\ pc[t] = "idle"
    /\ Goto(t, "lock")
    /\ UNCHANGED <<gate, gateQ, flock, pidFile, unnamed, orphan>>

\* One round of the retry loop that finds the lock free.
LockAcquired(t) ==
    /\ pc[t] = "lock"
    /\ flock = Nobody
    /\ flock' = t
    /\ Goto(t, "pid")
    /\ UNCHANGED <<gate, gateQ, pidFile, unnamed, orphan>>

\* Mutant: the timeout is never checked.
LockTimeoutNever(t) == pc[t] = "lock" /\ FALSE /\ UNCHANGED vars

\* A round that finds it held after the 30 s are over: acquire() fails and the
\* request or command ends.  A failing HTTP request drops its gate permit.
LockTimeout(t) ==
    /\ pc[t] = "lock"
    /\ flock # Nobody
    /\ IF t \in Http \ orphan
         THEN ReleaseGate(t, "idle")
         ELSE Goto(t, "idle") /\ UNCHANGED <<gate, gateQ>>
    /\ orphan' = orphan \ {t}
    /\ UNCHANGED <<flock, pidFile, unnamed>>

\* The state in which a lock taken by t continues once its pid is written.
AfterPid(t) == CASE t = hb -> "hbGate"
                 [] t \in orphan -> "drop"
                 [] OTHER -> "turn"

\* Mutant: the file names the task, not its process.
WritePidTask(t) ==
    /\ pc[t] = "pid"
    /\ pidFile' = t
    /\ Goto(t, AfterPid(t))
    /\ UNCHANGED <<gate, gateQ, flock, unnamed, orphan>>

\* Mutant: an existing pid file is left as it is.
WritePidIfAbsent(t) ==
    /\ pc[t] = "pid"
    /\ pidFile' = IF pidFile = Nobody THEN ProcOf(t) ELSE pidFile
    /\ Goto(t, AfterPid(t))
    /\ UNCHANGED <<gate, gateQ, flock, unnamed, orphan>>

\* fs::write(pid_path, process::id()), then the guard is returned.  The write's
\* error is discarded: it may leave the old file or an empty one.  A guard
\* nobody waits for any more is dropped at once.
WritePid(t) ==
    /\ pc[t] = "pid"
    /\ \/ pidFile' = ProcOf(t) /\ unnamed' = Nobody
       \/ pidFile' \in {pidFile, Nobody} /\ unnamed' = t
    /\ Goto(t, AfterPid(t))
    /\ UNCHANGED <<gate, gateQ, flock, orphan>>

\* Drop for WorkspaceLockGuard, first half: unlock.
Unlock(t) ==
    /\ pc[t] = "drop"
    /\ flock' = Nobody
    /\ unnamed' = Nobody
    /\ Goto(t, "rmPid")
    /\ UNCHANGED <<gate, gateQ, pidFile, orphan>>

\* Second half: remove the pid file, whoever wrote it.
RemovePid(t) ==
    /\ pc[t] = "rmPid"
    /\ pidFile' = Nobody
    /\ Goto(t, IF t \in Http \ orphan THEN "finish" ELSE "idle")
    /\ orphan' = orphan \ {t}
    /\ UNCHANGED <<gate, gateQ, flock, unnamed>>

-----------------------------------------------------------------------------
(* The turn.                                                               *)

\* The agent's chat() returns, with an answer or an error.
EndTurn(t) ==
    /\ t \in Locking
    /\ pc[t] = "turn"
    /\ Goto(t, IF t = hb THEN "hbDrop" ELSE "drop")
    /\ UNCHANGED <<gate, gateQ, flock, pidFile, unnamed, orphan>>

\* The request's remaining locals go: the gate permit is the last of them.
FinishRequest(t) ==
    /\ t \in Http
    /\ pc[t] = "finish"
    /\ ReleaseGate(t, "idle")
    /\ UNCHANGED <<flock, pidFile, unnamed, orphan>>

\* The client goes away while the request waits for the gate: its place in the
\* queue goes with it.
CancelQueued(t) ==
    /\ t \in Http
    /\ pc[t] = "queued"
    /\ \E i \in DOMAIN gateQ :
         /\ gateQ[i] = t
         /\ gateQ' = RemoveAt(gateQ, i)
    /\ Goto(t, "idle")
    /\ UNCHANGED <<gate, flock, pidFile, unnamed, orphan>>

\* ... or while it waits for the lock thread: the permit is dropped, the
\* spawn_blocking thread is not and goes on trying.
CancelLocking(t) ==
    /\ t \in Http \ orphan
    /\ pc[t] \in {"lock", "pid"}
    /\ ReleaseGate(t, pc[t])
    /\ orphan' = orphan \union {t}
    /\ UNCHANGED <<flock, pidFile, unnamed>>

-----------------------------------------------------------------------------
(* The heartbeat: run_once_internal.                                       *)

\* gate.is_busy(): a busy gate skips the tick, a free one may be stale at once.
HbCheck ==
    /\ pc[hb] = "idle"
    /\ gate = Nobody
    /\ Goto(hb, "hbLock")
    /\ UNCHANGED <<gate, gateQ, flock, pidFile, unnamed, orphan>>

\* Mutant: contention is taken for success.
HbTryLockAlways ==
    /\ pc[hb] = "hbLock"
    /\ flock' = hb
    /\ Goto(hb, "pid")
    /\ UNCHANGED <<gate, gateQ, pidFile, unnamed, orphan>>

\* workspace_lock.try_acquire()
HbTryLock ==
    /\ pc[hb] = "hbLock"
    /\ IF flock = Nobody
         THEN flock' = hb /\ Goto(hb, "pid")
         ELSE UNCHANGED flock /\ Goto(hb, "idle")
    /\ UNCHANGED <<gate, gateQ, pidFile, unnamed, orphan>>

\* Mutant: the earlier is_busy() answer is trusted.
HbTryGateTrusting ==
    /\ pc[hb] = "hbGate"
    /\ gate' = hb
    /\ Goto(hb, "turn")
    /\ UNCHANGED <<gateQ, flock, pidFile, unnamed, orphan>>

\* Mutant: a tick that finds no HEARTBEAT.md keeps the permit.
HbTryGateLeaks ==
    /\ pc[hb] = "hbGate"
    /\ \/ gate # Nobody /\ Goto(hb, "drop") /\ UNCHANGED gate
       \/ /\ gate = Nobody
          /\ gate' = hb
          /\ \E s \in {"turn", "drop"} : Goto(hb, s)
    /\ UNCHANGED <<gateQ, flock, pidFile, unnamed, orphan>>

\* gate.try_acquire(); without the permit the tick ends and drops the lock.
\* An absent or empty HEARTBEAT.md ends it with both.
HbTryGate ==
    /\ pc[hb] = "hbGate"
    /\ \/ /\ gate # Nobody
          /\ Goto(hb, "drop")
          /\ UNCHANGED gate
       \/ /\ gate = Nobody
          /\ gate' = hb
          /\ Goto(hb, "turn")
       \/ /\ gate = Nobody
          /\ gate' = hb
          /\ Goto(hb, "hbDrop")
    /\ UNCHANGED <<gateQ, flock, pidFile, unnamed, orphan>>

\* Locals are dropped in reverse order: the permit before the file lock.
HbReleaseGate ==
    /\ pc[hb] = "hbDrop"
    /\ ReleaseGate(hb, "drop")
    /\ UNCHANGED <<flock, pidFile, unnamed, orphan>>

-----------------------------------------------------------------------------
(* Turns outside the discipline, and processes that die.                   *)

\* process_ingress_message runs the agent with neither gate nor lock.
BareBegin(t) ==
    /\ t \in Bare
    /\ pc[t] = "idle"
    /\ Goto(t, "turn")
    /\ UNCHANGED <<gate, gateQ, flock, pidFile, unnamed, orphan>>

BareEnd(t) ==
    /\ t \in Bare
    /\ pc[t] = "turn"
    /\ Goto(t, "idle")
    /\ UNCHANGED <<gate, gateQ, flock, pidFile, unnamed, orphan>>

\* A process is killed.  The kernel releases its file locks; in-process state is
\* gone and its pid file, if any, stays.
Kill(p) ==
    /\ \E t \in Tasks : ProcOf(t) = p /\ pc[t] # "idle"
    /\ pc' = [t \in Tasks |-> IF ProcOf(t) = p THEN "idle" ELSE pc[t]]
    /\ flock' = IF flock \in Tasks /\ ProcOf(flock) = p THEN Nobody ELSE flock
    /\ gate' = IF p = Daemon THEN Nobody ELSE gate
    /\ gateQ' = IF p = Daemon THEN <<>> ELSE gateQ
    /\ orphan' = IF p = Daemon THEN {} ELSE orphan
    /\ UNCHANGED <<pidFile, unnamed>>

-----------------------------------------------------------------------------
LockRound(t) == LockAcquired(t) \/ LockTimeout(t)

Heartbeat == HbCheck \/ HbTryLock \/ HbTryGate \/ HbReleaseGate

Next ==
    \/ \E t \in Tasks :
         \/ AcquireGate(t) \/ CliStart(t) \/ LockRound(t) \/ WritePid(t)
         \/ EndTurn(t) \/ Unlock(t) \/ RemovePid(t) \/ FinishRequest(t)
         \/ CancelQueued(t) \/ CancelLocking(t)
         \/ BareBegin(t) \/ BareEnd(t)
    \/ Heartbeat
    \/ \E p \in Procs : Kill(p)

\* A thread in the retry loop is scheduled and its 30 s pass: it makes its
\* rounds.  Nothing is assumed of turns, which may hang, nor of clients.
Fairness == \A t \in Http \union Cli : WF_vars(LockRound(t))

Spec == Init /\ [][Next]_vars /\ Fairness

-----------------------------------------------------------------------------
(* Properties.                                                             *)

TypeOK ==
    /\ gate \in Http \union {hb, Nobody}
    /\ gateQ \in Seq(Http)
    /\ flock \in Locking \union {Nobody}
    /\ pidFile \in Procs \union {Nobody}
    /\ unnamed \in Locking \union {Nobody}
    /\ orphan \in SUBSET Http
    /\ pc \in [Tasks -> States]

\* The states in which a task's file handle holds the exclusive lock.
HoldsFlock(t) == pc[t] \in {"pid", "hbGate", "hbDrop", "drop"}
                 \/ (pc[t] = "turn" /\ t \in Locking)

\* Two turns that follow the discipline never run at the same time, whichever
\* process they are in: what WorkspaceLock promises "across processes".
MutualExclusion ==
    \A t, u \in Locking : pc[t] = "turn" /\ pc[u] = "turn" => t = u

\* Every early return gives back what it took: the lock is held by a task that
\* is between acquiring and dropping its guard, and by no other.
FlockAccounted ==
    \A t \in Tasks : HoldsFlock(t) <=> flock = t

\* Once a lock holder's write of its pid has succeeded, workspace.lock.pid names
\* its process or nothing: a late remove_file of the previous holder may delete
\* the name, but no stale name survives to mislead the "Held by running PID"
\* diagnostics.  Only a holder whose write failed may be misnamed.
PidFileHonest ==
    \A t \in Locking :
        HoldsFlock(t) /\ pc[t] # "pid" /\ unnamed # t =>
            pidFile \in {ProcOf(t), Nobody}

\* The permit is held by exactly the daemon task that is past the gate, a request
\* until it finishes or is dropped, the heartbeat until its tick is over, with a
\* turn or without; and a free permit leaves nobody waiting.
GateAccounted ==
    /\ gate = Nobody => gateQ = <<>>
    /\ \A t \in Http :
         gate = t <=> (t \notin orphan
                       /\ pc[t] \in {"lock", "pid", "turn", "drop", "rmPid", "finish"})
    /\ gate = hb <=> pc[hb] \in {"turn", "hbDrop"}

\* No path loses the file lock or the permit: cancelled requests, lock timeouts,
\* skipped heartbeats and killed processes give back what they took.
LocksAccounted == FlockAccounted /\ GateAccounted

\* The heartbeat never starts its turn while an HTTP request has or waits for
\* the gate, although its is_busy() check may be stale by then.
HeartbeatYields ==
    [][pc[hb] # "turn" /\ pc'[hb] = "turn" =>
         \A t \in Http : pc[t] = "idle" \/ t \in orphan]_vars

\* Nobody waits for the workspace lock for ever, however the others alternate
\* and even if its holder hangs: the 30 s timeout ends the wait.
LockWaitEnds ==
    \A t \in Http \union Cli : pc[t] = "lock" ~> pc[t] # "lock"

=============================================================================
