-------------------------- MODULE TurnLocksProofs --------------------------
(***************************************************************************)
(* Safety of the turn locks for any number of requests and processes.      *)
(*                                                                         *)
(* MutualExclusion is not inductive: that a newcomer finds the lock held   *)
(* has to be known (FlockAccounted), and releasing the gate moves the      *)
(* oldest waiter, so the queue must hold exactly the queued requests, each *)
(* once (QueueInv), and each kind of task must stay in its own states      *)
(* (ControlInv).                                                           *)
(***************************************************************************)
EXTENDS TurnLocks, SequenceTheorems, TLAPS

\* Each kind of task stays in its own control states.
ControlInv ==
    /\ \A t \in Http : pc[t] \notin {"hbLock", "hbGate", "hbDrop"}
    /\ \A t \in Cli : pc[t] \in {"idle", "lock", "pid", "turn", "drop", "rmPid"}
    /\ \A t \in Bare : pc[t] \in {"idle", "turn"}
    /\ pc[hb] \notin {"queued", "lock", "finish"}
    /\ \A t \in orphan : pc[t] \in {"lock", "pid", "drop", "rmPid"}

\* gateQ holds exactly the queued requests, each once.
QueueInv ==
    /\ \A i \in 1..Len(gateQ) : pc[gateQ[i]] = "queued"
    /\ \A i, j \in 1..Len(gateQ) : gateQ[i] = gateQ[j] => i = j
    /\ \A t \in Http : pc[t] = "queued" => \E i \in 1..Len(gateQ) : gateQ[i] = t

IInv ==
    /\ TypeOK
    /\ ControlInv
    /\ QueueInv
    /\ FlockAccounted
    /\ PidFileHonest
    /\ GateAccounted

-----------------------------------------------------------------------------
\* What taking the head off a queue leaves.
LEMMA TailFacts ==
    ASSUME NEW S, NEW q \in Seq(S), q # <<>>
    PROVE  /\ Head(q) = q[1] /\ Head(q) \in S
           /\ Len(q) \in Nat \ {0}
           /\ Tail(q) \in Seq(S)
           /\ Len(Tail(q)) = Len(q) - 1
           /\ \A i \in 1..Len(Tail(q)) : Tail(q)[i] = q[i + 1]
  OBVIOUS

\* What taking the i-th element out of a queue leaves (CancelQueued).
LEMMA RemoveAtFacts ==
    ASSUME NEW S, NEW q \in Seq(S), NEW i \in 1..Len(q)
    PROVE  /\ RemoveAt(q, i) \in Seq(S)
           /\ Len(RemoveAt(q, i)) = Len(q) - 1
           /\ \A j \in 1..(Len(q) - 1) :
                RemoveAt(q, i)[j] = IF j < i THEN q[j] ELSE q[j + 1]
  <1>1. PICK a : a = SubSeq(q, 1, i - 1)
    OBVIOUS
  <1>2. PICK b : b = SubSeq(q, i + 1, Len(q))
    OBVIOUS
  <1>3. a \in Seq(S) /\ Len(a) = i - 1 /\ \A j \in 1..(i - 1) : a[j] = q[j]
    BY <1>1
  <1>4. b \in Seq(S) /\ Len(b) = Len(q) - i
        /\ \A j \in 1..(Len(q) - i) : b[j] = q[i + j]
    BY <1>2
  <1>5. RemoveAt(q, i) = a \o b
    BY <1>1, <1>2 DEF RemoveAt
  <1>6. a \o b \in Seq(S) /\ Len(a \o b) = Len(q) - 1
    BY <1>3, <1>4, ConcatProperties
  <1>7. \A j \in 1..(Len(q) - 1) :
          (a \o b)[j] = IF j <= i - 1 THEN a[j] ELSE b[j - (i - 1)]
    BY <1>3, <1>4, ConcatProperties
  <1>8. ASSUME NEW j \in 1..(Len(q) - 1), ~(j < i)
        PROVE  b[j - (i - 1)] = q[j + 1]
    BY <1>4, <1>8
  <1>9. ASSUME NEW j \in 1..(Len(q) - 1), j < i
        PROVE  a[j] = q[j]
    BY <1>3, <1>9
  <1> QED
    BY <1>5, <1>6, <1>7, <1>8, <1>9

-----------------------------------------------------------------------------
\* What releasing the permit does: the releasing task moves on, and either
\* nobody waits and the permit is free, or the oldest waiter gets it.
LEMMA ReleaseGateFacts ==
    ASSUME TypeOK, QueueInv, NEW t \in Http \union {hb}, NEW s \in States,
           pc[t] # "queued", s # "queued", ReleaseGate(t, s)
    PROVE  /\ pc' \in [Tasks -> States] /\ pc'[t] = s
           /\ gate' \in Http \union {Nobody} /\ gateQ' \in Seq(Http)
           /\ QueueInv'
           /\ gate' = Nobody => gateQ' = <<>>
           /\ gate' # Nobody => /\ gate' # t /\ pc[gate'] = "queued"
                               /\ pc'[gate'] = "lock"
           /\ \A u \in Tasks \ {t, gate'} : pc'[u] = pc[u]
  <1>1. CASE gateQ = <<>>
    BY <1>1 DEF ReleaseGate, Goto, TypeOK, QueueInv, Tasks
  <1>2. CASE gateQ # <<>>
    <2>1. /\ gate' = gateQ[1] /\ gateQ' = Tail(gateQ)
          /\ pc' = [pc EXCEPT ![t] = s, ![gateQ[1]] = "lock"]
          /\ gateQ \in Seq(Http)
      BY <1>2, TailFacts DEF ReleaseGate, TypeOK
    <2>2. /\ gateQ[1] \in Http /\ Len(gateQ) \in Nat \ {0}
          /\ gateQ' \in Seq(Http) /\ Len(gateQ') = Len(gateQ) - 1
          /\ \A i \in 1..Len(gateQ') : gateQ'[i] = gateQ[i + 1]
      BY <1>2, <2>1, TailFacts
    <2>3. pc[gateQ[1]] = "queued" /\ gateQ[1] # t
      BY <2>2 DEF QueueInv
    <2>4. /\ pc' \in [Tasks -> States] /\ pc'[t] = s /\ pc'[gateQ[1]] = "lock"
          /\ \A u \in Tasks \ {t, gateQ[1]} : pc'[u] = pc[u]
      BY <2>1, <2>2, <2>3 DEF TypeOK, Tasks, States
    <2>5. ASSUME NEW i \in 1..Len(gateQ')
          PROVE  pc'[gateQ'[i]] = "queued"
      <3>1. i + 1 \in 1..Len(gateQ) /\ gateQ'[i] = gateQ[i + 1]
        BY <2>2
      <3>2. gateQ[i + 1] # gateQ[1] /\ pc[gateQ[i + 1]] = "queued"
            /\ gateQ[i + 1] \in Http
        BY <3>1, <2>1, <2>2 DEF QueueInv
      <3> QED
        BY <3>1, <3>2, <2>4 DEF Tasks
    <2>6. ASSUME NEW i \in 1..Len(gateQ'), NEW j \in 1..Len(gateQ'),
                 gateQ'[i] = gateQ'[j]
          PROVE  i = j
      <3>1. i + 1 \in 1..Len(gateQ) /\ j + 1 \in 1..Len(gateQ)
            /\ gateQ[i + 1] = gateQ[j + 1]
        BY <2>2, <2>6
      <3> QED
        BY <3>1, <2>2 DEF QueueInv
    <2>7. ASSUME NEW u \in Http, pc'[u] = "queued"
          PROVE  \E i \in 1..Len(gateQ') : gateQ'[i] = u
      <3>1. u # t /\ u # gateQ[1] /\ pc[u] = "queued"
        BY <2>4, <2>7 DEF Tasks
      <3>2. PICK i \in 1..Len(gateQ) : gateQ[i] = u
        BY <3>1 DEF QueueInv
      <3>3. i - 1 \in 1..Len(gateQ') /\ gateQ'[i - 1] = u
        BY <3>1, <3>2, <2>2
      <3> QED
        BY <3>3
    <2>8. QueueInv'
      BY <2>5, <2>6, <2>7 DEF QueueInv
    <2>9. gateQ[1] # Nobody
      BY <2>2, TasksDisjoint DEF Tasks
    <2> QED
      BY <2>1, <2>2, <2>3, <2>4, <2>8, <2>9
  <1> QED
    BY <1>1, <1>2

\* A step of one task that leaves the queue alone.
LEMMA GotoFacts ==
    ASSUME TypeOK, QueueInv, NEW t \in Tasks, NEW s \in States,
           pc[t] # "queued", s # "queued", Goto(t, s), UNCHANGED gateQ
    PROVE  /\ pc' \in [Tasks -> States] /\ pc'[t] = s
           /\ \A u \in Tasks \ {t} : pc'[u] = pc[u]
           /\ QueueInv'
  <1>1. /\ pc' \in [Tasks -> States] /\ pc'[t] = s
        /\ \A u \in Tasks \ {t} : pc'[u] = pc[u]
    BY DEF Goto, TypeOK
  <1>2. \A i \in 1..Len(gateQ) : gateQ[i] \in Http /\ gateQ[i] # t
    BY DEF QueueInv, TypeOK
  <1> QED
    BY <1>1, <1>2 DEF QueueInv, Tasks, TypeOK

-----------------------------------------------------------------------------
LEMMA InitIInv == Init => IInv
  BY TasksDisjoint DEF Init, IInv, TypeOK, ControlInv, QueueInv, FlockAccounted,
     HoldsFlock, PidFileHonest, GateAccounted, Tasks, Locking, Procs, States


\* A CLI command enters the retry loop.
LEMMA CliStartInv ==
    ASSUME IInv, NEW t \in Tasks, CliStart(t)
    PROVE  IInv'
  <1>1. PICK s \in States : s # "queued" /\ Goto(t, s) /\ pc[t] # "queued"
    BY DEF CliStart, AfterPid, States
  <1>2. /\ pc' \in [Tasks -> States] /\ pc'[t] = s
        /\ \A u \in Tasks \ {t} : pc'[u] = pc[u]
        /\ QueueInv' /\ UNCHANGED gateQ
    BY <1>1, GotoFacts DEF IInv, CliStart, Tasks
  <1> QED
    BY <1>2, TasksDisjoint DEF CliStart, Goto, IInv, TypeOK, ControlInv, FlockAccounted, HoldsFlock,
       PidFileHonest, GateAccounted, Tasks, Locking, Procs, ProcOf

\* The lock is free, so nobody else is past it.
LEMMA LockAcquiredInv ==
    ASSUME IInv, NEW t \in Tasks, LockAcquired(t)
    PROVE  IInv'
  <1>1. PICK s \in States : s # "queued" /\ Goto(t, s) /\ pc[t] # "queued"
    BY DEF LockAcquired, AfterPid, States
  <1>2. /\ pc' \in [Tasks -> States] /\ pc'[t] = s
        /\ \A u \in Tasks \ {t} : pc'[u] = pc[u]
        /\ QueueInv' /\ UNCHANGED gateQ
    BY <1>1, GotoFacts DEF IInv, LockAcquired, Tasks
  <1>3. TypeOK' /\ ControlInv'
    BY <1>2, TasksDisjoint DEF IInv, TypeOK, ControlInv, LockAcquired, Goto, AfterPid,
       Tasks, Locking, Procs, ProcOf
  <1>4. FlockAccounted' /\ PidFileHonest'
    BY <1>2, TasksDisjoint DEF IInv, TypeOK, ControlInv, FlockAccounted,
       HoldsFlock, PidFileHonest, LockAcquired, Goto, AfterPid, Tasks, Locking
  <1>5. GateAccounted'
    BY <1>2, TasksDisjoint DEF IInv, TypeOK, ControlInv, GateAccounted, LockAcquired,
       Goto, AfterPid, Tasks, Locking
  <1> QED
    BY <1>2, <1>3, <1>4, <1>5 DEF IInv

\* Only the holder writes the pid file.
LEMMA WritePidInv ==
    ASSUME IInv, NEW t \in Tasks, WritePid(t)
    PROVE  IInv'
  <1>1. PICK s \in States : s # "queued" /\ Goto(t, s) /\ pc[t] # "queued"
    BY DEF WritePid, AfterPid, States
  <1>2. /\ pc' \in [Tasks -> States] /\ pc'[t] = s
        /\ \A u \in Tasks \ {t} : pc'[u] = pc[u]
        /\ QueueInv' /\ UNCHANGED gateQ
    BY <1>1, GotoFacts DEF IInv, WritePid, Tasks
  <1>3. TypeOK' /\ ControlInv'
    BY <1>2, TasksDisjoint DEF IInv, TypeOK, ControlInv, WritePid, Goto, AfterPid,
       Tasks, Locking, Procs, ProcOf
  <1>4. FlockAccounted' /\ PidFileHonest'
    BY <1>2, TasksDisjoint DEF IInv, TypeOK, ControlInv, FlockAccounted,
       HoldsFlock, PidFileHonest, WritePid, Goto, AfterPid, Tasks, Locking
  <1>5. GateAccounted'
    BY <1>2, TasksDisjoint DEF IInv, TypeOK, ControlInv, GateAccounted, WritePid,
       Goto, AfterPid, Tasks, Locking
  <1> QED
    BY <1>2, <1>3, <1>4, <1>5 DEF IInv

\* Unlocking frees what the guard held.
LEMMA UnlockInv ==
    ASSUME IInv, NEW t \in Tasks, Unlock(t)
    PROVE  IInv'
  <1>1. PICK s \in States : s # "queued" /\ Goto(t, s) /\ pc[t] # "queued"
    BY DEF Unlock, AfterPid, States
  <1>2. /\ pc' \in [Tasks -> States] /\ pc'[t] = s
        /\ \A u \in Tasks \ {t} : pc'[u] = pc[u]
        /\ QueueInv' /\ UNCHANGED gateQ
    BY <1>1, GotoFacts DEF IInv, Unlock, Tasks
  <1>3. TypeOK' /\ ControlInv'
    BY <1>2, TasksDisjoint DEF IInv, TypeOK, ControlInv, Unlock, Goto, AfterPid,
       Tasks, Locking, Procs, ProcOf
  <1>4. FlockAccounted' /\ PidFileHonest'
    BY <1>2, TasksDisjoint DEF IInv, TypeOK, ControlInv, FlockAccounted,
       HoldsFlock, PidFileHonest, Unlock, Goto, AfterPid, Tasks, Locking
  <1>5. GateAccounted'
    BY <1>2, TasksDisjoint DEF IInv, TypeOK, ControlInv, GateAccounted, Unlock,
       Goto, AfterPid, Tasks, Locking
  <1> QED
    BY <1>2, <1>3, <1>4, <1>5 DEF IInv

\* A late removal leaves no name rather than a wrong one.
LEMMA RemovePidInv ==
    ASSUME IInv, NEW t \in Tasks, RemovePid(t)
    PROVE  IInv'
  <1>1. PICK s \in States : s # "queued" /\ Goto(t, s) /\ pc[t] # "queued"
    BY DEF RemovePid, AfterPid, States
  <1>2. /\ pc' \in [Tasks -> States] /\ pc'[t] = s
        /\ \A u \in Tasks \ {t} : pc'[u] = pc[u]
        /\ QueueInv' /\ UNCHANGED gateQ
    BY <1>1, GotoFacts DEF IInv, RemovePid, Tasks
  <1>3. TypeOK' /\ ControlInv'
    BY <1>2, TasksDisjoint DEF IInv, TypeOK, ControlInv, RemovePid, Goto, AfterPid,
       Tasks, Locking, Procs, ProcOf
  <1>4. FlockAccounted' /\ PidFileHonest'
    BY <1>2, TasksDisjoint DEF IInv, TypeOK, ControlInv, FlockAccounted,
       HoldsFlock, PidFileHonest, RemovePid, Goto, AfterPid, Tasks, Locking
  <1>5. GateAccounted'
    BY <1>2, TasksDisjoint DEF IInv, TypeOK, ControlInv, GateAccounted, RemovePid,
       Goto, AfterPid, Tasks, Locking
  <1> QED
    BY <1>2, <1>3, <1>4, <1>5 DEF IInv

\* The end of a turn keeps both locks.
LEMMA EndTurnInv ==
    ASSUME IInv, NEW t \in Tasks, EndTurn(t)
    PROVE  IInv'
  <1>1. PICK s \in States : s # "queued" /\ Goto(t, s) /\ pc[t] # "queued"
    BY DEF EndTurn, AfterPid, States
  <1>2. /\ pc' \in [Tasks -> States] /\ pc'[t] = s
        /\ \A u \in Tasks \ {t} : pc'[u] = pc[u]
        /\ QueueInv' /\ UNCHANGED gateQ
    BY <1>1, GotoFacts DEF IInv, EndTurn, Tasks
  <1> QED
    BY <1>2, TasksDisjoint DEF EndTurn, Goto, IInv, TypeOK, ControlInv, FlockAccounted, HoldsFlock,
       PidFileHonest, GateAccounted, Tasks, Locking, Procs, ProcOf

\* A turn outside the discipline touches no lock.
LEMMA BareBeginInv ==
    ASSUME IInv, NEW t \in Tasks, BareBegin(t)
    PROVE  IInv'
  <1>1. PICK s \in States : s # "queued" /\ Goto(t, s) /\ pc[t] # "queued"
    BY DEF BareBegin, AfterPid, States
  <1>2. /\ pc' \in [Tasks -> States] /\ pc'[t] = s
        /\ \A u \in Tasks \ {t} : pc'[u] = pc[u]
        /\ QueueInv' /\ UNCHANGED gateQ
    BY <1>1, GotoFacts DEF IInv, BareBegin, Tasks
  <1> QED
    BY <1>2, TasksDisjoint DEF BareBegin, Goto, IInv, TypeOK, ControlInv, FlockAccounted, HoldsFlock,
       PidFileHonest, GateAccounted, Tasks, Locking, Procs, ProcOf

\* ... nor does its end.
LEMMA BareEndInv ==
    ASSUME IInv, NEW t \in Tasks, BareEnd(t)
    PROVE  IInv'
  <1>1. PICK s \in States : s # "queued" /\ Goto(t, s) /\ pc[t] # "queued"
    BY DEF BareEnd, AfterPid, States
  <1>2. /\ pc' \in [Tasks -> States] /\ pc'[t] = s
        /\ \A u \in Tasks \ {t} : pc'[u] = pc[u]
        /\ QueueInv' /\ UNCHANGED gateQ
    BY <1>1, GotoFacts DEF IInv, BareEnd, Tasks
  <1> QED
    BY <1>2, TasksDisjoint DEF BareEnd, Goto, IInv, TypeOK, ControlInv, FlockAccounted, HoldsFlock,
       PidFileHonest, GateAccounted, Tasks, Locking, Procs, ProcOf

\* The is_busy() check takes nothing.
LEMMA HbCheckInv ==
    ASSUME IInv, HbCheck
    PROVE  IInv'
  <1>1. PICK s \in States : s # "queued" /\ Goto(hb, s) /\ pc[hb] # "queued"
    BY DEF HbCheck, AfterPid, States
  <1>2. /\ pc' \in [Tasks -> States] /\ pc'[hb] = s
        /\ \A u \in Tasks \ {hb} : pc'[u] = pc[u]
        /\ QueueInv' /\ UNCHANGED gateQ
    BY <1>1, GotoFacts DEF IInv, HbCheck, Tasks
  <1> QED
    BY <1>2, TasksDisjoint DEF HbCheck, Goto, IInv, TypeOK, ControlInv, FlockAccounted, HoldsFlock,
       PidFileHonest, GateAccounted, Tasks, Locking, Procs, ProcOf

\* try_acquire takes a free lock or nothing.
LEMMA HbTryLockInv ==
    ASSUME IInv, HbTryLock
    PROVE  IInv'
  <1>1. PICK s \in States : s # "queued" /\ Goto(hb, s) /\ pc[hb] # "queued"
    BY DEF HbTryLock, AfterPid, States
  <1>2. /\ pc' \in [Tasks -> States] /\ pc'[hb] = s
        /\ \A u \in Tasks \ {hb} : pc'[u] = pc[u]
        /\ QueueInv' /\ UNCHANGED gateQ
    BY <1>1, GotoFacts DEF IInv, HbTryLock, Tasks
  <1>3. TypeOK' /\ ControlInv'
    BY <1>2, TasksDisjoint DEF IInv, TypeOK, ControlInv, HbTryLock, Goto, AfterPid,
       Tasks, Locking, Procs, ProcOf
  <1>4. FlockAccounted' /\ PidFileHonest'
    BY <1>2, TasksDisjoint DEF IInv, TypeOK, ControlInv, FlockAccounted,
       HoldsFlock, PidFileHonest, HbTryLock, Goto, AfterPid, Tasks, Locking
  <1>5. GateAccounted'
    BY <1>2, TasksDisjoint DEF IInv, TypeOK, ControlInv, GateAccounted, HbTryLock,
       Goto, AfterPid, Tasks, Locking
  <1> QED
    BY <1>2, <1>3, <1>4, <1>5 DEF IInv

\* try_acquire takes a free permit or nothing.
LEMMA HbTryGateInv ==
    ASSUME IInv, HbTryGate
    PROVE  IInv'
  <1>1. PICK s \in States : s # "queued" /\ Goto(hb, s) /\ pc[hb] # "queued"
    BY DEF HbTryGate, AfterPid, States
  <1>2. /\ pc' \in [Tasks -> States] /\ pc'[hb] = s
        /\ \A u \in Tasks \ {hb} : pc'[u] = pc[u]
        /\ QueueInv' /\ UNCHANGED gateQ
    BY <1>1, GotoFacts DEF IInv, HbTryGate, Tasks
  <1>3. TypeOK' /\ ControlInv'
    BY <1>2, TasksDisjoint DEF IInv, TypeOK, ControlInv, HbTryGate, Goto, AfterPid,
       Tasks, Locking, Procs, ProcOf
  <1>4. FlockAccounted' /\ PidFileHonest'
    BY <1>2, TasksDisjoint DEF IInv, TypeOK, ControlInv, FlockAccounted,
       HoldsFlock, PidFileHonest, HbTryGate, Goto, AfterPid, Tasks, Locking
  <1>5. GateAccounted'
    BY <1>2, TasksDisjoint DEF IInv, TypeOK, ControlInv, GateAccounted, HbTryGate,
       Goto, AfterPid, Tasks, Locking
  <1> QED
    BY <1>2, <1>3, <1>4, <1>5 DEF IInv

-----------------------------------------------------------------------------
\* A request takes the free permit or queues behind the others.
LEMMA AcquireGateInv ==
    ASSUME IInv, NEW t \in Tasks, AcquireGate(t)
    PROVE  IInv'
  <1>1. CASE gate = Nobody
    <2>1. /\ pc' \in [Tasks -> States] /\ pc'[t] = "lock"
          /\ \A u \in Tasks \ {t} : pc'[u] = pc[u]
          /\ QueueInv' /\ UNCHANGED gateQ /\ gate' = t /\ t \in Http
      BY <1>1, GotoFacts DEF IInv, AcquireGate, States
    <2> QED
      BY <1>1, <2>1, TasksDisjoint DEF AcquireGate, IInv, TypeOK, ControlInv,
         FlockAccounted, HoldsFlock, PidFileHonest, GateAccounted, QueueInv,
         Tasks, Locking
  <1>2. CASE gate # Nobody
    <2>1. /\ t \in Http /\ pc[t] = "idle" /\ UNCHANGED <<gate, flock, pidFile, unnamed, orphan>>
          /\ gateQ \in Seq(Http) /\ gateQ' = Append(gateQ, t)
          /\ pc' = [pc EXCEPT ![t] = "queued"]
      BY <1>2 DEF AcquireGate, Goto, IInv, TypeOK
    <2>2. /\ pc' \in [Tasks -> States] /\ pc'[t] = "queued"
          /\ \A u \in Tasks \ {t} : pc'[u] = pc[u]
      BY <2>1 DEF IInv, TypeOK, Tasks, States
    <2>3. /\ gateQ' \in Seq(Http) /\ Len(gateQ) \in Nat
          /\ Len(gateQ') = Len(gateQ) + 1
          /\ gateQ'[Len(gateQ) + 1] = t
          /\ \A i \in 1..Len(gateQ) : gateQ'[i] = gateQ[i] /\ gateQ[i] \in Http
      BY <2>1
    <2>4. \A i \in 1..Len(gateQ) : gateQ[i] # t
      BY <2>1 DEF IInv, QueueInv
    <2>5. QueueInv'
      <3>1. \A i \in 1..Len(gateQ') : pc'[gateQ'[i]] = "queued"
        BY <2>2, <2>3, <2>4 DEF IInv, QueueInv, Tasks
      <3>2. \A i, j \in 1..Len(gateQ') : gateQ'[i] = gateQ'[j] => i = j
        BY <2>3, <2>4 DEF IInv, QueueInv
      <3>3. ASSUME NEW u \in Http, pc'[u] = "queued"
            PROVE  \E i \in 1..Len(gateQ') : gateQ'[i] = u
        <4>1. CASE u = t
          BY <2>3, <4>1
        <4>2. CASE u # t
          BY <2>2, <2>3, <3>3, <4>2 DEF IInv, QueueInv, Tasks
        <4> QED
          BY <4>1, <4>2
      <3> QED
        BY <3>1, <3>2, <3>3 DEF QueueInv
    <2> QED
      BY <1>2, <2>1, <2>2, <2>3, <2>5, TasksDisjoint DEF IInv, TypeOK, ControlInv,
         FlockAccounted, HoldsFlock, PidFileHonest, GateAccounted, Tasks, Locking
  <1> QED
    BY <1>1, <1>2

\* The lock wait fails: a live request passes its permit on, an orphan has none.
LEMMA LockTimeoutInv ==
    ASSUME IInv, NEW t \in Tasks, LockTimeout(t)
    PROVE  IInv'
  <1>1. CASE t \in Http \ orphan
    <2>1. ReleaseGate(t, "idle") /\ pc[t] = "lock"
      BY <1>1 DEF LockTimeout
    <2>2. /\ pc' \in [Tasks -> States] /\ pc'[t] = "idle"
          /\ gate' \in Http \union {Nobody} /\ gateQ' \in Seq(Http)
          /\ QueueInv'
          /\ gate' = Nobody => gateQ' = <<>>
          /\ gate' # Nobody => /\ gate' # t /\ pc[gate'] = "queued"
                              /\ pc'[gate'] = "lock"
          /\ \A u \in Tasks \ {t, gate'} : pc'[u] = pc[u]
      BY <1>1, <2>1, ReleaseGateFacts DEF IInv, States
    <2> QED
      BY <1>1, <2>1, <2>2, TasksDisjoint DEF LockTimeout, IInv, TypeOK, ControlInv,
         FlockAccounted, HoldsFlock, PidFileHonest, GateAccounted, Tasks, Locking
  <1>2. CASE t \notin Http \ orphan
    <2>1. /\ pc' \in [Tasks -> States] /\ pc'[t] = "idle"
          /\ \A u \in Tasks \ {t} : pc'[u] = pc[u]
          /\ QueueInv' /\ UNCHANGED <<gate, gateQ>>
      BY <1>2, GotoFacts DEF IInv, LockTimeout, States
    <2> QED
      BY <1>2, <2>1, TasksDisjoint DEF LockTimeout, IInv, TypeOK, ControlInv,
         FlockAccounted, HoldsFlock, PidFileHonest, GateAccounted, Tasks, Locking
  <1> QED
    BY <1>1, <1>2

\* The last local of a request is its permit.
LEMMA FinishRequestInv ==
    ASSUME IInv, NEW t \in Tasks, FinishRequest(t)
    PROVE  IInv'
  <1>1. ReleaseGate(t, "idle") /\ t \in Http /\ pc[t] = "finish"
    BY DEF FinishRequest
  <1>2. /\ pc' \in [Tasks -> States] /\ pc'[t] = "idle"
        /\ gate' \in Http \union {Nobody} /\ gateQ' \in Seq(Http)
        /\ QueueInv'
        /\ gate' = Nobody => gateQ' = <<>>
        /\ gate' # Nobody => /\ gate' # t /\ pc[gate'] = "queued"
                            /\ pc'[gate'] = "lock"
        /\ \A u \in Tasks \ {t, gate'} : pc'[u] = pc[u]
    BY <1>1, ReleaseGateFacts DEF IInv, States
  <1> QED
    BY <1>1, <1>2, TasksDisjoint DEF FinishRequest, IInv, TypeOK, ControlInv,
       FlockAccounted, HoldsFlock, PidFileHonest, GateAccounted, Tasks, Locking

\* A dropped request passes its permit on; its lock thread stays.
LEMMA CancelLockingInv ==
    ASSUME IInv, NEW t \in Tasks, CancelLocking(t)
    PROVE  IInv'
  <1>1. ReleaseGate(t, pc[t]) /\ t \in Http \ orphan /\ pc[t] \in {"lock", "pid"}
    BY DEF CancelLocking
  <1>2. /\ pc' \in [Tasks -> States] /\ pc'[t] = pc[t]
        /\ gate' \in Http \union {Nobody} /\ gateQ' \in Seq(Http)
        /\ QueueInv'
        /\ gate' = Nobody => gateQ' = <<>>
        /\ gate' # Nobody => /\ gate' # t /\ pc[gate'] = "queued"
                            /\ pc'[gate'] = "lock"
        /\ \A u \in Tasks \ {t, gate'} : pc'[u] = pc[u]
    BY <1>1, ReleaseGateFacts DEF IInv, States
  <1> QED
    BY <1>1, <1>2, TasksDisjoint DEF CancelLocking, IInv, TypeOK, ControlInv,
       FlockAccounted, HoldsFlock, PidFileHonest, GateAccounted, Tasks, Locking

\* The heartbeat drops its permit before its lock.
LEMMA HbReleaseGateInv ==
    ASSUME IInv, HbReleaseGate
    PROVE  IInv'
  <1>1. ReleaseGate(hb, "drop") /\ pc[hb] = "hbDrop"
    BY DEF HbReleaseGate
  <1>2. /\ pc' \in [Tasks -> States] /\ pc'[hb] = "drop"
        /\ gate' \in Http \union {Nobody} /\ gateQ' \in Seq(Http)
        /\ QueueInv'
        /\ gate' = Nobody => gateQ' = <<>>
        /\ gate' # Nobody => /\ gate' # hb /\ pc[gate'] = "queued"
                            /\ pc'[gate'] = "lock"
        /\ \A u \in Tasks \ {hb, gate'} : pc'[u] = pc[u]
    BY <1>1, ReleaseGateFacts DEF IInv, States
  <1> QED
    BY <1>1, <1>2, TasksDisjoint DEF HbReleaseGate, IInv, TypeOK, ControlInv,
       FlockAccounted, HoldsFlock, PidFileHonest, GateAccounted, Tasks, Locking

\* A request dropped in the queue leaves the others in order.
LEMMA CancelQueuedInv ==
    ASSUME IInv, NEW t \in Tasks, CancelQueued(t)
    PROVE  IInv'
  <1>1. PICK k \in 1..Len(gateQ) : gateQ[k] = t /\ gateQ' = RemoveAt(gateQ, k)
    BY DEF CancelQueued, IInv, TypeOK
  <1>2. /\ t \in Http /\ pc[t] = "queued" /\ UNCHANGED <<gate, flock, pidFile, unnamed, orphan>>
        /\ pc' = [pc EXCEPT ![t] = "idle"] /\ gateQ \in Seq(Http)
    BY DEF CancelQueued, Goto, IInv, TypeOK
  <1>3. /\ pc' \in [Tasks -> States] /\ pc'[t] = "idle"
        /\ \A u \in Tasks \ {t} : pc'[u] = pc[u]
    BY <1>2 DEF IInv, TypeOK, Tasks, States
  <1>4. /\ gateQ' \in Seq(Http) /\ Len(gateQ) \in Nat /\ Len(gateQ') = Len(gateQ) - 1
        /\ \A j \in 1..(Len(gateQ) - 1) :
             gateQ'[j] = IF j < k THEN gateQ[j] ELSE gateQ[j + 1]
    <2>1. /\ RemoveAt(gateQ, k) \in Seq(Http)
          /\ Len(RemoveAt(gateQ, k)) = Len(gateQ) - 1
          /\ \A j \in 1..(Len(gateQ) - 1) :
               RemoveAt(gateQ, k)[j] = IF j < k THEN gateQ[j] ELSE gateQ[j + 1]
      BY <1>2, RemoveAtFacts
    <2> QED
      BY <1>1, <1>2, <2>1
  <1>5. QueueInv'
    <2>1. ASSUME NEW i \in 1..Len(gateQ')
          PROVE  pc'[gateQ'[i]] = "queued"
      <3>1. PICK j \in 1..Len(gateQ) : j # k /\ gateQ'[i] = gateQ[j]
        BY <1>4
      <3>2. gateQ[j] # t /\ pc[gateQ[j]] = "queued" /\ gateQ[j] \in Http
        BY <1>1, <1>2, <3>1 DEF IInv, QueueInv
      <3> QED
        BY <1>3, <3>1, <3>2 DEF Tasks
    <2>2. ASSUME NEW i \in 1..Len(gateQ'), NEW j \in 1..Len(gateQ'),
                 gateQ'[i] = gateQ'[j]
          PROVE  i = j
      <3> DEFINE At(n) == IF n < k THEN n ELSE n + 1
      <3>1. At(i) \in 1..Len(gateQ) /\ At(j) \in 1..Len(gateQ)
            /\ gateQ[At(i)] = gateQ[At(j)]
        BY <1>4, <2>2
      <3>2. At(i) = At(j)
        BY <3>1 DEF IInv, QueueInv
      <3> QED
        BY <3>2
    <2>3. ASSUME NEW u \in Http, pc'[u] = "queued"
          PROVE  \E i \in 1..Len(gateQ') : gateQ'[i] = u
      <3>1. u # t /\ pc[u] = "queued"
        BY <1>3, <2>3 DEF Tasks
      <3>2. PICK j \in 1..Len(gateQ) : gateQ[j] = u
        BY <3>1 DEF IInv, QueueInv
      <3>3. CASE j < k
        BY <1>1, <1>4, <3>2, <3>3
      <3>4. CASE j > k
        <4>1. j - 1 \in 1..Len(gateQ') /\ gateQ'[j - 1] = u
          BY <1>1, <1>4, <3>2, <3>4
        <4> QED
          BY <4>1
      <3> QED
        BY <1>1, <3>1, <3>2, <3>3, <3>4
    <2> QED
      BY <2>1, <2>2, <2>3 DEF QueueInv
  <1>6. gate # Nobody
    BY <1>1, <1>2 DEF IInv, GateAccounted
  <1> QED
    BY <1>2, <1>3, <1>4, <1>5, <1>6, TasksDisjoint DEF IInv, TypeOK, ControlInv,
       FlockAccounted, HoldsFlock, PidFileHonest, GateAccounted, Tasks, Locking

\* A dead process takes its own tasks, locks and permits with it, no others.
LEMMA KillInv ==
    ASSUME IInv, NEW p \in Procs, Kill(p)
    PROVE  IInv'
  <1>1. /\ pc' \in [Tasks -> States]
        /\ \A t \in Tasks : pc'[t] = IF ProcOf(t) = p THEN "idle" ELSE pc[t]
    BY DEF Kill, IInv, TypeOK, States
  <1>2. CASE p = Daemon
    <2>1. \A t \in Http \union Bare \union {hb} : pc'[t] = "idle"
      BY <1>1, <1>2, TasksDisjoint DEF ProcOf, Tasks
    <2>2. \A t \in Cli : pc'[t] = pc[t]
      BY <1>1, <1>2, TasksDisjoint DEF ProcOf, Tasks
    <2> QED
      BY <1>1, <1>2, <2>1, <2>2, TasksDisjoint DEF Kill, IInv, TypeOK, ControlInv,
         QueueInv, FlockAccounted, HoldsFlock, PidFileHonest, GateAccounted, Tasks,
         Locking, ProcOf
  <1>3. CASE p \in Cli
    <2>1. pc'[p] = "idle" /\ \A t \in Tasks \ {p} : pc'[t] = pc[t]
      BY <1>1, <1>3, TasksDisjoint DEF ProcOf, Tasks
    <2>2. UNCHANGED <<gate, gateQ, orphan, pidFile, unnamed>>
      BY <1>3, TasksDisjoint DEF Kill, Tasks
    <2>3. flock' = IF flock = p THEN Nobody ELSE flock
      BY <1>3, TasksDisjoint DEF Kill, IInv, TypeOK, Tasks, Locking, ProcOf
    <2>4. QueueInv'
      BY <1>3, <2>1, <2>2, TasksDisjoint DEF IInv, TypeOK, QueueInv, Tasks
    <2> QED
      BY <1>1, <1>3, <2>1, <2>2, <2>3, <2>4, TasksDisjoint DEF IInv, TypeOK,
         ControlInv, FlockAccounted, HoldsFlock, PidFileHonest, GateAccounted, Tasks,
         Locking
  <1> QED
    BY <1>2, <1>3 DEF Procs

-----------------------------------------------------------------------------
\* IInv is inductive.
LEMMA NextIInv == IInv /\ [Next]_vars => IInv'
  <1> SUFFICES ASSUME IInv, [Next]_vars
               PROVE  IInv'
    OBVIOUS
  <1>1. ASSUME NEW t \in Tasks,
               \/ AcquireGate(t) \/ CliStart(t) \/ LockRound(t) \/ WritePid(t)
               \/ EndTurn(t) \/ Unlock(t) \/ RemovePid(t) \/ FinishRequest(t)
               \/ CancelQueued(t) \/ CancelLocking(t)
               \/ BareBegin(t) \/ BareEnd(t)
        PROVE  IInv'
    BY <1>1, AcquireGateInv, CliStartInv, LockAcquiredInv, LockTimeoutInv,
       WritePidInv, EndTurnInv, UnlockInv, RemovePidInv, FinishRequestInv,
       CancelQueuedInv, CancelLockingInv, BareBeginInv, BareEndInv DEF LockRound
  <1>2. CASE Heartbeat
    BY <1>2, HbCheckInv, HbTryLockInv, HbTryGateInv, HbReleaseGateInv DEF Heartbeat
  <1>3. ASSUME NEW p \in Procs, Kill(p)
        PROVE  IInv'
    BY <1>3, KillInv
  <1>4. CASE UNCHANGED vars
    BY <1>4 DEF vars, IInv, TypeOK, ControlInv, QueueInv, FlockAccounted, HoldsFlock,
       PidFileHonest, GateAccounted
  <1> QED
    BY <1>1, <1>2, <1>3, <1>4 DEF Next

\* The inductive invariant holds in every reachable state.
THEOREM Invariance == Spec => []IInv
  BY InitIInv, NextIInv, PTL DEF Spec

\* The variables keep their types, in any number of requests and processes.
THEOREM TypeCorrect == Spec => []TypeOK
  <1>1. IInv => TypeOK
    BY DEF IInv
  <1> QED
    BY <1>1, Invariance, PTL

\* The workspace lock serialises every turn that takes it, whatever is killed,
\* cancelled or timed out.
THEOREM TurnsExclude == Spec => []MutualExclusion
  <1>1. IInv => MutualExclusion
    BY TasksDisjoint DEF IInv, FlockAccounted, HoldsFlock, MutualExclusion, Tasks,
       Locking
  <1> QED
    BY <1>1, Invariance, PTL

\* The pid file never misleads about a holder that has written it.
THEOREM PidFileNeverStale == Spec => []PidFileHonest
  <1>1. IInv => PidFileHonest
    BY DEF IInv
  <1> QED
    BY <1>1, Invariance, PTL

\* No path loses the file lock or the permit.
THEOREM NoLeakedLock == Spec => []LocksAccounted
  <1>1. IInv => LocksAccounted
    BY DEF IInv, LocksAccounted
  <1> QED
    BY <1>1, Invariance, PTL

\* Only its own successful try of the gate takes the heartbeat into its turn.
LEMMA HbTurnEntry ==
    ASSUME IInv, [Next]_vars, pc[hb] # "turn", pc'[hb] = "turn"
    PROVE  gate = Nobody
  <1> SUFFICES ASSUME gate # Nobody
               PROVE  FALSE
    OBVIOUS
  <1>1. ASSUME NEW t \in Http \union {hb}, NEW s \in States,
               pc[t] # "queued", s # "queued", t = hb => s # "turn", ReleaseGate(t, s)
        PROVE  FALSE
    <2>1. /\ pc'[t] = s /\ gate' \in Http \union {Nobody}
          /\ gate' # Nobody => pc'[gate'] = "lock"
          /\ \A u \in Tasks \ {t, gate'} : pc'[u] = pc[u]
      BY <1>1, ReleaseGateFacts DEF IInv
    <2> QED
      BY <1>1, <2>1, TasksDisjoint DEF Tasks
  <1>2. ASSUME NEW t \in Tasks,
               \/ AcquireGate(t) \/ CliStart(t) \/ LockAcquired(t) \/ WritePid(t)
               \/ EndTurn(t) \/ Unlock(t) \/ RemovePid(t) \/ CancelQueued(t)
               \/ BareBegin(t) \/ BareEnd(t)
        PROVE  FALSE
    BY <1>2, TasksDisjoint DEF IInv, TypeOK, ControlInv, Tasks, Locking, AcquireGate,
       CliStart, LockAcquired, WritePid, AfterPid, EndTurn, Unlock, RemovePid,
       CancelQueued, BareBegin, BareEnd, Goto
  <1>3. ASSUME NEW t \in Tasks, LockTimeout(t)
        PROVE  FALSE
    BY <1>1, <1>3, TasksDisjoint DEF LockTimeout, IInv, TypeOK, Goto, Tasks, States
  <1>4. ASSUME NEW t \in Tasks, FinishRequest(t) \/ CancelLocking(t)
        PROVE  FALSE
    BY <1>1, <1>4, TasksDisjoint DEF FinishRequest, CancelLocking, Tasks, States
  <1>5. CASE Heartbeat
    <2>1. CASE HbReleaseGate
      BY <1>1, <2>1 DEF HbReleaseGate, States
    <2> QED
      BY <1>5, <2>1 DEF Heartbeat, HbCheck, HbTryLock, HbTryGate, Goto, IInv, TypeOK,
         Tasks
  <1>6. ASSUME NEW p \in Procs, Kill(p)
        PROVE  FALSE
    BY <1>6 DEF Kill, Tasks
  <1>7. CASE UNCHANGED vars
    BY <1>7 DEF vars
  <1> QED
    BY <1>2, <1>3, <1>4, <1>5, <1>6, <1>7 DEF Next, LockRound

\* The heartbeat never overtakes an HTTP request, stale is_busy() or not.
THEOREM HeartbeatNeverOvertakes == Spec => HeartbeatYields
  <1>1. ASSUME IInv, [Next]_vars, pc[hb] # "turn", pc'[hb] = "turn"
        PROVE  \A t \in Http : pc[t] = "idle" \/ t \in orphan
    <2>1. gate = Nobody
      BY <1>1, HbTurnEntry
    <2>2. gateQ = <<>> /\ Len(gateQ) = 0
      BY <1>1, <2>1 DEF IInv, GateAccounted
    <2>3. \A t \in Http : pc[t] # "queued"
      BY <1>1, <2>2 DEF IInv, QueueInv
    <2> QED
      BY <1>1, <2>1, <2>3, TasksDisjoint DEF IInv, TypeOK, ControlInv, GateAccounted,
         States, Tasks
  <1>2. IInv /\ [Next]_vars =>
          [pc[hb] # "turn" /\ pc'[hb] = "turn" =>
             \A t \in Http : pc[t] = "idle" \/ t \in orphan]_vars
    BY <1>1
  <1> QED
    BY <1>2, Invariance, PTL DEF Spec, HeartbeatYields
=============================================================================
