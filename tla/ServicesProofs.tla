--------------------------- MODULE ServicesProofs ---------------------------
(***************************************************************************)
(* Proofs about SessionStore, TelegramPolling and Desktop.                 *)
(***************************************************************************)
EXTENDS Services, Sequences, TLAPS

-----------------------------------------------------------------------------
(* sessions.json keeps its promise for any number of processes, session    *)
(* ids and alerts.  The argument: whoever is between reading the file and  *)
(* renaming its own version into place holds the lock (LockHeld), so that  *)
(* nobody else renames in between, and its copy is the file, or the file   *)
(* with its own entry changed (CopyFresh).                                 *)

\* The lock is held from lock_exclusive to its release.
Holding(p) == pc[p] \in {"read", "write", "rename", "unlock"}

LockHeld == \A p \in Procs : Holding(p) => flock = p

\* A process changes the entry of its job only.
CopyFresh ==
    \A p \in Procs :
        /\ pc[p] = "write" => copy[p] = file
        /\ pc[p] = "rename" =>
              \E e \in Entries : copy[p] = [file EXCEPT ![job[p][1]] = e]

TypeInv ==
    /\ day \in 0..MaxDays
    /\ file \in [Keys -> Entries]
    /\ flock \in Procs \union {None}
    /\ pc \in [Procs -> {"free", "lock", "read", "write", "rename", "unlock"}]
    /\ job \in [Procs -> Jobs \union {None}]
    /\ copy \in [Procs -> [Keys -> Entries]]
    /\ \A p \in Procs : pc[p] # "free" => job[p] \in Jobs

IInv == TypeInv /\ LockHeld /\ CopyFresh


(* Types.                                                                  *)

\* The table of an empty store is a table.
LEMMA EmptyIsTable == Empty \in [Keys -> Entries]
  BY StoreAssumption DEF Empty, Keys, Entries

\* set_cli_session_id and record_heartbeat make an entry of an entry.
LEMMA ChangedIsEntry ==
    ASSUME NEW e \in Entries, NEW j \in Jobs, day \in 0..MaxDays
    PROVE  Changed(e, j) \in Entries
<1>1. CASE j[1] = "main"
  <2>1. j[2] \in Ids
    BY <1>1 DEF Jobs
  <2> QED BY <1>1, <2>1 DEF Changed, Entries
<1>2. CASE j[1] # "main"
  <2>1. j[2] \in Texts
    BY <1>2 DEF Jobs
  <2> QED BY <1>2, <2>1 DEF Changed, Entries
<1> QED BY <1>1, <1>2

\* A job is about one of the two entries.
LEMMA JobIsAboutKey == ASSUME NEW j \in Jobs PROVE j[1] \in Keys
  BY DEF Jobs, Keys

\* The initial states satisfy the invariant.
LEMMA InitInv == Init => IInv
<1> SUFFICES ASSUME Init PROVE IInv
  OBVIOUS
<1>1. file \in [Keys -> Entries]
  <2> PICK id \in Ids \union {None} : file = [Empty EXCEPT !["main"].legacy = id]
    BY DEF Init
  <2> QED BY EmptyIsTable DEF Entries, Keys
<1> QED BY <1>1, EmptyIsTable, StoreAssumption
        DEF Init, IInv, TypeInv, LockHeld, Holding, CopyFresh

-----------------------------------------------------------------------------
(* One lemma per kind of step.                                             *)

\* Loading without the lock, and waiting for it, disturb no holder.
LEMMA LoadInv == ASSUME IInv, NEW p \in Procs, Load(p) PROVE IInv'
<1> PICK j \in Jobs :
        IF j[1] = "heartbeat" /\ IsDuplicate(file["heartbeat"], j[2])
        THEN UNCHANGED <<pc, job, copy>>
        ELSE /\ copy' = [copy EXCEPT ![p] = file]
             /\ job' = [job EXCEPT ![p] = j]
             /\ Goto(p, "lock")
  BY DEF Load
<1>1. CASE UNCHANGED <<pc, job, copy>>
  BY <1>1 DEF Load, IInv, TypeInv, LockHeld, Holding, CopyFresh
<1>2. CASE /\ copy' = [copy EXCEPT ![p] = file]
           /\ job' = [job EXCEPT ![p] = j]
           /\ Goto(p, "lock")
  <2>1. TypeInv'
    BY <1>2 DEF Load, Goto, IInv, TypeInv
  <2>2. LockHeld'
    BY <1>2 DEF Load, Goto, IInv, TypeInv, LockHeld, Holding
  <2>3. CopyFresh'
    BY <1>2 DEF Load, Goto, IInv, TypeInv, CopyFresh
  <2> QED BY <2>1, <2>2, <2>3 DEF IInv
<1> QED BY <1>1, <1>2

\* Only a process that finds the lock free takes it.
LEMMA LockInv == ASSUME IInv, NEW p \in Procs, Lock(p) PROVE IInv'
  BY StoreAssumption DEF Lock, Goto, IInv, TypeInv, LockHeld, Holding, CopyFresh

\* What is read under the lock is the file.
LEMMA ReadInv == ASSUME IInv, NEW p \in Procs, Read(p) PROVE IInv'
  BY DEF Read, Goto, IInv, TypeInv, LockHeld, Holding, CopyFresh

\* The copy then differs from the file in the entry of the job.
LEMMA WriteInv == ASSUME IInv, NEW p \in Procs, Write(p) PROVE IInv'
<1>1. job[p] \in Jobs /\ job[p][1] \in Keys /\ copy[p] = file
  BY JobIsAboutKey DEF Write, IInv, TypeInv, CopyFresh
<1> DEFINE e == Changed(file[job[p][1]], job[p])
<1>2. e \in Entries
  BY <1>1, ChangedIsEntry DEF IInv, TypeInv
<1>3. copy' = [copy EXCEPT ![p] = [file EXCEPT ![job[p][1]] = e]]
  BY <1>1 DEF Write, IInv, TypeInv
<1> HIDE DEF e
<1>4. TypeInv'
  BY <1>1, <1>2, <1>3 DEF Write, Goto, IInv, TypeInv
<1>5. LockHeld'
  BY DEF Write, Goto, IInv, TypeInv, LockHeld, Holding
<1>6. CopyFresh'
  <2> SUFFICES ASSUME NEW q \in Procs
               PROVE  /\ pc'[q] = "write" => copy'[q] = file'
                      /\ pc'[q] = "rename" =>
                            \E f \in Entries : copy'[q] = [file' EXCEPT ![job'[q][1]] = f]
    BY DEF CopyFresh
  <2>1. file' = file /\ job' = job /\ pc' = [pc EXCEPT ![p] = "rename"]
    BY DEF Write, Goto
  <2>2. CASE q = p
    <3>1. copy'[q] = [file EXCEPT ![job[q][1]] = e] /\ pc'[q] = "rename"
      BY <1>3, <2>1, <2>2 DEF IInv, TypeInv
    <3> QED BY <3>1, <2>1, <1>2
  <2>3. CASE q # p
    BY <1>3, <2>1, <2>3 DEF IInv, TypeInv, CopyFresh
  <2> QED BY <2>2, <2>3
<1> QED BY <1>4, <1>5, <1>6 DEF IInv

\* A rename changes the file under no other holder.
LEMMA RenameInv == ASSUME IInv, NEW p \in Procs, Rename(p) PROVE IInv'
  BY DEF Rename, Goto, IInv, TypeInv, LockHeld, Holding, CopyFresh

\* A failure keeps the file, and the lock until its release.
LEMMA FailsInv == ASSUME IInv, NEW p \in Procs, Fails(p) PROVE IInv'
  BY DEF Fails, Goto, IInv, TypeInv, LockHeld, Holding, CopyFresh

\* The lock is released by its holder, as the last thing it does.
LEMMA UnlockInv == ASSUME IInv, NEW p \in Procs, Unlock(p) PROVE IInv'
  BY EmptyIsTable, StoreAssumption
     DEF Unlock, Free, IInv, TypeInv, LockHeld, Holding, CopyFresh

\* A process that dies gives up its own lock only.
LEMMA CrashInv == ASSUME IInv, NEW p \in Procs, Crash(p) PROVE IInv'
  BY EmptyIsTable, StoreAssumption
     DEF Crash, Free, IInv, TypeInv, LockHeld, Holding, CopyFresh

\* The clock is part of no copy.
LEMMA DayInv == ASSUME IInv, Day PROVE IInv'
  BY StoreAssumption DEF Day, IInv, TypeInv, LockHeld, Holding, CopyFresh

\* Every step keeps the invariant.
LEMMA StepInv == IInv /\ [Next]_vars => IInv'
<1> SUFFICES ASSUME IInv, [Next]_vars PROVE IInv'
  OBVIOUS
<1>1. CASE UNCHANGED vars
  BY <1>1 DEF vars, IInv, TypeInv, LockHeld, Holding, CopyFresh
<1>2. CASE Day
  BY <1>2, DayInv
<1>3. ASSUME NEW p \in Procs,
             \/ Load(p) \/ Lock(p) \/ Read(p) \/ Write(p) \/ Rename(p) \/ Fails(p)
             \/ Unlock(p) \/ Crash(p)
      PROVE  IInv'
  BY <1>3, LoadInv, LockInv, ReadInv, WriteInv, RenameInv, FailsInv, UnlockInv, CrashInv
<1> QED BY <1>1, <1>2, <1>3 DEF Next

(* The promise.                                                            *)

\* Every step changes one entry of the table, or none.
LEMMA StepImplements == IInv /\ [Next]_vars => [Record!Next]_file
<1> SUFFICES ASSUME IInv, [Next]_vars PROVE Record!Next \/ file' = file
  OBVIOUS
<1>1. ASSUME NEW p \in Procs, Rename(p) PROVE Record!Next
  <2>1. job[p] \in Jobs /\ pc[p] = "rename"
    BY <1>1 DEF Rename, IInv, TypeInv
  <2>2. PICK e \in Entries : copy[p] = [file EXCEPT ![job[p][1]] = e]
    BY <2>1 DEF IInv, CopyFresh
  <2>3. file' = [file EXCEPT ![job[p][1]] = e]
    BY <1>1, <2>2 DEF Rename
  <2> QED BY <2>1, <2>3, JobIsAboutKey DEF Record!Next, Record!Update
<1>2. ASSUME NEW p \in Procs,
             \/ Load(p) \/ Lock(p) \/ Read(p) \/ Write(p) \/ Fails(p) \/ Unlock(p) \/ Crash(p)
      PROVE  file' = file
  BY <1>2 DEF Load, Lock, Read, Write, Fails, Unlock, Crash
<1>3. Day \/ UNCHANGED vars => file' = file
  BY DEF Day, vars
<1> QED BY <1>1, <1>2, <1>3 DEF Next

\* In every state the lock is held by whoever is inside load_and_update, and
\* what it is about to rename into place is the present file but for its entry.
THEOREM UpdatesAreFresh == Spec => [](LockHeld /\ CopyFresh)
<1>1. IInv => LockHeld /\ CopyFresh
  BY DEF IInv
<1> QED BY <1>1, InitInv, StepInv, PTL DEF Spec

\* load_and_update implements the table that changes one entry at a time:
\* no process takes back another one's update, whoever fails or dies.
THEOREM OthersKept == Spec => KeepsOthers
<1>1. Init => Record!Init
  BY InitInv DEF IInv, TypeInv, Record!Init
<1> QED BY <1>1, InitInv, StepInv, StepImplements, PTL DEF Spec, KeepsOthers, Record!Spec

-----------------------------------------------------------------------------
(* Telegram: offset, batch and queue are in step.                          *)

PollTypes ==
    /\ updates \in Seq(Telegram!Kinds)
    /\ gone \in Nat /\ offset \in Nat /\ last \in Nat
    /\ pollPc \in {"idle", "polling", "answered", "batch", "handle"}
    /\ batch \in Seq(Nat) /\ answer \in Seq(Nat)

\* Telegram answers with what comes next, and has dropped all before the offset.
AnswerInv ==
    /\ \A i \in 1..Len(answer) : answer[i] = gone + i
    /\ pollPc = "answered" => offset <= gone + 1

\* The batch is a run of consecutive updates; what comes before it was handled,
\* and in this life of the daemon nothing of it or after it.
BatchInv ==
    /\ pollPc \in {"batch", "handle"} <=> batch # <<>>
    /\ \A i \in 1..Len(batch) : batch[i] + 1 = batch[1] + i
    /\ batch # <<>> =>
        /\ 1 <= batch[1] /\ last < batch[1]
        /\ \A n \in 1..(batch[1] - 1) : n \in done

\* What lies before the offset was handled, but for the update at hand; the last
\* update of this life lies before it.
OffsetInv ==
    /\ pollPc = "handle" => offset = batch[1] + 1
    /\ pollPc # "handle" => \A n \in 1..(offset - 1) : n \in done
    /\ last = 0 \/ last < offset

PollInv ==
    /\ PollTypes /\ AnswerInv /\ BatchInv /\ OffsetInv
    /\ \A n \in 1..gone : n \in done
    /\ redone = FALSE

LEMMA PollStarts == Telegram!Init => PollInv
  BY DEF Telegram!Init, PollInv, PollTypes, AnswerInv, BatchInv, OffsetInv

LEMMA PollStutters == PollInv /\ UNCHANGED Telegram!vars => PollInv'
  BY DEF PollInv, PollTypes, AnswerInv, BatchInv, OffsetInv, Telegram!vars, Telegram!server,
     Telegram!loop, Telegram!seen, Telegram!count

LEMMA PollOutside ==
  PollInv /\ (Telegram!Arrives \/ Telegram!Request \/ Telegram!Taken \/ Telegram!Poll) => PollInv'
  <1>1. ASSUME PollInv, Telegram!Arrives PROVE PollInv'
    <2>1. updates' \in Seq(Telegram!Kinds)
      BY <1>1 DEF PollInv, PollTypes, Telegram!Arrives
    <2> QED
      BY <1>1, <2>1 DEF PollInv, PollTypes, AnswerInv, BatchInv, OffsetInv, Telegram!loop,
         Telegram!seen, Telegram!Arrives
  <1>2. ASSUME PollInv, Telegram!Request \/ Telegram!Taken PROVE PollInv'
    BY <1>2 DEF PollInv, PollTypes, AnswerInv, BatchInv, OffsetInv, Telegram!server,
       Telegram!loop, Telegram!seen,
                Telegram!Request, Telegram!Taken
  <1>3. ASSUME PollInv, Telegram!Poll PROVE PollInv'
    BY <1>3 DEF PollInv, PollTypes, AnswerInv, BatchInv, OffsetInv, Telegram!server,
       Telegram!seen, Telegram!Poll
  <1> QED
    BY <1>1, <1>2, <1>3

\* Telegram drops only what lies before the offset: handled, as no update is at hand.
LEMMA PollAnswers == PollInv /\ Telegram!Answers => PollInv'
  <1> SUFFICES ASSUME PollInv, Telegram!Answers PROVE PollInv'
    OBVIOUS
  <1>1. /\ updates \in Seq(Telegram!Kinds) /\ Len(updates) \in Nat
        /\ gone \in Nat /\ offset \in Nat /\ last \in Nat
        /\ batch \in Seq(Nat)
    BY DEF PollInv, PollTypes
  <1>2. /\ pollPc = "polling" /\ pollPc' = "answered"
        /\ gone' = IF offset > gone THEN offset - 1 ELSE gone
        /\ UNCHANGED <<updates, offset, batch, last, done, redone>>
    BY DEF Telegram!Answers, Telegram!seen
  <1>3. PICK g \in Nat : g = gone' /\ gone <= g /\ offset <= g + 1
    BY <1>1, <1>2
  <1>4. PICK m \in Nat : m = Len(updates)
    BY <1>1
  <1>5. PICK n \in g..m : answer' = [i \in 1..(n - g) |-> g + i]
    BY <1>3, <1>4 DEF Telegram!Answers
  <1>6. n \in Nat /\ n - g \in Nat
    OBVIOUS
  <1>7. /\ answer' \in Seq(Nat) /\ Len(answer') = n - g
        /\ \A i \in 1..Len(answer') : answer'[i] = g + i
    <2>1. \A i \in 1..(n - g) : g + i \in Nat
      BY <1>6
    <2>2. answer' \in [1..(n - g) -> Nat]
      BY <1>5, <2>1
    <2>3. answer' \in Seq(Nat) /\ Len(answer') = n - g
      BY <1>6, <2>2
    <2> QED
      BY <1>5, <2>3
  <1>8. \A k \in 1..gone' : k \in done'
    BY <1>1, <1>2 DEF PollInv, OffsetInv
  <1>9. PollTypes' /\ AnswerInv'
    BY <1>1, <1>2, <1>3, <1>7 DEF PollTypes, AnswerInv
  <1>10. BatchInv' /\ OffsetInv'
    BY <1>2 DEF PollInv, BatchInv, OffsetInv
  <1> QED
    BY <1>2, <1>8, <1>9, <1>10 DEF PollInv

LEMMA PollReceived == PollInv /\ Telegram!Received => PollInv'
  <1> SUFFICES ASSUME PollInv, Telegram!Received PROVE PollInv'
    OBVIOUS
  <1>1. /\ updates \in Seq(Telegram!Kinds) /\ gone \in Nat /\ offset \in Nat /\ last \in Nat
        /\ answer \in Seq(Nat)
    BY DEF PollInv, PollTypes
  <1>2. /\ pollPc = "answered" /\ batch' = answer /\ answer' = <<>>
        /\ pollPc' = IF answer = <<>> THEN "idle" ELSE "batch"
        /\ UNCHANGED <<updates, gone, offset, last, done, redone>>
    BY DEF Telegram!Received, Telegram!seen
  <1>3. PICK g \in Nat : /\ g = gone /\ last < g + 1
                         /\ \A i \in 1..Len(answer) : answer[i] = g + i
                         /\ \A n \in 1..g : n \in done
    BY <1>1, <1>2 DEF PollInv, AnswerInv, OffsetInv
  <1>4. BatchInv'
    <2>1. ASSUME answer # <<>>
          PROVE  /\ answer[1] = g + 1
                 /\ \A i \in 1..Len(answer) : answer[i] + 1 = answer[1] + i
      <3>1. answer[1] = g + 1
        BY <1>1, <1>3, <2>1
      <3> QED
        BY <1>3, <3>1
    <2>2. ASSUME answer = <<>> PROVE \A i \in 1..Len(answer) : answer[i] + 1 = answer[1] + i
      BY <2>2
    <2>3. \A n \in 1..((g + 1) - 1) : n \in done
      BY <1>3
    <2>4. ASSUME answer # <<>>
          PROVE  1 <= answer[1] /\ last < answer[1] /\ \A n \in 1..(answer[1] - 1) : n \in done
      BY <1>3, <2>1, <2>3, <2>4
    <2>5. pollPc' \in {"batch", "handle"} <=> batch' # <<>>
      BY <1>2
    <2> QED
      BY <1>2, <2>1, <2>2, <2>4, <2>5 DEF BatchInv
  <1>5. PollTypes' /\ AnswerInv'
    BY <1>1, <1>2 DEF PollTypes, AnswerInv
  <1>6. OffsetInv'
    BY <1>2 DEF PollInv, OffsetInv
  <1> QED
    BY <1>2, <1>4, <1>5, <1>6 DEF PollInv

LEMMA PollLost == PollInv /\ (Telegram!PollFails \/ Telegram!ServeUi \/ Telegram!Crash) => PollInv'
  <1>1. ASSUME PollInv, Telegram!PollFails \/ Telegram!ServeUi PROVE PollInv'
    BY <1>1 DEF PollInv, PollTypes, AnswerInv, BatchInv, OffsetInv, Telegram!seen,
       Telegram!PollFails, Telegram!ServeUi
  <1>2. ASSUME PollInv, Telegram!Crash PROVE PollInv'
    BY <1>2 DEF PollInv, PollTypes, AnswerInv, BatchInv, OffsetInv, Telegram!Crash
  <1> QED
    BY <1>1, <1>2

LEMMA PollNextUpdate == PollInv /\ Telegram!NextUpdate => PollInv'
  BY DEF PollInv, PollTypes, AnswerInv, BatchInv, OffsetInv, Telegram!server, Telegram!loop,
     Telegram!seen, Telegram!count, Telegram!NextUpdate

\* The update at hand is later than all of this life, and the next in line.
LEMMA PollHandled == PollInv /\ (Telegram!Push \/ Telegram!Drop \/ Telegram!Press) => PollInv'
  <1> SUFFICES ASSUME PollInv, Telegram!Push \/ Telegram!Drop \/ Telegram!Press PROVE PollInv'
    OBVIOUS
  <1>1. /\ updates \in Seq(Telegram!Kinds) /\ gone \in Nat /\ offset \in Nat /\ last \in Nat
        /\ batch \in Seq(Nat) /\ answer \in Seq(Nat)
    BY DEF PollInv, PollTypes
  <1>2. /\ pollPc = "handle" /\ done' = done \union {Head(batch)} /\ last' = Head(batch)
        /\ batch' = Tail(batch)
        /\ pollPc' = IF Tail(batch) = <<>> THEN "idle" ELSE "batch"
        /\ UNCHANGED <<updates, gone, answer, offset>>
    BY DEF Telegram!Push, Telegram!Drop, Telegram!Press, Telegram!Handled, Telegram!server
  <1>3. redone' = (redone \/ Head(batch) <= last)
    BY DEF Telegram!Push, Telegram!Drop, Telegram!Press, Telegram!Handled
  <1>4. batch # <<>>
    BY <1>2 DEF PollInv, BatchInv
  <1>5. PICK h \in Nat : /\ h = Head(batch) /\ h = batch[1] /\ 1 <= h /\ last < h
                         /\ offset = h + 1
                         /\ \A n \in 1..(h - 1) : n \in done
                         /\ \A i \in 1..Len(batch) : batch[i] + 1 = h + i
    <2>1. Head(batch) = batch[1] /\ batch[1] \in Nat
      BY <1>1, <1>4
    <2>2. /\ 1 <= batch[1] /\ last < batch[1]
          /\ \A n \in 1..(batch[1] - 1) : n \in done
          /\ \A i \in 1..Len(batch) : batch[i] + 1 = batch[1] + i
      BY <1>4 DEF PollInv, BatchInv
    <2>3. offset = batch[1] + 1
      BY <1>2 DEF PollInv, OffsetInv
    <2> QED
      BY <2>1, <2>2, <2>3, Zenon
  <1>6. PICK rest \in Seq(Nat) : /\ rest = Tail(batch) /\ Len(rest) = Len(batch) - 1
                                 /\ \A i \in 1..Len(rest) : rest[i] = batch[i + 1]
    <2>1. /\ Tail(batch) \in Seq(Nat) /\ Len(Tail(batch)) = Len(batch) - 1
          /\ \A i \in 1..Len(Tail(batch)) : Tail(batch)[i] = batch[i + 1]
      BY <1>1, <1>4
    <2> QED
      BY <2>1, Zenon
  <1>7. redone' = FALSE
    <2>1. ~(h <= last)
      BY <1>1, <1>5
    <2> QED
      BY <1>3, <1>5, <2>1 DEF PollInv
  <1>8. \A n \in 1..h : n \in done'
    BY <1>2, <1>5
  <1>9. \A i \in 1..Len(rest) : rest[i] = h + i
    <2> SUFFICES ASSUME NEW i \in 1..Len(rest) PROVE rest[i] = h + i
      OBVIOUS
    <2>1. i + 1 \in 1..Len(batch) /\ rest[i] = batch[i + 1]
      BY <1>1, <1>6
    <2>2. batch[i + 1] + 1 = h + (i + 1) /\ batch[i + 1] \in Nat
      <3>1. batch[i + 1] + 1 = h + (i + 1)
        BY <1>5, <2>1, Zenon
      <3> QED
        BY <1>1, <2>1, <3>1
    <2> QED
      BY <2>1, <2>2
  <1>10. BatchInv'
    <2>1. ASSUME rest # <<>> PROVE rest[1] = h + 1
      BY <1>6, <1>9, <2>1
    <2>2. \A i \in 1..Len(rest) : rest[i] + 1 = rest[1] + i
      <3> SUFFICES ASSUME NEW i \in 1..Len(rest) PROVE rest[i] + 1 = rest[1] + i
        OBVIOUS
      <3>1. rest[1] = h + 1 /\ rest[i] = h + i
        BY <1>9, <2>1
      <3> QED
        BY <3>1
    <2>3. \A n \in 1..((h + 1) - 1) : n \in done'
      BY <1>8
    <2>4. ASSUME rest # <<>>
          PROVE  1 <= rest[1] /\ last' < rest[1] /\ \A n \in 1..(rest[1] - 1) : n \in done'
      BY <1>2, <1>5, <2>1, <2>3, <2>4
    <2>5. pollPc' \in {"batch", "handle"} <=> batch' # <<>>
      BY <1>2
    <2> QED
      BY <1>2, <1>6, <2>2, <2>4, <2>5 DEF BatchInv
  <1>11. PollTypes' /\ AnswerInv'
    BY <1>1, <1>2, <1>5, <1>6 DEF PollInv, PollTypes, AnswerInv
  <1>12. OffsetInv'
    <2>1. \A n \in 1..((h + 1) - 1) : n \in done'
      BY <1>8
    <2>2. offset' = h + 1 /\ pollPc' # "handle" /\ last' < offset'
      BY <1>2, <1>5
    <2> QED
      BY <2>1, <2>2 DEF OffsetInv
  <1>13. \A n \in 1..gone' : n \in done'
    BY <1>2 DEF PollInv
  <1> QED
    BY <1>7, <1>10, <1>11, <1>12, <1>13 DEF PollInv

LEMMA PollInductive == PollInv /\ [Telegram!Next]_(Telegram!vars) => PollInv'
  BY PollStutters, PollOutside, PollAnswers, PollReceived, PollLost, PollNextUpdate, PollHandled
     DEF Telegram!Next, Telegram!Loop

\* No update is lost: Telegram drops an update only after handle_message or
\* handle_callback_query had it, and in one life of the daemon none is handled twice
\* or out of order, for any number of updates, failed or cancelled polls and crashes.
THEOREM UpdatesHandledFirst == Telegram!Spec => []HandledBeforeGone
  <1>1. PollInv => HandledBeforeGone
    BY DEF PollInv, HandledBeforeGone, Telegram!HandledBeforeGone
  <1> QED
    BY <1>1, PollStarts, PollInductive, PTL DEF Telegram!Spec

-----------------------------------------------------------------------------
(* Desktop: what the window shows, and whether it waits.                   *)

UiTypes == {"ready", "sessions", "status", "session", "error", "done", "system",
            "text", "toolStart", "toolEnd", "approval"}
UiMsg == [type : UiTypes, chat : Nat]
AskMsg == [type : Window!Requests \union {"chat"}, chat : Nat]

\* The messages that end the waiting, and those that wipe the text on display.
Ends(m) == m.type \in {"ready", "approval", "done", "error"}
Wipes(m) == m.type \in {"done", "error", "session"}

WindowTypes ==
    /\ toWorker \in Seq(AskMsg) /\ toUi \in Seq(UiMsg)
    /\ worker \in {"init", "recv", "chat", "ended"}
    /\ chat \in Nat /\ chats \in Nat /\ streaming \in SUBSET Nat

\* Chats wait for the worker in the order of their numbers, and the tools of an
\* earlier chat are forgotten when one begins.
ChatInv ==
    /\ chat <= chats
    /\ \A i \in 1..Len(toWorker) : toWorker[i].type = "chat" =>
        /\ chat < toWorker[i].chat /\ toWorker[i].chat <= chats
        /\ \A j \in 1..Len(toWorker) :
            i < j /\ toWorker[j].type = "chat" => toWorker[i].chat < toWorker[j].chat
    /\ worker = "chat" => pendingTools = FALSE

\* While the window waits, what will end its waiting is under way.
UnderWay ==
    \/ worker = "chat"
    \/ \E i \in 1..Len(toWorker) : toWorker[i].type = "chat"
    \/ \E i \in 1..Len(toUi) : Ends(toUi[i])
LoadingInv == is_loading /\ cut = {} /\ worker # "ended" => UnderWay

\* Text of chat n at place i of the queue q to the window; place 0 is the display s.
Shown(q, s, i, n) == IF i = 0 THEN n \in s ELSE q[i].type = "text" /\ q[i].chat = n

\* Texts come in the order of their chats, up to chat c; behind the text of a chat
\* that was not cut (k) comes a message that wipes it, before any text of a later
\* chat, unless the worker (w) is still at that chat.
TextsBounded(q, s, c) ==
    \A i \in 0..Len(q), n \in Nat : Shown(q, s, i, n) => n <= c
TextsRise(q, s) ==
    \A i, j \in 0..Len(q), m, n \in Nat :
        i < j /\ Shown(q, s, i, m) /\ Shown(q, s, j, n) => m <= n
TextsWiped(q, s, k, c, w) ==
    \A i \in 0..Len(q), n \in Nat \ k :
        Shown(q, s, i, n) =>
            (w = "chat" /\ n = c) \/ \E l \in 1..Len(q) : i < l /\ Wipes(q[l])
TextsApart(q, s, k) ==
    \A i, j \in 0..Len(q), m \in Nat \ k, n \in Nat :
        i < j /\ Shown(q, s, i, m) /\ Shown(q, s, j, n) /\ m < n =>
            \E l \in 1..Len(q) : i < l /\ l < j /\ Wipes(q[l])
OneText(s, k) == \A m \in s \ k, n \in s : ~(m < n)

TextInv(q, s, k, c, w) ==
    /\ TextsBounded(q, s, c) /\ TextsRise(q, s) /\ TextsWiped(q, s, k, c, w)
    /\ TextsApart(q, s, k) /\ OneText(s, k)

WindowInv == WindowTypes /\ ChatInv /\ LoadingInv /\ TextInv(toUi, streaming, cut, chat, worker)

\* Messages without text behind the queue change nothing, if the chat that ends
\* with them is wiped by one of them or was cut.
LEMMA TextsSent ==
    ASSUME NEW q \in Seq(UiMsg), NEW ms \in Seq(UiMsg), NEW q2, q2 = q \o ms,
           NEW s, NEW k, NEW k2, k \subseteq k2, NEW c, NEW w, NEW w2,
           \A i \in 1..Len(ms) : ms[i].type # "text",
           w # "chat" \/ w2 = w \/ c \in k2 \/ \E i \in 1..Len(ms) : Wipes(ms[i]),
           TextInv(q, s, k, c, w)
    PROVE  TextInv(q2, s, k2, c, w2)
  <1>1. /\ Len(q) \in Nat /\ Len(ms) \in Nat /\ Len(q2) = Len(q) + Len(ms)
        /\ \A i \in 1..Len(q) : q2[i] = q[i]
        /\ \A i \in 1..Len(ms) : q2[Len(q) + i] = ms[i]
    OBVIOUS
  <1>2. \A i \in 1..Len(q2) : i \notin 1..Len(q) => q2[i].type # "text"
    <2> SUFFICES ASSUME NEW i \in 1..Len(q2), i \notin 1..Len(q) PROVE q2[i].type # "text"
      OBVIOUS
    <2>1. PICK d \in 1..Len(ms) : i = Len(q) + d
      <3>1. i - Len(q) \in 1..Len(ms) /\ i = Len(q) + (i - Len(q))
        BY <1>1
      <3> QED
        BY <3>1
    <2> QED
      BY <1>1, <2>1
  <1>3. ASSUME NEW i \in 0..Len(q2), NEW n, Shown(q2, s, i, n)
        PROVE  i \in 0..Len(q) /\ Shown(q, s, i, n)
    <2>1. CASE i = 0
      BY <1>1, <1>3, <2>1 DEF Shown
    <2>2. CASE i # 0
      <3>1. i \in 1..Len(q2)
        BY <1>1, <2>2
      <3>2. i \in 1..Len(q)
        BY <1>2, <1>3, <2>2, <3>1 DEF Shown
      <3> QED
        BY <1>1, <1>3, <2>2, <3>2 DEF Shown
    <2> QED
      BY <2>1, <2>2
  <1>4. ASSUME NEW l \in 1..Len(q), Wipes(q[l]) PROVE l \in 1..Len(q2) /\ Wipes(q2[l])
    BY <1>1, <1>4 DEF Wipes
  <1>5. TextsBounded(q2, s, c) /\ TextsRise(q2, s) /\ OneText(s, k2)
    <2>1. TextsBounded(q2, s, c)
      BY <1>3 DEF TextInv, TextsBounded
    <2>2. TextsRise(q2, s)
      BY <1>3 DEF TextInv, TextsRise
    <2>3. OneText(s, k2)
      BY DEF TextInv, OneText
    <2> QED
      BY <2>1, <2>2, <2>3
  <1>6. TextsApart(q2, s, k2)
    BY <1>3, <1>4, Zenon DEF TextInv, TextsApart
  <1>7. TextsWiped(q2, s, k2, c, w2)
    <2> SUFFICES ASSUME NEW i \in 0..Len(q2), NEW n \in Nat \ k2, Shown(q2, s, i, n),
                        ~(w2 = "chat" /\ n = c)
                 PROVE  \E l \in 1..Len(q2) : i < l /\ Wipes(q2[l])
      BY DEF TextsWiped
    <2>1. /\ i \in 0..Len(q)
          /\ (w = "chat" /\ n = c) \/ \E l \in 1..Len(q) : i < l /\ Wipes(q[l])
      BY <1>3 DEF TextInv, TextsWiped
    <2>2. CASE \E l \in 1..Len(q) : i < l /\ Wipes(q[l])
      BY <1>4, <2>2
    <2>3. CASE w = "chat" /\ n = c
      <3>1. PICK d \in 1..Len(ms) : Wipes(ms[d])
        BY <2>3
      <3>2. Len(q) + d \in 1..Len(q2) /\ i < Len(q) + d /\ Wipes(q2[Len(q) + d])
        BY <1>1, <2>1, <3>1
      <3> QED
        BY <3>2
    <2> QED
      BY <2>1, <2>2, <2>3
  <1> QED
    BY <1>5, <1>6, <1>7 DEF TextInv
\* The text of the chat the worker is at comes last and is the latest.
LEMMA TextWritten ==
    ASSUME NEW q \in Seq(UiMsg), NEW c \in Nat, NEW q2,
           q2 = Append(q, [type |-> "text", chat |-> c]),
           NEW s, NEW k, TextInv(q, s, k, c, "chat")
    PROVE  TextInv(q2, s, k, c, "chat")
  <1>1. /\ Len(q) \in Nat /\ Len(q2) = Len(q) + 1
        /\ \A i \in 1..Len(q) : q2[i] = q[i]
        /\ q2[Len(q) + 1] = [type |-> "text", chat |-> c]
    OBVIOUS
  <1>2. ASSUME NEW i \in 0..Len(q2), NEW n \in Nat, Shown(q2, s, i, n)
        PROVE  (i \in 0..Len(q) /\ Shown(q, s, i, n)) \/ (i = Len(q) + 1 /\ n = c)
    <2>1. CASE i = 0
      BY <1>1, <1>2, <2>1 DEF Shown
    <2>2. CASE i = Len(q) + 1
      BY <1>1, <1>2, <2>2 DEF Shown
    <2>3. CASE i \in 1..Len(q)
      BY <1>1, <1>2, <2>3 DEF Shown
    <2> QED
      BY <1>1, <2>1, <2>2, <2>3
  <1>3. ASSUME NEW l \in 1..Len(q), Wipes(q[l])
        PROVE  l \in 1..Len(q2) /\ l < Len(q) + 1 /\ Wipes(q2[l])
    BY <1>1, <1>3 DEF Wipes
  <1>4. TextsBounded(q2, s, c)
    <2> SUFFICES ASSUME NEW i \in 0..Len(q2), NEW n \in Nat, Shown(q2, s, i, n) PROVE n <= c
      BY DEF TextsBounded
    <2>1. CASE i \in 0..Len(q) /\ Shown(q, s, i, n)
      BY <2>1 DEF TextInv, TextsBounded
    <2>2. CASE n = c
      BY <2>2
    <2> QED
      BY <1>2, <2>1, <2>2
  <1>5. TextsRise(q2, s)
    <2> SUFFICES ASSUME NEW i \in 0..Len(q2), NEW j \in 0..Len(q2), NEW m \in Nat, NEW n \in Nat,
                        i < j, Shown(q2, s, i, m), Shown(q2, s, j, n)
                 PROVE  m <= n
      BY DEF TextsRise
    <2>1. CASE j = Len(q) + 1 /\ n = c
      BY <1>4, <2>1 DEF TextsBounded
    <2>2. CASE j \in 0..Len(q) /\ Shown(q, s, j, n)
      <3>1. i \in 0..Len(q) /\ Shown(q, s, i, m)
        BY <1>1, <1>2, <2>2
      <3> QED
        BY <2>2, <3>1 DEF TextInv, TextsRise
    <2> QED
      BY <1>2, <2>1, <2>2
  <1>6. TextsWiped(q2, s, k, c, "chat")
    <2> SUFFICES ASSUME NEW i \in 0..Len(q2), NEW n \in Nat \ k, Shown(q2, s, i, n), n # c
                 PROVE  \E l \in 1..Len(q2) : i < l /\ Wipes(q2[l])
      BY DEF TextsWiped
    <2>1. i \in 0..Len(q) /\ Shown(q, s, i, n)
      BY <1>2
    <2>2. PICK l \in 1..Len(q) : i < l /\ Wipes(q[l])
      BY <2>1 DEF TextInv, TextsWiped
    <2> QED
      BY <1>3, <2>2
  <1>7. TextsApart(q2, s, k)
    <2> SUFFICES ASSUME NEW i \in 0..Len(q2), NEW j \in 0..Len(q2), NEW m \in Nat \ k, NEW n \in Nat,
                        i < j, Shown(q2, s, i, m), Shown(q2, s, j, n), m < n
                 PROVE  \E l \in 1..Len(q2) : i < l /\ l < j /\ Wipes(q2[l])
      BY DEF TextsApart
    <2>1. CASE j = Len(q) + 1 /\ n = c
      <3>1. i \in 0..Len(q) /\ Shown(q, s, i, m) /\ m # c
        BY <1>1, <1>2, <2>1
      <3>2. PICK l \in 1..Len(q) : i < l /\ Wipes(q[l])
        BY <3>1 DEF TextInv, TextsWiped
      <3> QED
        BY <1>3, <2>1, <3>2
    <2>2. CASE j \in 0..Len(q) /\ Shown(q, s, j, n)
      <3>1. i \in 0..Len(q) /\ Shown(q, s, i, m)
        BY <1>1, <1>2, <2>2
      <3>2. PICK l \in 1..Len(q) : i < l /\ l < j /\ Wipes(q[l])
        BY <2>2, <3>1 DEF TextInv, TextsApart
      <3> QED
        BY <1>3, <3>2
    <2> QED
      BY <1>2, <2>1, <2>2
  <1> QED
    BY <1>4, <1>5, <1>6, <1>7 DEF TextInv

\* A later chat begins: every text before it is wiped or was cut.
LEMMA TextsOfEarlier ==
    ASSUME NEW q \in Seq(UiMsg), NEW s, NEW k, NEW c \in Nat, NEW c2 \in Nat, c < c2,
           NEW w, w # "chat", TextInv(q, s, k, c, w)
    PROVE  TextInv(q, s, k, c2, "chat")
  <1>1. TextsBounded(q, s, c2)
    BY DEF TextInv, TextsBounded
  <1>2. TextsWiped(q, s, k, c2, "chat")
    BY DEF TextInv, TextsWiped
  <1> QED
    BY <1>1, <1>2 DEF TextInv

\* The first message of the queue reaches the display.
LEMMA TextsReceived ==
    ASSUME NEW q \in Seq(UiMsg), q # <<>>, NEW s, NEW k, NEW c, NEW w, NEW q2, NEW s2,
           q2 = Tail(q), s \subseteq Nat,
           s2 = IF q[1].type = "text" THEN s \union {q[1].chat}
                ELSE IF Wipes(q[1]) THEN {} ELSE s,
           TextInv(q, s, k, c, w)
    PROVE  TextInv(q2, s2, k, c, w)
  <1>1. /\ Len(q) \in Nat /\ 1 <= Len(q) /\ Len(q2) = Len(q) - 1
        /\ \A i \in 1..Len(q2) : i + 1 \in 1..Len(q) /\ q2[i] = q[i + 1]
    OBVIOUS
  <1>2. ASSUME NEW i \in 0..Len(q2), NEW n \in Nat, Shown(q2, s2, i, n)
        PROVE  \E o \in 0..Len(q) : /\ Shown(q, s, o, n)
                                    /\ o = i + 1 \/ (o = 0 /\ i = 0 /\ ~Wipes(q[1]))
    <2>1. CASE i = 0
      <3>1. n \in s2
        BY <1>2, <2>1 DEF Shown
      <3>2. CASE n \in s
        <4>1. ~Wipes(q[1])
          BY <3>1 DEF Wipes
        <4> QED
          BY <1>1, <2>1, <3>2, <4>1 DEF Shown
      <3>3. CASE n \notin s
        <4>1. q[1].type = "text" /\ q[1].chat = n
          BY <3>1, <3>3
        <4> QED
          BY <1>1, <2>1, <4>1 DEF Shown
      <3> QED
        BY <3>2, <3>3
    <2>2. CASE i # 0
      <3>1. i \in 1..Len(q2) /\ i + 1 \in 0..Len(q) /\ i + 1 # 0
        BY <1>1, <2>2
      <3>2. Shown(q, s, i + 1, n)
        BY <1>1, <1>2, <2>2, <3>1 DEF Shown
      <3> QED
        BY <3>1, <3>2
    <2> QED
      BY <2>1, <2>2
  <1>3. ASSUME NEW l \in 1..Len(q), Wipes(q[l]), l # 1
        PROVE  l - 1 \in 1..Len(q2) /\ Wipes(q2[l - 1])
    <2>1. l - 1 \in 1..Len(q2) /\ (l - 1) + 1 = l
      BY <1>1, <1>3
    <2>2. q2[l - 1] = q[l]
      BY <1>1, <2>1
    <2> QED
      BY <1>3, <2>1, <2>2
  <1>4. TextsBounded(q2, s2, c)
    BY <1>2 DEF TextInv, TextsBounded
  <1>5. TextsRise(q2, s2)
    <2> SUFFICES ASSUME NEW i \in 0..Len(q2), NEW j \in 0..Len(q2), NEW m \in Nat, NEW n \in Nat,
                        i < j, Shown(q2, s2, i, m), Shown(q2, s2, j, n)
                 PROVE  m <= n
      BY DEF TextsRise
    <2>1. PICK o \in 0..Len(q) : /\ Shown(q, s, o, m)
                                 /\ o = i + 1 \/ (o = 0 /\ i = 0 /\ ~Wipes(q[1]))
      BY <1>2
    <2>2. PICK p \in 0..Len(q) : Shown(q, s, p, n) /\ p = j + 1
      <3>1. PICK p \in 0..Len(q) : /\ Shown(q, s, p, n)
                                   /\ p = j + 1 \/ (p = 0 /\ j = 0 /\ ~Wipes(q[1]))
        BY <1>2
      <3>2. j # 0
        BY <1>1
      <3> QED
        BY <3>1, <3>2
    <2>3. o < p
      BY <1>1, <2>1, <2>2
    <2> QED
      BY <2>1, <2>2, <2>3 DEF TextInv, TextsRise
  <1>6. TextsWiped(q2, s2, k, c, w)
    <2> SUFFICES ASSUME NEW i \in 0..Len(q2), NEW n \in Nat \ k, Shown(q2, s2, i, n),
                        ~(w = "chat" /\ n = c)
                 PROVE  \E l \in 1..Len(q2) : i < l /\ Wipes(q2[l])
      BY DEF TextsWiped
    <2>1. PICK o \in 0..Len(q) : /\ Shown(q, s, o, n)
                                 /\ o = i + 1 \/ (o = 0 /\ i = 0 /\ ~Wipes(q[1]))
      BY <1>2
    <2>2. PICK l \in 1..Len(q) : o < l /\ Wipes(q[l])
      BY <2>1 DEF TextInv, TextsWiped
    <2>3. l # 1 /\ i < l - 1
      BY <1>1, <2>1, <2>2
    <2> QED
      BY <1>3, <2>2, <2>3
  <1>7. TextsApart(q2, s2, k)
    <2> SUFFICES ASSUME NEW i \in 0..Len(q2), NEW j \in 0..Len(q2), NEW m \in Nat \ k, NEW n \in Nat,
                        i < j, Shown(q2, s2, i, m), Shown(q2, s2, j, n), m < n
                 PROVE  \E l \in 1..Len(q2) : i < l /\ l < j /\ Wipes(q2[l])
      BY DEF TextsApart
    <2>1. PICK o \in 0..Len(q) : /\ Shown(q, s, o, m)
                                 /\ o = i + 1 \/ (o = 0 /\ i = 0 /\ ~Wipes(q[1]))
      BY <1>2
    <2>2. PICK p \in 0..Len(q) : Shown(q, s, p, n) /\ p = j + 1
      <3>1. PICK p \in 0..Len(q) : /\ Shown(q, s, p, n)
                                   /\ p = j + 1 \/ (p = 0 /\ j = 0 /\ ~Wipes(q[1]))
        BY <1>2
      <3>2. j # 0
        BY <1>1
      <3> QED
        BY <3>1, <3>2
    <2>3. o < p
      BY <1>1, <2>1, <2>2
    <2>4. PICK l \in 1..Len(q) : o < l /\ l < p /\ Wipes(q[l])
      BY <2>1, <2>2, <2>3 DEF TextInv, TextsApart
    <2>5. l # 1 /\ i < l - 1 /\ l - 1 < j
      BY <1>1, <2>1, <2>2, <2>4
    <2> QED
      BY <1>3, <2>4, <2>5
  <1>8. OneText(s2, k)
    <2> SUFFICES ASSUME NEW m \in s2 \ k, NEW n \in s2, m < n PROVE FALSE
      BY DEF OneText
    <2>1. m \in Nat /\ n \in Nat /\ q[1].chat \in Nat
      <3>1. q[1] \in UiMsg
        BY <1>1
      <3>2. q[1].chat \in Nat
        BY <3>1 DEF UiMsg
      <3>3. s2 \subseteq Nat
        BY <3>2
      <3> QED
        BY <3>2, <3>3
    <2>2. CASE m \in s /\ n \in s
      BY <2>2 DEF TextInv, OneText
    <2>3. CASE q[1].type = "text" /\ m \in s /\ n = q[1].chat
      <3>1. Shown(q, s, 0, m) /\ Shown(q, s, 1, n) /\ 0 \in 0..Len(q) /\ 1 \in 0..Len(q)
        BY <1>1, <2>3 DEF Shown
      <3>2. PICK l \in 1..Len(q) : 0 < l /\ l < 1
        BY <2>1, <3>1 DEF TextInv, TextsApart
      <3> QED
        BY <3>2
    <2>4. CASE q[1].type = "text" /\ m = q[1].chat /\ n \in s
      <3>1. Shown(q, s, 0, n) /\ Shown(q, s, 1, m) /\ 0 \in 0..Len(q) /\ 1 \in 0..Len(q)
        BY <1>1, <2>4 DEF Shown
      <3>2. n <= m
        BY <2>1, <3>1 DEF TextInv, TextsRise
      <3> QED
        BY <2>1, <3>2
    <2>5. CASE m = n
      BY <2>1, <2>5
    <2> QED
      BY <2>2, <2>3, <2>4, <2>5
  <1> QED
    BY <1>4, <1>5, <1>6, <1>7, <1>8 DEF TextInv
\* Send() appends messages of the given types, none of them text.
LEMMA Sent ==
    ASSUME NEW ms \in Seq(UiTypes \ {"text"}), WindowInv, Window!Send(ms),
           streaming' = streaming, chat' = chat, cut \subseteq cut',
           \/ worker # "chat" \/ worker' = worker \/ chat \in cut'
           \/ \E i \in 1..Len(ms) : ms[i] \in {"done", "error", "session"}
    PROVE  /\ toUi' \in Seq(UiMsg)
           /\ TextInv(toUi', streaming', cut', chat', worker')
           /\ (\E i \in 1..Len(toUi) : Ends(toUi[i])) => \E i \in 1..Len(toUi') : Ends(toUi'[i])
           /\ (\E i \in 1..Len(ms) : ms[i] \in {"ready", "approval", "done", "error"}) =>
                    \E i \in 1..Len(toUi') : Ends(toUi'[i])
  <1>1. toUi \in Seq(UiMsg) /\ TextInv(toUi, streaming, cut, chat, worker)
    BY DEF WindowInv, WindowTypes
  <1>2. PICK w : w = [i \in DOMAIN ms |-> Window!Msg(ms[i])]
    OBVIOUS
  <1>3. DOMAIN ms = 1..Len(ms) /\ Len(ms) \in Nat
    OBVIOUS
  <1>4. \A i \in 1..Len(ms) : w[i] = [type |-> ms[i], chat |-> 0]
    BY <1>2, <1>3 DEF Window!Msg
  <1>5. \A i \in 1..Len(ms) : w[i] \in UiMsg /\ w[i].type = ms[i] /\ ms[i] # "text"
    <2> SUFFICES ASSUME NEW i \in 1..Len(ms)
                 PROVE  w[i] \in UiMsg /\ w[i].type = ms[i] /\ ms[i] # "text"
      OBVIOUS
    <2>1. ms[i] \in UiTypes /\ ms[i] # "text"
      OBVIOUS
    <2>2. [type |-> ms[i], chat |-> 0] \in UiMsg
      BY <2>1 DEF UiMsg
    <2> QED
      BY <1>4, <2>1, <2>2
  <1>6. w \in [1..Len(ms) -> UiMsg]
    BY <1>2, <1>3, <1>5
  <1>7. w \in Seq(UiMsg) /\ Len(w) = Len(ms)
    BY <1>3, <1>6
  <1>8. toUi' = toUi \o w
    BY <1>2 DEF Window!Send
  <1>9. \A i \in 1..Len(w) : w[i].type # "text"
    BY <1>5, <1>7
  <1>10. worker # "chat" \/ worker' = worker \/ chat \in cut' \/ \E i \in 1..Len(w) : Wipes(w[i])
    BY <1>5, <1>7 DEF Wipes
  <1>11. TextInv(toUi', streaming, cut', chat, worker')
    BY <1>1, <1>7, <1>8, <1>9, <1>10, TextsSent
  <1>12. /\ toUi' \in Seq(UiMsg) /\ Len(toUi') = Len(toUi) + Len(w)
         /\ \A i \in 1..Len(toUi) : toUi'[i] = toUi[i]
         /\ \A i \in 1..Len(w) : toUi'[Len(toUi) + i] = w[i]
    BY <1>1, <1>7, <1>8
  <1>13. ASSUME NEW i \in 1..Len(toUi), Ends(toUi[i]) PROVE \E j \in 1..Len(toUi') : Ends(toUi'[j])
    <2>1. i \in 1..Len(toUi') /\ toUi'[i] = toUi[i]
      BY <1>1, <1>7, <1>12
    <2> QED
      BY <1>13, <2>1
  <1>14. ASSUME NEW i \in 1..Len(ms), ms[i] \in {"ready", "approval", "done", "error"}
         PROVE  \E j \in 1..Len(toUi') : Ends(toUi'[j])
    <2>1. Len(toUi) + i \in 1..Len(toUi') /\ toUi'[Len(toUi) + i] = w[i]
      BY <1>1, <1>7, <1>12
    <2>2. Ends(w[i])
      BY <1>5, <1>14 DEF Ends
    <2> QED
      BY <2>1, <2>2
  <1> QED
    BY <1>11, <1>12, <1>13, <1>14

LEMMA WindowStarts == Window!Init => WindowInv
  <1> SUFFICES ASSUME Window!Init PROVE WindowInv
    OBVIOUS
  <1>1. /\ streaming = {} /\ toWorker = <<>> /\ toUi = <<>> /\ worker = "init"
        /\ chat = 0 /\ chats = 0 /\ is_loading = FALSE
    BY DEF Window!Init
  <1>2. WindowTypes /\ ChatInv
    BY <1>1 DEF WindowTypes, ChatInv
  <1>3. LoadingInv
    BY <1>1 DEF LoadingInv
  <1>4. TextInv(toUi, streaming, cut, chat, worker)
    <2>1. \A i \in 0..Len(toUi) : i = 0
      BY <1>1
    <2>2. \A i \in 0..Len(toUi), n \in Nat : ~Shown(toUi, streaming, i, n)
      BY <1>1, <2>1 DEF Shown
    <2> QED
      BY <1>1, <2>2 DEF TextInv, TextsBounded, TextsRise, TextsWiped, TextsApart, OneText
  <1> QED
    BY <1>2, <1>3, <1>4 DEF WindowInv

LEMMA WindowStutters == WindowInv /\ UNCHANGED Window!vars => WindowInv'
  BY DEF WindowInv, WindowTypes, ChatInv, LoadingInv, UnderWay, TextInv, TextsBounded, TextsRise,
         TextsWiped, TextsApart, OneText, Shown, Ends, Wipes,
         Window!vars, Window!window, Window!thread
\* A chat that is sent waits for the worker, behind all others.
LEMMA WindowSubmits == WindowInv /\ Window!SubmitChat => WindowInv'
  <1> SUFFICES ASSUME WindowInv, Window!SubmitChat PROVE WindowInv'
    OBVIOUS
  <1>1. /\ chats' = chats + 1
        /\ UNCHANGED <<streaming, toUi, worker, chat, pendingTools, cut>>
    BY DEF Window!SubmitChat, Window!thread
  <1>2. IF worker = "ended" THEN toWorker' = toWorker
        ELSE toWorker' = Append(toWorker, [type |-> "chat", chat |-> chats + 1])
    BY DEF Window!SubmitChat, Window!Ask
  <1>3. /\ toWorker \in Seq(AskMsg) /\ toUi \in Seq(UiMsg) /\ chat \in Nat /\ chats \in Nat
        /\ worker \in {"init", "recv", "chat", "ended"} /\ streaming \in SUBSET Nat
    BY DEF WindowInv, WindowTypes
  <1>4. ChatInv
    BY DEF WindowInv
  <1>5. TextInv(toUi, streaming, cut, chat, worker)'
    BY <1>1 DEF WindowInv
  <1>0. \A i \in 1..Len(toWorker) : toWorker[i].chat \in Nat
    <2>1. \A i \in 1..Len(toWorker) : toWorker[i] \in AskMsg
      BY <1>3
    <2> QED
      BY <2>1 DEF AskMsg
  <1>8. \A i \in 1..Len(toWorker) : toWorker[i].type = "chat" =>
            chat < toWorker[i].chat /\ toWorker[i].chat <= chats
    BY <1>4 DEF ChatInv
  <1>6. CASE worker = "ended"
    <2>0. chat <= chats + 1 /\ \A i \in 1..Len(toWorker) : toWorker[i].type = "chat" =>
            toWorker[i].chat <= chats + 1
      BY <1>0, <1>3, <1>4, <1>8 DEF ChatInv
    <2>1. WindowTypes' /\ ChatInv'
      <3>1. WindowTypes'
        BY <1>1, <1>2, <1>3, <1>6 DEF WindowTypes
      <3>2. toWorker' = toWorker /\ worker' # "chat" /\ chat' = chat
        BY <1>1, <1>2, <1>6
      <3>3. ChatInv'
        BY <1>1, <1>4, <2>0, <3>2 DEF ChatInv
      <3> QED
        BY <3>1, <3>3
    <2>2. LoadingInv'
      BY <1>1, <1>6 DEF LoadingInv
    <2> QED
      BY <1>5, <2>1, <2>2 DEF WindowInv
  <1>7. CASE worker # "ended"
    <2>1. PICK m \in AskMsg : m.type = "chat" /\ m.chat = chats + 1 /\ toWorker' = Append(toWorker, m)
      <3>1. [type |-> "chat", chat |-> chats + 1] \in AskMsg
        BY <1>3 DEF AskMsg
      <3> QED
        BY <1>2, <1>7, <3>1
    <2>2. /\ toWorker' \in Seq(AskMsg) /\ Len(toWorker) \in Nat
          /\ Len(toWorker') = Len(toWorker) + 1
          /\ \A i \in 1..Len(toWorker) : toWorker'[i] = toWorker[i]
          /\ toWorker'[Len(toWorker) + 1] = m
      BY <1>3, <2>1
    <2>3. \A i \in 1..Len(toWorker') : i \in 1..Len(toWorker) \/ i = Len(toWorker) + 1
      BY <2>2
    <2>4. \A i \in 1..Len(toWorker') : toWorker'[i].type = "chat" =>
                chat < toWorker'[i].chat /\ toWorker'[i].chat <= chats + 1
      <3> SUFFICES ASSUME NEW i \in 1..Len(toWorker'), toWorker'[i].type = "chat"
                   PROVE  chat < toWorker'[i].chat /\ toWorker'[i].chat <= chats + 1
        OBVIOUS
      <3>1. CASE i \in 1..Len(toWorker)
        <4>1. chat < toWorker[i].chat /\ toWorker[i].chat <= chats /\ toWorker[i].chat \in Nat
          BY <1>0, <1>8, <2>2, <3>1
        <4> QED
          BY <1>3, <2>2, <3>1, <4>1
      <3>2. CASE i = Len(toWorker) + 1
        BY <1>3, <1>4, <2>1, <2>2, <3>2 DEF ChatInv
      <3> QED
        BY <2>3, <3>1, <3>2
    <2>5. \A i, j \in 1..Len(toWorker') :
            toWorker'[i].type = "chat" /\ toWorker'[j].type = "chat" /\ i < j =>
                toWorker'[i].chat < toWorker'[j].chat
      <3> SUFFICES ASSUME NEW i \in 1..Len(toWorker'), NEW j \in 1..Len(toWorker'),
                          toWorker'[i].type = "chat", toWorker'[j].type = "chat", i < j
                   PROVE  toWorker'[i].chat < toWorker'[j].chat
        OBVIOUS
      <3>1. i \in 1..Len(toWorker) /\ toWorker'[i] = toWorker[i]
        BY <2>2, <2>3
      <3>2. CASE j \in 1..Len(toWorker)
        BY <1>4, <2>2, <3>1, <3>2 DEF ChatInv
      <3>3. CASE j = Len(toWorker) + 1
        <4>1. toWorker[i].chat <= chats /\ toWorker[i].chat \in Nat
          BY <1>0, <1>8, <3>1
        <4> QED
          BY <1>3, <2>1, <2>2, <3>1, <3>3, <4>1
      <3> QED
        BY <2>3, <3>2, <3>3
    <2>6. ChatInv'
      <3>1. chat' <= chats'
        BY <1>1, <1>3, <1>4 DEF ChatInv
      <3>2. worker' = "chat" => pendingTools' = FALSE
        BY <1>1, <1>4 DEF ChatInv
      <3> QED
        BY <1>1, <2>4, <2>5, <3>1, <3>2 DEF ChatInv
    <2>7. WindowTypes'
      BY <1>1, <1>3, <2>2 DEF WindowTypes
    <2>8. LoadingInv'
      <3>1. \E i \in 1..Len(toWorker') : toWorker'[i].type = "chat"
        BY <2>1, <2>2
      <3> QED
        BY <3>1 DEF LoadingInv, UnderWay
    <2> QED
      BY <1>5, <2>6, <2>7, <2>8 DEF WindowInv
  <1> QED
    BY <1>6, <1>7

LEMMA WindowClicks == WindowInv /\ Window!Click => WindowInv'
  <1> SUFFICES ASSUME WindowInv, Window!Click PROVE WindowInv'
    OBVIOUS
  <1>1. UNCHANGED <<is_loading, streaming, toUi, worker, chat, pendingTools, chats, cut>>
    BY DEF Window!Click, Window!thread
  <1>2. PICK r \in Window!Requests : IF worker = "ended" THEN toWorker' = toWorker
                                     ELSE toWorker' = Append(toWorker, [type |-> r, chat |-> 0])
    BY DEF Window!Click, Window!Ask, Window!Msg, Window!Offered, Window!Requests
  <1>3. /\ toWorker \in Seq(AskMsg) /\ toUi \in Seq(UiMsg) /\ chat \in Nat /\ chats \in Nat
        /\ worker \in {"init", "recv", "chat", "ended"} /\ streaming \in SUBSET Nat
    BY DEF WindowInv, WindowTypes
  <1>4. ChatInv /\ LoadingInv
    BY DEF WindowInv
  <1>5. TextInv(toUi, streaming, cut, chat, worker)'
    BY <1>1 DEF WindowInv
  <1>6. CASE toWorker' = toWorker
    <2>1. WindowTypes' /\ ChatInv'
      BY <1>1, <1>3, <1>4, <1>6 DEF WindowTypes, ChatInv
    <2>2. LoadingInv'
      BY <1>1, <1>4, <1>6 DEF LoadingInv, UnderWay
    <2> QED
      BY <1>5, <2>1, <2>2 DEF WindowInv
  <1>7. CASE toWorker' = Append(toWorker, [type |-> r, chat |-> 0])
    <2>1. PICK m \in AskMsg : m.type # "chat" /\ toWorker' = Append(toWorker, m)
      <3>1. [type |-> r, chat |-> 0] \in AskMsg /\ r # "chat"
        BY DEF AskMsg, Window!Requests
      <3> QED
        BY <1>7, <3>1
    <2>2. /\ toWorker' \in Seq(AskMsg) /\ Len(toWorker) \in Nat
          /\ Len(toWorker') = Len(toWorker) + 1
          /\ \A i \in 1..Len(toWorker) : toWorker'[i] = toWorker[i]
          /\ toWorker'[Len(toWorker) + 1] = m
      BY <1>3, <2>1
    <2>3. \A i \in 1..Len(toWorker') : i \in 1..Len(toWorker) \/ i = Len(toWorker) + 1
      BY <2>2
    <2>4. \A i \in 1..Len(toWorker') : toWorker'[i].type = "chat" =>
                i \in 1..Len(toWorker) /\ toWorker'[i] = toWorker[i]
      BY <2>1, <2>2, <2>3
    <2>5. WindowTypes'
      BY <1>1, <1>3, <2>2 DEF WindowTypes
    <2>6. ChatInv'
      BY <1>1, <1>4, <2>4 DEF ChatInv
    <2>7. UnderWay => UnderWay'
      <3>1. \A i \in 1..Len(toWorker) : i \in 1..Len(toWorker')
        BY <2>2
      <3> QED
        BY <1>1, <2>2, <3>1 DEF UnderWay
    <2>8. LoadingInv'
      BY <1>1, <1>4, <2>7 DEF LoadingInv
    <2> QED
      BY <1>5, <2>5, <2>6, <2>8 DEF WindowInv
  <1> QED
    BY <1>2, <1>6, <1>7
LEMMA WindowDismisses == WindowInv /\ Window!Dismiss => WindowInv'
  BY DEF WindowInv, WindowTypes, ChatInv, LoadingInv, UnderWay, TextInv, TextsBounded, TextsRise,
         TextsWiped, TextsApart, OneText, Shown, Ends, Wipes, Window!Dismiss, Window!thread

\* A message that does not end the waiting leaves behind it the one that will.
LEMMA WindowReceives == WindowInv /\ Window!Receive => WindowInv'
  <1> SUFFICES ASSUME WindowInv, Window!Receive PROVE WindowInv'
    OBVIOUS
  <1>1. /\ toUi # <<>> /\ toUi' = Tail(toUi)
        /\ UNCHANGED <<toWorker, worker, chat, pendingTools, chats, cut>>
    BY DEF Window!Receive, Window!thread
  <1>2. is_loading' = (is_loading /\ Head(toUi).type \notin {"ready", "approval", "done", "error"})
    BY DEF Window!Receive, Window!HandleWorkerMessage
  <1>3. streaming' = CASE Head(toUi).type = "text" -> streaming \union {Head(toUi).chat}
                       [] Head(toUi).type \in {"done", "error", "session"} -> {}
                       [] OTHER -> streaming
    BY DEF Window!Receive, Window!HandleWorkerMessage
  <1>4. /\ toWorker \in Seq(AskMsg) /\ toUi \in Seq(UiMsg) /\ chat \in Nat /\ chats \in Nat
        /\ worker \in {"init", "recv", "chat", "ended"} /\ streaming \in SUBSET Nat
    BY DEF WindowInv, WindowTypes
  <1>5. /\ Head(toUi) = toUi[1] /\ toUi[1] \in UiMsg
        /\ toUi' \in Seq(UiMsg) /\ Len(toUi) \in Nat /\ Len(toUi') = Len(toUi) - 1
        /\ \A i \in 1..Len(toUi') : toUi'[i] = toUi[i + 1]
    BY <1>1, <1>4
  <1>6. streaming' = IF toUi[1].type = "text" THEN streaming \union {toUi[1].chat}
                     ELSE IF Wipes(toUi[1]) THEN {} ELSE streaming
    <2>1. CASE toUi[1].type = "text"
      BY <1>3, <1>5, <2>1
    <2>2. CASE toUi[1].type # "text" /\ toUi[1].type \in {"done", "error", "session"}
      BY <1>3, <1>5, <2>2 DEF Wipes
    <2>3. CASE toUi[1].type # "text" /\ toUi[1].type \notin {"done", "error", "session"}
      BY <1>3, <1>5, <2>3 DEF Wipes
    <2> QED
      BY <2>1, <2>2, <2>3
  <1>7. TextInv(toUi', streaming', cut, chat, worker)
    <2>1. TextInv(toUi, streaming, cut, chat, worker) /\ streaming \subseteq Nat
      BY <1>4 DEF WindowInv
    <2> QED
      BY <1>1, <1>4, <1>6, <2>1, TextsReceived
  <1>8. WindowTypes' /\ ChatInv'
    <2>1. toUi[1].chat \in Nat
      BY <1>5 DEF UiMsg
    <2>2. streaming' \in SUBSET Nat
      BY <1>4, <1>6, <2>1
    <2>3. WindowTypes'
      BY <1>1, <1>4, <1>5, <2>2 DEF WindowTypes
    <2>4. ChatInv'
      BY <1>1 DEF WindowInv, ChatInv
    <2> QED
      BY <2>3, <2>4
  <1>9. LoadingInv'
    <2> SUFFICES ASSUME is_loading', cut = {}, worker # "ended" PROVE UnderWay'
      BY <1>1 DEF LoadingInv
    <2>1. is_loading /\ ~Ends(toUi[1])
      BY <1>2, <1>5, Zenon DEF Ends
    <2>2. UnderWay
      BY <2>1 DEF WindowInv, LoadingInv
    <2>3. CASE \E i \in 1..Len(toUi) : Ends(toUi[i])
      <3>1. PICK i \in 1..Len(toUi) : Ends(toUi[i])
        BY <2>3
      <3>2. i # 1
        BY <2>1, <3>1
      <3>3. i - 1 \in 1..Len(toUi') /\ (i - 1) + 1 = i
        BY <1>5, <3>2
      <3>4. Ends(toUi'[i - 1])
        BY <1>5, <3>1, <3>3
      <3> QED
        BY <3>3, <3>4 DEF UnderWay
    <2>4. CASE worker = "chat" \/ \E i \in 1..Len(toWorker) : toWorker[i].type = "chat"
      BY <1>1, <2>4 DEF UnderWay
    <2> QED
      BY <2>2, <2>3, <2>4 DEF UnderWay
  <1> QED
    BY <1>1, <1>7, <1>8, <1>9 DEF WindowInv

LEMMA WorkerStarts == WindowInv /\ Window!Start => WindowInv'
  <1> SUFFICES ASSUME WindowInv, Window!Start PROVE WindowInv'
    OBVIOUS
  <1>1. /\ worker = "init" /\ worker' = "recv"
        /\ UNCHANGED <<is_loading, streaming, toWorker, chat, pendingTools, chats, cut>>
    BY DEF Window!Start, Window!window
  <1>2. PICK ms \in Seq(UiTypes \ {"text"}) : Window!Send(ms)
    <2>1. PICK ok \in BOOLEAN :
            Window!Send(<<"ready">> \o (IF ok THEN <<"sessions">> ELSE <<>>) \o <<"status">>)
      BY DEF Window!Start
    <2>2. /\ <<"ready">> \in Seq(UiTypes \ {"text"}) /\ <<"sessions">> \in Seq(UiTypes \ {"text"})
          /\ <<>> \in Seq(UiTypes \ {"text"}) /\ <<"status">> \in Seq(UiTypes \ {"text"})
      BY DEF UiTypes
    <2>3. (IF ok THEN <<"sessions">> ELSE <<>>) \in Seq(UiTypes \ {"text"})
      BY <2>2
    <2>4. <<"ready">> \o (IF ok THEN <<"sessions">> ELSE <<>>) \o <<"status">>
                \in Seq(UiTypes \ {"text"})
      BY <2>2, <2>3
    <2> QED
      BY <2>1, <2>4
  <1>3. /\ toUi' \in Seq(UiMsg) /\ TextInv(toUi', streaming', cut', chat', worker')
        /\ (\E i \in 1..Len(toUi) : Ends(toUi[i])) => \E i \in 1..Len(toUi') : Ends(toUi'[i])
    BY <1>1, <1>2, Sent
  <1>4. WindowTypes'
    BY <1>1, <1>3 DEF WindowInv, WindowTypes
  <1>5. ChatInv'
    BY <1>1 DEF WindowInv, ChatInv
  <1>6. UnderWay => UnderWay'
    BY <1>1, <1>3 DEF UnderWay
  <1>7. LoadingInv'
    BY <1>1, <1>6 DEF WindowInv, LoadingInv
  <1> QED
    BY <1>3, <1>4, <1>5, <1>7 DEF WindowInv

LEMMA WorkerStartFails == WindowInv /\ Window!StartFails => WindowInv'
  <1> SUFFICES ASSUME WindowInv, Window!StartFails PROVE WindowInv'
    OBVIOUS
  <1>1. /\ worker = "init" /\ worker' = "ended" /\ toWorker' = <<>>
        /\ UNCHANGED <<is_loading, streaming, toUi, chat, pendingTools, chats, cut>>
    BY DEF Window!StartFails, Window!window
  <1>2. TextInv(toUi', streaming', cut', chat', worker')
    BY <1>1 DEF WindowInv, TextInv, TextsWiped
  <1>3. WindowTypes' /\ ChatInv' /\ LoadingInv'
    BY <1>1 DEF WindowInv, WindowTypes, ChatInv, LoadingInv
  <1> QED
    BY <1>2, <1>3 DEF WindowInv

\* The rest of the worker's queue is in order as the whole was.
LEMMA QueueAdvances ==
    ASSUME WindowInv, toWorker # <<>>, toWorker' = Tail(toWorker)
    PROVE  /\ toWorker' \in Seq(AskMsg) /\ Head(toWorker) = toWorker[1] /\ toWorker[1] \in AskMsg
           /\ 1 \in 1..Len(toWorker)
           /\ \A i \in 1..Len(toWorker') : i + 1 \in 1..Len(toWorker) /\ 1 < i + 1
                                             /\ toWorker'[i] = toWorker[i + 1]
           /\ \A i, j \in 1..Len(toWorker') : i < j => i + 1 < j + 1
           /\ \A i \in 1..Len(toWorker) : i # 1 => \E j \in 1..Len(toWorker') :
                    toWorker'[j] = toWorker[i]
  <1>1. toWorker \in Seq(AskMsg) /\ Len(toWorker) \in Nat
    BY DEF WindowInv, WindowTypes
  <1>2. /\ toWorker' \in Seq(AskMsg) /\ Head(toWorker) = toWorker[1]
        /\ toWorker[1] \in AskMsg /\ 1 \in 1..Len(toWorker)
        /\ Len(toWorker') = Len(toWorker) - 1
        /\ \A i \in 1..Len(toWorker') : toWorker'[i] = toWorker[i + 1]
    BY <1>1
  <1>3. \A i \in 1..Len(toWorker') : i + 1 \in 1..Len(toWorker) /\ 1 < i + 1
    BY <1>1, <1>2
  <1>4. \A i, j \in 1..Len(toWorker') : i < j => i + 1 < j + 1
    BY <1>2
  <1>5. ASSUME NEW i \in 1..Len(toWorker), i # 1
        PROVE  \E j \in 1..Len(toWorker') : toWorker'[j] = toWorker[i]
    <2>1. i - 1 \in 1..Len(toWorker') /\ (i - 1) + 1 = i
      BY <1>1, <1>2, <1>5
    <2> QED
      BY <1>2, <2>1
  <1> QED
    BY <1>2, <1>3, <1>4, <1>5
LEMMA RepliesPlain ==
    ASSUME NEW r \in Window!Requests, NEW ok \in BOOLEAN
    PROVE  Window!Replies(r, ok) \in Seq(UiTypes \ {"text"})
  <1>1. /\ <<"session", "status">> \in Seq(UiTypes \ {"text"})
        /\ <<"system", "status">> \in Seq(UiTypes \ {"text"})
        /\ \A t \in UiTypes \ {"text"} : <<t>> \in Seq(UiTypes \ {"text"})
        /\ <<>> \in Seq(UiTypes \ {"text"})
    BY DEF UiTypes
  <1>2. {"error", "done", "sessions", "status", "system"} \subseteq UiTypes \ {"text"}
    BY DEF UiTypes
  <1>3. CASE r \in {"new", "resume"}
    BY <1>1, <1>2, <1>3 DEF Window!Replies
  <1>4. CASE r \in {"approve", "deny"}
    BY <1>1, <1>2, <1>4 DEF Window!Replies
  <1>5. CASE r \in {"sessions", "status", "command"}
    BY <1>1, <1>2, <1>5 DEF Window!Replies
  <1>6. CASE r \in {"compact", "showStatus"}
    BY <1>1, <1>2, <1>6 DEF Window!Replies
  <1> QED
    BY <1>3, <1>4, <1>5, <1>6 DEF Window!Requests

LEMMA WorkerServes == WindowInv /\ Window!Serve => WindowInv'
  <1> SUFFICES ASSUME WindowInv, Window!Serve PROVE WindowInv'
    OBVIOUS
  <1>1. /\ worker = "recv" /\ toWorker # <<>> /\ Head(toWorker).type # "chat"
        /\ toWorker' = Tail(toWorker)
        /\ UNCHANGED <<is_loading, streaming, worker, chat, pendingTools, chats, cut>>
    BY DEF Window!Serve, Window!window, Window!thread
  <1>2. /\ toWorker' \in Seq(AskMsg) /\ Head(toWorker) = toWorker[1] /\ toWorker[1] \in AskMsg
        /\ \A i \in 1..Len(toWorker') : i + 1 \in 1..Len(toWorker) /\ toWorker'[i] = toWorker[i + 1]
        /\ \A i, j \in 1..Len(toWorker') : i < j => i + 1 < j + 1
        /\ \A i \in 1..Len(toWorker) : i # 1 => \E j \in 1..Len(toWorker') :
                toWorker'[j] = toWorker[i]
    BY <1>1, QueueAdvances
  <1>3. PICK ms \in Seq(UiTypes \ {"text"}) : Window!Send(ms)
    <2>1. PICK ok \in BOOLEAN : Window!Send(Window!Replies(Head(toWorker).type, ok))
      BY DEF Window!Serve
    <2>2. Head(toWorker).type \in Window!Requests
      BY <1>1, <1>2 DEF AskMsg
    <2>3. Window!Replies(Head(toWorker).type, ok) \in Seq(UiTypes \ {"text"})
      BY <2>2, RepliesPlain
    <2> QED
      BY <2>1, <2>3
  <1>4. /\ toUi' \in Seq(UiMsg) /\ TextInv(toUi', streaming', cut', chat', worker')
        /\ (\E i \in 1..Len(toUi) : Ends(toUi[i])) => \E i \in 1..Len(toUi') : Ends(toUi'[i])
    BY <1>1, <1>3, Sent
  <1>5. WindowTypes'
    BY <1>1, <1>2, <1>4 DEF WindowInv, WindowTypes
  <1>6. ChatInv'
    BY <1>1, <1>2 DEF WindowInv, ChatInv
  <1>7. UnderWay => UnderWay'
    <2>1. ASSUME NEW i \in 1..Len(toWorker), toWorker[i].type = "chat"
          PROVE  \E j \in 1..Len(toWorker') : toWorker'[j].type = "chat"
      <3>1. i # 1
        BY <1>1, <1>2, <2>1
      <3>2. PICK j \in 1..Len(toWorker') : toWorker'[j] = toWorker[i]
        BY <1>2, <3>1
      <3> QED
        BY <2>1, <3>2
    <2> QED
      BY <1>1, <1>4, <2>1 DEF UnderWay
  <1>8. LoadingInv'
    BY <1>1, <1>7 DEF WindowInv, LoadingInv
  <1> QED
    BY <1>4, <1>5, <1>6, <1>8 DEF WindowInv

LEMMA ChatBegins == WindowInv /\ Window!ChatBegin => WindowInv'
  <1> SUFFICES ASSUME WindowInv, Window!ChatBegin PROVE WindowInv'
    OBVIOUS
  <1>1. /\ worker = "recv" /\ toWorker # <<>> /\ Head(toWorker).type = "chat"
        /\ worker' = "chat" /\ chat' = Head(toWorker).chat /\ pendingTools' = FALSE
        /\ toWorker' = Tail(toWorker)
        /\ UNCHANGED <<is_loading, streaming, toUi, chats, cut>>
    BY DEF Window!ChatBegin, Window!window
  <1>2. /\ toWorker' \in Seq(AskMsg) /\ Head(toWorker) = toWorker[1] /\ toWorker[1] \in AskMsg
        /\ 1 \in 1..Len(toWorker)
        /\ \A i \in 1..Len(toWorker') : i + 1 \in 1..Len(toWorker) /\ 1 < i + 1
                                          /\ toWorker'[i] = toWorker[i + 1]
        /\ \A i, j \in 1..Len(toWorker') : i < j => i + 1 < j + 1
    BY <1>1, QueueAdvances
  <1>3. toWorker[1].type = "chat" /\ toWorker[1].chat \in Nat
    BY <1>1, <1>2 DEF AskMsg
  <1>4. /\ chat < toWorker[1].chat /\ toWorker[1].chat <= chats
        /\ \A j \in 1..Len(toWorker) :
            1 < j /\ toWorker[j].type = "chat" => toWorker[1].chat < toWorker[j].chat
    BY <1>2, <1>3 DEF WindowInv, ChatInv
  <1>5. TextInv(toUi', streaming', cut', chat', worker')
    <2>1. toUi \in Seq(UiMsg) /\ chat \in Nat /\ TextInv(toUi, streaming, cut, chat, worker)
      BY DEF WindowInv, WindowTypes
    <2>2. worker # "chat"
      BY <1>1
    <2>3. TextInv(toUi, streaming, cut, toWorker[1].chat, "chat")
      BY <1>3, <1>4, <2>1, <2>2, TextsOfEarlier
    <2> QED
      BY <1>1, <1>2, <2>3
  <1>6. WindowTypes'
    BY <1>1, <1>2, <1>3 DEF WindowInv, WindowTypes
  <1>7. ChatInv'
    <2>1. \A i \in 1..Len(toWorker') : toWorker'[i].type = "chat" =>
            chat' < toWorker'[i].chat /\ toWorker'[i].chat <= chats'
      BY <1>1, <1>2, <1>4 DEF WindowInv, ChatInv
    <2>2. \A i, j \in 1..Len(toWorker') :
            toWorker'[i].type = "chat" /\ toWorker'[j].type = "chat" /\ i < j =>
                toWorker'[i].chat < toWorker'[j].chat
      BY <1>2 DEF WindowInv, ChatInv
    <2>3. chat' <= chats'
      BY <1>1, <1>2, <1>4
    <2> QED
      BY <1>1, <2>1, <2>2, <2>3 DEF ChatInv
  <1>8. LoadingInv'
    BY <1>1 DEF LoadingInv, UnderWay
  <1> QED
    BY <1>5, <1>6, <1>7, <1>8 DEF WindowInv

LEMMA ChatEvents == WindowInv /\ Window!ChatEvent => WindowInv'
  <1> SUFFICES ASSUME WindowInv, Window!ChatEvent PROVE WindowInv'
    OBVIOUS
  <1>1. /\ worker = "chat"
        /\ UNCHANGED <<is_loading, streaming, toWorker, worker, chat, pendingTools, chats, cut>>
    BY DEF Window!ChatEvent, Window!window
  <1>2. PICK t \in {"text", "toolStart", "toolEnd"} :
            toUi' = Append(toUi, [type |-> t, chat |-> chat])
    BY DEF Window!ChatEvent
  <1>3. toUi \in Seq(UiMsg) /\ chat \in Nat /\ TextInv(toUi, streaming, cut, chat, worker)
    BY DEF WindowInv, WindowTypes
  <1>4. [type |-> t, chat |-> chat] \in UiMsg
    BY <1>3 DEF UiMsg, UiTypes
  <1>5. toUi' \in Seq(UiMsg)
    BY <1>2, <1>3, <1>4
  <1>6. TextInv(toUi', streaming, cut, chat, worker)
    <2>1. CASE t = "text"
      BY <1>1, <1>2, <1>3, <2>1, TextWritten
    <2>2. CASE t # "text"
      <3>1. PICK ms \in Seq(UiMsg) : ms = <<[type |-> t, chat |-> chat]>>
        <4>1. <<[type |-> t, chat |-> chat]>> \in Seq(UiMsg)
          BY <1>4
        <4> QED
          BY <4>1, Zenon
      <3>2. toUi' = toUi \o ms /\ \A i \in 1..Len(ms) : ms[i].type # "text"
        BY <1>2, <1>3, <1>4, <2>2, <3>1
      <3>3. worker # "chat" \/ worker = worker \/ chat \in cut \/ \E i \in 1..Len(ms) : Wipes(ms[i])
        OBVIOUS
      <3> QED
        BY <1>3, <3>2, <3>3, TextsSent
    <2> QED
      BY <2>1, <2>2
  <1>7. WindowTypes'
    BY <1>1, <1>5 DEF WindowInv, WindowTypes
  <1>8. ChatInv'
    BY <1>1 DEF WindowInv, ChatInv
  <1>9. LoadingInv'
    BY <1>1 DEF LoadingInv, UnderWay
  <1> QED
    BY <1>1, <1>6, <1>7, <1>8, <1>9 DEF WindowInv

LEMMA ChatCuts == WindowInv /\ Window!ChatCut => WindowInv'
  <1> SUFFICES ASSUME WindowInv, Window!ChatCut PROVE WindowInv'
    OBVIOUS
  <1>1. /\ worker' = "recv" /\ cut' = cut \union {chat}
        /\ UNCHANGED <<streaming, toWorker, chat, chats>>
    BY DEF Window!ChatCut, Window!window
  <1>2. PICK ms \in Seq(UiTypes \ {"text"}) : Window!Send(ms)
    <2>1. <<"toolStart">> \in Seq(UiTypes \ {"text"})
      BY DEF UiTypes
    <2> QED
      BY <2>1 DEF Window!ChatCut
  <1>3. toUi' \in Seq(UiMsg) /\ TextInv(toUi', streaming', cut', chat', worker')
    <2>1. chat \in cut' /\ cut \subseteq cut'
      BY <1>1
    <2> QED
      BY <1>1, <1>2, <2>1, Sent
  <1>4. WindowTypes'
    BY <1>1, <1>3 DEF WindowInv, WindowTypes
  <1>5. ChatInv'
    BY <1>1 DEF WindowInv, ChatInv
  <1>6. LoadingInv'
    BY <1>1 DEF LoadingInv
  <1> QED
    BY <1>3, <1>4, <1>5, <1>6 DEF WindowInv

\* The last message of a chat that was not cut ends the waiting and wipes its text.
LEMMA ChatEnds == WindowInv /\ (Window!ChatDone \/ Window!ChatFails) => WindowInv'
  <1> SUFFICES ASSUME WindowInv, Window!ChatDone \/ Window!ChatFails PROVE WindowInv'
    OBVIOUS
  <1>1. /\ worker = "chat" /\ worker' = "recv"
        /\ UNCHANGED <<is_loading, streaming, toWorker, chat, pendingTools, chats, cut>>
    BY DEF Window!ChatDone, Window!ChatFails, Window!window
  <1>2. PICK t \in {"done", "error"} : Window!Send(<<t>>)
    <2>1. pendingTools = FALSE
      BY <1>1 DEF WindowInv, ChatInv
    <2> QED
      BY <2>1 DEF Window!ChatDone, Window!ChatFails
  <1>3. PICK ms \in Seq(UiTypes \ {"text"}) : ms = <<t>>
    <2>1. <<t>> \in Seq(UiTypes \ {"text"})
      BY DEF UiTypes
    <2> QED
      BY <2>1, Zenon
  <1>4. 1 \in 1..Len(ms) /\ ms[1] \in {"done", "error"}
    BY <1>3
  <1>5. /\ toUi' \in Seq(UiMsg) /\ TextInv(toUi', streaming', cut', chat', worker')
        /\ (\E i \in 1..Len(ms) : ms[i] \in {"ready", "approval", "done", "error"}) =>
                \E i \in 1..Len(toUi') : Ends(toUi'[i])
    <2>1. \E i \in 1..Len(ms) : ms[i] \in {"done", "error", "session"}
      BY <1>4
    <2>2. Window!Send(ms) /\ cut \subseteq cut'
      BY <1>1, <1>2, <1>3
    <2> QED
      BY <1>1, <2>1, <2>2, Sent
  <1>6. \E i \in 1..Len(toUi') : Ends(toUi'[i])
    BY <1>4, <1>5
  <1>7. WindowTypes'
    BY <1>1, <1>5 DEF WindowInv, WindowTypes
  <1>8. ChatInv'
    BY <1>1 DEF WindowInv, ChatInv
  <1>9. LoadingInv'
    BY <1>6 DEF LoadingInv, UnderWay
  <1> QED
    BY <1>5, <1>7, <1>8, <1>9 DEF WindowInv

LEMMA WindowInductive == WindowInv /\ [Window!Next]_(Window!vars) => WindowInv'
  BY WindowStutters, WindowSubmits, WindowClicks, WindowDismisses, WindowReceives, WorkerStarts,
     WorkerStartFails, WorkerServes, ChatBegins, ChatEvents, ChatCuts, ChatEnds
     DEF Window!Next

\* The window is not left waiting: whatever requests, errors and chats cross on the
\* two channels, when the worker and both channels are at rest the input is enabled,
\* unless a chat stopped at a tool that needs approval or the worker never came up.
THEOREM WindowNotLeftWaiting == Window!Spec => []LoadingAccounted
  <1>1. WindowInv => LoadingAccounted
    <2> SUFFICES ASSUME WindowInv, worker \in {"recv", "ended"}, toWorker = <<>>, toUi = <<>>,
                        is_loading
                 PROVE  cut # {} \/ worker = "ended"
      BY DEF LoadingAccounted, Window!LoadingAccounted, Window!AtRest
    <2>1. ~UnderWay \/ worker = "ended"
      BY DEF UnderWay
    <2> QED
      BY <2>1 DEF WindowInv, LoadingInv
  <1> QED
    BY <1>1, WindowStarts, WindowInductive, PTL DEF Window!Spec

\* streaming_content never mixes the texts of two chats, but for the rest of one that
\* stopped at a tool that needs approval.
THEOREM TextsNeverMixed == Window!Spec => []OneAnswerShown
  <1>1. WindowInv => OneAnswerShown
    <2> SUFFICES ASSUME WindowInv, NEW c \in streaming, NEW d \in streaming, d > c PROVE c \in cut
      BY DEF OneAnswerShown, Window!OneAnswerShown
    <2>1. c \in Nat /\ d \in Nat
      BY DEF WindowInv, WindowTypes
    <2>2. c < d
      BY <2>1
    <2> QED
      BY <2>2 DEF WindowInv, TextInv, OneText
  <1> QED
    BY <1>1, WindowStarts, WindowInductive, PTL DEF Window!Spec
=============================================================================
