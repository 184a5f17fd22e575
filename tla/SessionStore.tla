---------------------------- MODULE SessionStore ----------------------------
(***************************************************************************)
(* agent/session_store.rs: sessions.json, shared by every process of an    *)
(* agent (the daemon, chats, the desktop application).  An update takes an *)
(* advisory lock on sessions.json.lock, reads the file again, changes one  *)
(* entry, writes a temporary file and renames it into place.  Processes    *)
(* may die at any step, and a write may fail.                              *)
(*                                                                         *)
(* Two entries are used: that of the session a command line provider       *)
(* resumes (agent/providers.rs), and that of the heartbeat, which is kept  *)
(* to tell duplicate alerts (heartbeat/runner.rs).                         *)
(***************************************************************************)
EXTENDS Naturals

CONSTANTS
    Procs,      \* tasks and processes that use the store
    Ids,        \* session ids of the command line provider
    Texts,      \* alerts of the heartbeat
    MaxDays,    \* bound: days that pass
    None        \* an absent value

ASSUME StoreAssumption == MaxDays \in Nat /\ None \notin Procs

Keys == {"main", "heartbeat"}
Entries == [cli : Ids \union {None}, legacy : Ids \union {None}, beat : Texts \union {None},
            sentAt : 0..MaxDays]
Jobs == ({"main"} \X Ids) \union ({"heartbeat"} \X Texts)

VARIABLES
    day,        \* the clock, in days
    file,       \* the entries in sessions.json
    flock,      \* the holder of the lock on sessions.json.lock, or None
    pc,         \* where each process is
    job,        \* the entry it changes and the value it sets, or None
    copy        \* SessionStore::entries of each process; then its temporary file

vars == <<day, file, flock, pc, job, copy>>

Empty == [k \in Keys |-> [cli |-> None, legacy |-> None, beat |-> None, sentAt |-> 0]]

\* An entry written by OpenClaw or an older version has the legacy field alone.
Init ==
    /\ day = 0
    /\ \E id \in Ids \union {None} : file = [Empty EXCEPT !["main"].legacy = id]
    /\ flock = None
    /\ pc = [p \in Procs |-> "free"]
    /\ job = [p \in Procs |-> None]
    /\ copy = [p \in Procs |-> Empty]

\* SessionEntry::get_cli_session_id
CliSessionId(e) == IF e.cli # None THEN e.cli ELSE e.legacy

\* is_duplicate_heartbeat: the same text, less than a day ago.
IsDuplicate(e, text) == e.beat = text /\ e.sentAt = day

\* set_cli_session_id, record_heartbeat
Changed(e, j) ==
    IF j[1] = "main"
    THEN [e EXCEPT !.cli = j[2], !.legacy = j[2]]
    ELSE [e EXCEPT !.beat = j[2], !.sentAt = day]

Free(p) ==
    /\ pc' = [pc EXCEPT ![p] = "free"]
    /\ job' = [job EXCEPT ![p] = None]
    /\ copy' = [copy EXCEPT ![p] = Empty]

Goto(p, s) == pc' = [pc EXCEPT ![p] = s]

\* load_for_agent, without the lock.  save_cli_session_to_store goes on to the
\* update; the heartbeat does so unless the alert is a duplicate of what it
\* loaded.
Load(p) ==
    /\ pc[p] = "free"
    /\ \E j \in Jobs :
        IF j[1] = "heartbeat" /\ IsDuplicate(file["heartbeat"], j[2])
        THEN UNCHANGED <<pc, job, copy>>
        ELSE /\ copy' = [copy EXCEPT ![p] = file]
             /\ job' = [job EXCEPT ![p] = j]
             /\ Goto(p, "lock")
    /\ UNCHANGED <<day, file, flock>>

\* load_and_update: lock_exclusive() waits for the lock.
Lock(p) ==
    /\ pc[p] = "lock" /\ flock = None
    /\ flock' = p
    /\ Goto(p, "read")
    /\ UNCHANGED <<day, file, job, copy>>

\* Mutant: the copy from before the lock is used.
ReadKeepsCopy(p) ==
    /\ pc[p] = "read"
    /\ Goto(p, "write")
    /\ UNCHANGED <<day, file, flock, job, copy>>

Read(p) ==
    /\ pc[p] = "read"
    /\ copy' = [copy EXCEPT ![p] = file]
    /\ Goto(p, "write")
    /\ UNCHANGED <<day, file, flock, job>>

\* The entry is changed, and save() writes the temporary file, whose name no
\* other process uses.
Write(p) ==
    /\ pc[p] = "write"
    /\ copy' = [copy EXCEPT ![p][job[p][1]] = Changed(@, job[p])]
    /\ Goto(p, "rename")
    /\ UNCHANGED <<day, file, flock, job>>

Rename(p) ==
    /\ pc[p] = "rename"
    /\ file' = copy[p]
    /\ Goto(p, "unlock")
    /\ UNCHANGED <<day, flock, job, copy>>

\* A read, a write or the rename fails: the lock is released all the same.
Fails(p) ==
    /\ pc[p] \in {"read", "write", "rename"}
    /\ Goto(p, "unlock")
    /\ UNCHANGED <<day, file, flock, job, copy>>

Unlock(p) ==
    /\ pc[p] = "unlock"
    /\ flock' = None
    /\ Free(p)
    /\ UNCHANGED <<day, file>>

\* The process dies; the system releases its lock.
Crash(p) ==
    /\ pc[p] # "free"
    /\ flock' = IF flock = p THEN None ELSE flock
    /\ Free(p)
    /\ UNCHANGED <<day, file>>

Day ==
    /\ day < MaxDays
    /\ day' = day + 1
    /\ UNCHANGED <<file, flock, pc, job, copy>>

Next ==
    \/ \E p \in Procs :
        \/ Load(p) \/ Lock(p) \/ Read(p) \/ Write(p) \/ Rename(p) \/ Fails(p) \/ Unlock(p)
        \/ Crash(p)
    \/ Day

Spec == Init /\ [][Next]_vars

(***************************************************************************)
(* Properties                                                              *)
(***************************************************************************)
Record == INSTANCE SessionRecord WITH
            Keys <- Keys,
            Entries <- Entries,
            table <- file

\* sessions.json is a table that changes one entry at a time: an update of a
\* process never takes back what another one did to another entry since the
\* first one loaded the file, whoever dies or fails on the way.
KeepsOthers == Record!Spec
=============================================================================
