----------------------------- MODULE MemoryIndex -----------------------------
(***************************************************************************)
(* The memory index (memory/index.rs, memory/mod.rs, memory/watcher.rs):   *)
(* the markdown files of the workspace, cut into chunks, in an SQLite      *)
(* database.  The watcher indexes a file when it changes; a reindex goes   *)
(* over all of them; a third task gives the chunks their embeddings.       *)
(*                                                                         *)
(* A file is read before the transaction that indexes it begins.  The      *)
(* transaction is deferred: it takes its snapshot with its first SELECT    *)
(* and fails at its first write if another connection has committed since. *)
(*                                                                         *)
(* The content of a file is the sequence of its lines' lengths; its hash   *)
(* is the content, and so is the embedding of a chunk its text.            *)
(***************************************************************************)
EXTENDS Naturals, Sequences, FiniteSets, SequencesExt

CONSTANTS
    Paths,          \* markdown files
    Contents,       \* what is written to them
    Config,         \* target and overlap of a chunk, in characters, of the watcher
    Default,        \* ... and of MemoryManager, which keeps to 400 and 80 tokens
    HasVec,         \* the sqlite-vec extension is there
    MaxEdits,       \* bound: changes of files
    MaxReindex,     \* bound: reindexes
    MaxEmbed,       \* bound: batches of embeddings
    MaxFailed,      \* bound: rows of chunks_fts with a write that failed
    None            \* no file, no embedding

Workers == {"watcher", "reindex"}

VARIABLES
    disk,       \* the content of each file, or None
    edits,      \* changes made
    events,     \* paths in the watcher's channel
    files,      \* table files: the hash of each path, or None
    chunks,     \* table chunks
    fts,        \* ids in table chunks_fts
    vec,        \* ids in table chunks_vec
    cache,      \* table embedding_cache: texts
    failed,     \* ids with a write to chunks_fts that failed
    gen,        \* transactions that inserted chunks: their ids are new
    pc,         \* where each worker is
    path,       \* the file it is at
    read,       \* what it has read of it
    stale,      \* somebody committed since its snapshot
    todo,       \* the paths the reindex has still to go to
    force,      \* reindex(force)
    runs,       \* reindexes begun
    quiet,      \* nothing else has happened since the reindex began
    epc, batch, embeds  \* generate_embeddings: where it is, its chunks, batches

db == <<files, chunks, fts, vec, cache, failed, gen>>
ws == <<pc, path, read, stale, todo, force, runs, quiet>>
embedder == <<epc, batch, embeds>>
vars == <<disk, edits, events, db, ws, embedder>>

Init ==
    /\ disk = [p \in Paths |-> None] /\ edits = 0 /\ events = <<>>
    /\ files = [p \in Paths |-> None] /\ chunks = {} /\ fts = {} /\ vec = {} /\ cache = {}
    /\ failed = {} /\ gen = 0
    /\ pc = [w \in Workers |-> "idle"]
    /\ path = [w \in Workers |-> None]
    /\ read = [w \in Workers |-> None]
    /\ stale = [w \in Workers |-> FALSE]
    /\ todo = {} /\ force = FALSE /\ runs = 0 /\ quiet = FALSE
    /\ epc = "idle" /\ batch = {} /\ embeds = 0

-----------------------------------------------------------------------------
(* chunk_text                                                              *)

Chars(text, i, j) == FoldLeft(LAMBDA n, len : n + len + 1, 0, SubSeq(text, i, j))

\* Mutant: what is kept for the next chunk begins a line too late.
NextStartLate(text, i, j, overlap) ==
    LET keep == {k \in i..j : Chars(text, k, j) >= overlap}
    IN  IF keep = {} THEN j + 2 ELSE 1 + CHOOSE k \in keep : \A l \in keep : l <= k

\* The next chunk starts with the last lines of this one, i to j, that make up
\* the overlap, if there are as many.
NextStart(text, i, j, overlap) ==
    LET keep == {k \in i..j : Chars(text, k, j) >= overlap}
    IN  IF keep = {} THEN j + 1 ELSE CHOOSE k \in keep : \A l \in keep : l <= k

\* A chunk that began with line i ends with line j: it is long enough, or j is the
\* last line.
Full(text, c, i, j) == Chars(text, i, j) >= c.target \/ j = Len(text)

\* The first line of the chunk that is being filled, at each line.
Starts(text, c) ==
    LET start[j \in 1..Len(text)] ==
            CASE j = 1 -> 1
              [] j > 1 /\ Full(text, c, start[j - 1], j - 1)
                   -> NextStart(text, start[j - 1], j - 1, c.overlap)
              [] OTHER -> start[j - 1]
    IN  start

\* The first and the last line of each chunk.
ChunkText(text, c) ==
    LET start == Starts(text, c)
    IN  {<<start[j], j>> : j \in {k \in 1..Len(text) : Full(text, c, start[k], k)}}

-----------------------------------------------------------------------------
(* Transactions                                                            *)

\* A chunk's id is drawn anew: no two chunks have the same.
Id(c) == <<c.gen, c.from, c.to>>
Others(w) == [v \in Workers |-> stale[v] \/ (v # w /\ pc[v] = "checked")]

\* delete_chunks_for_path: the chunks that go, with their rows elsewhere.
DeleteChunks(p) == {c \in chunks : c.path = p}

\* The rows of chunks_fts and chunks_vec are deleted and inserted one by one,
\* and the error of each of these statements is discarded: the transaction goes on
\* without it and commits.
WriteRows(gone, added) ==
    \E bad \in SUBSET (gone \union added), kept \in SUBSET (gone \intersect vec) :
        /\ Cardinality(failed \union bad) <= MaxFailed
        /\ failed' = failed \union bad
        /\ fts' = (fts \ (gone \ bad)) \union (added \ bad)
        /\ vec' = vec \ (gone \ kept)

\* index_file, from the record of the file to the commit.
CommitFile(p, text, config) ==
    LET old == DeleteChunks(p)
        new == {[gen |-> gen + 1, from |-> l[1], to |-> l[2], path |-> p, of |-> text, emb |-> None]
                    : l \in ChunkText(text, config)}
    IN  /\ files' = [files EXCEPT ![p] = text]
        /\ chunks' = (chunks \ old) \union new
        /\ WriteRows({Id(c) : c \in old}, {Id(c) : c \in new})
        /\ gen' = gen + 1
        /\ UNCHANGED cache

\* remove_file
CommitRemove(p) ==
    LET old == DeleteChunks(p)
    IN  /\ files' = [files EXCEPT ![p] = None]
        /\ chunks' = chunks \ old
        /\ WriteRows({Id(c) : c \in old}, {})
        /\ UNCHANGED <<cache, gen>>

-----------------------------------------------------------------------------
(* The files                                                               *)

\* A file is written, and an event for it raised.
Edit(p) ==
    /\ edits < MaxEdits
    /\ edits' = edits + 1
    /\ \E text \in Contents : disk' = [disk EXCEPT ![p] = text]
    /\ events' = Append(events, p)
    /\ quiet' = FALSE
    /\ UNCHANGED <<db, pc, path, read, stale, todo, force, runs, embedder>>

\* A file is deleted: the watcher ignores such an event.
Delete(p) ==
    /\ edits < MaxEdits /\ disk[p] # None
    /\ edits' = edits + 1
    /\ disk' = [disk EXCEPT ![p] = None]
    /\ quiet' = FALSE
    /\ UNCHANGED <<events, db, pc, path, read, stale, todo, force, runs, embedder>>

-----------------------------------------------------------------------------
(* The watcher and the reindex                                             *)

\* The watcher receives an event.
WatchNext ==
    /\ pc["watcher"] = "idle" /\ events # <<>>
    /\ events' = Tail(events)
    /\ path' = [path EXCEPT !["watcher"] = Head(events)]
    /\ pc' = [pc EXCEPT !["watcher"] = "read"]
    /\ quiet' = FALSE
    /\ UNCHANGED <<disk, edits, db, read, stale, todo, force, runs, embedder>>

\* Mutant: the index is not cleaned of files that have gone.
ReindexBeginNoCleanup ==
    /\ pc["reindex"] = "idle" /\ runs < MaxReindex
    /\ runs' = runs + 1
    /\ force' \in BOOLEAN
    /\ todo' = {}
    /\ pc' = [pc EXCEPT !["reindex"] = "clean"]
    /\ quiet' = (pc["watcher"] = "idle")
    /\ UNCHANGED <<disk, edits, events, db, path, read, stale, embedder>>

\* reindex: cleanup_deleted_files lists the paths of the index.
ReindexBegin ==
    /\ pc["reindex"] = "idle" /\ runs < MaxReindex
    /\ runs' = runs + 1
    /\ force' \in BOOLEAN
    /\ todo' = {p \in Paths : files[p] # None}
    /\ pc' = [pc EXCEPT !["reindex"] = "clean"]
    /\ quiet' = (pc["watcher"] = "idle")
    /\ UNCHANGED <<disk, edits, events, db, path, read, stale, embedder>>

\* A path that is no longer on disk is removed.  remove_file selects before it
\* deletes as well.
CleanNext(p) ==
    /\ pc["reindex"] = "clean" /\ p \in todo
    /\ todo' = todo \ {p}
    /\ IF disk[p] = None
       THEN /\ pc' = [pc EXCEPT !["reindex"] = "checked"]
            /\ path' = [path EXCEPT !["reindex"] = p]
            /\ read' = [read EXCEPT !["reindex"] = None]
       ELSE UNCHANGED <<pc, path, read>>
    /\ UNCHANGED <<disk, edits, events, db, stale, force, runs, quiet, embedder>>

CleanEnd ==
    /\ pc["reindex"] = "clean" /\ todo = {}
    /\ todo' = Paths
    /\ pc' = [pc EXCEPT !["reindex"] = "index"]
    /\ UNCHANGED <<disk, edits, events, db, path, read, stale, force, runs, quiet, embedder>>

\* Every file the glob finds is indexed.
IndexNext(p) ==
    /\ pc["reindex"] = "index" /\ p \in todo
    /\ todo' = todo \ {p}
    /\ IF disk[p] # None
       THEN /\ pc' = [pc EXCEPT !["reindex"] = "read"]
            /\ path' = [path EXCEPT !["reindex"] = p]
       ELSE UNCHANGED <<pc, path>>
    /\ UNCHANGED <<disk, edits, events, db, read, stale, force, runs, quiet, embedder>>

ReindexEnd ==
    /\ pc["reindex"] = "index" /\ todo = {}
    /\ pc' = [pc EXCEPT !["reindex"] = "idle"]
    /\ quiet' = FALSE
    /\ UNCHANGED <<disk, edits, events, db, path, read, stale, todo, force, runs, embedder>>

\* A worker is done with a file, and goes on to the next.
GoOn(w, next) ==
    /\ pc' = [pc EXCEPT ![w] = next]
    /\ path' = [path EXCEPT ![w] = None]
    /\ read' = [read EXCEPT ![w] = None]

After(w) == IF w = "watcher" THEN "idle" ELSE IF read[w] = None THEN "clean" ELSE "index"

\* index_file reads the file, which may have gone.
ReadFile(w) ==
    /\ pc[w] = "read" /\ disk[path[w]] # None
    /\ read' = [read EXCEPT ![w] = disk[path[w]]]
    /\ pc' = [pc EXCEPT ![w] = "loaded"]
    /\ UNCHANGED <<disk, edits, events, db, path, stale, todo, force, runs, quiet, embedder>>

\* The transaction begins with the check of the hash, which a forced reindex
\* leaves out.
Unchanged(w) == ~(w = "reindex" /\ force) /\ files[path[w]] = read[w]

Check(w) ==
    /\ pc[w] = "loaded"
    /\ IF Unchanged(w)
       THEN GoOn(w, After(w))
       ELSE pc' = [pc EXCEPT ![w] = "checked"] /\ UNCHANGED <<path, read>>
    /\ UNCHANGED <<disk, edits, events, db, stale, todo, force, runs, quiet, embedder>>

\* The writes and the commit.
Commit(w) ==
    /\ pc[w] = "checked"
    /\ ~stale[w] \/ (w = "reindex" /\ force /\ read[w] # None)
    /\ IF read[w] = None
       THEN CommitRemove(path[w])
       ELSE CommitFile(path[w], read[w], IF w = "watcher" THEN Config ELSE Default)
    /\ stale' = [Others(w) EXCEPT ![w] = FALSE]
    /\ GoOn(w, After(w))
    /\ UNCHANGED <<disk, edits, events, todo, force, runs, quiet, embedder>>

\* The file has gone, or the snapshot is stale: the watcher warns and goes on,
\* a reindex ends with the error.
IndexFails(w) ==
    /\ \/ pc[w] = "read" /\ disk[path[w]] = None
       \/ pc[w] = "checked" /\ stale[w]
    /\ GoOn(w, "idle")
    /\ stale' = [stale EXCEPT ![w] = FALSE]
    /\ todo' = IF w = "reindex" THEN {} ELSE todo
    /\ UNCHANGED <<disk, edits, events, db, force, runs, quiet, embedder>>

-----------------------------------------------------------------------------
(* generate_embeddings                                                     *)

\* chunks_without_embeddings: ids and texts of some.
EmbedFetch ==
    /\ epc = "idle" /\ embeds < MaxEmbed
    /\ embeds' = embeds + 1
    /\ \E c \in {d \in chunks : d.emb = None} : batch' = {c}
    /\ epc' = "store"
    /\ UNCHANGED <<disk, edits, events, db, ws>>

\* store_embedding: UPDATE ... WHERE id.
SetEmbedding(c) ==
    {IF Id(d) = Id(c) THEN [d EXCEPT !.emb = <<c.of, c.from, c.to>>] ELSE d : d \in chunks}

\* From the cache or from the provider: the chunk's row, if it is still there,
\* then the row in chunks_vec, then the cache.
EmbedStore(c) ==
    /\ epc = "store" /\ c \in batch
    /\ chunks' = SetEmbedding(c)
    /\ vec' = IF HasVec THEN vec \union {Id(c)} ELSE vec
    /\ cache' = cache \union {<<c.of, c.from, c.to>>}
    /\ batch' = batch \ {c}
    /\ stale' = Others("embedder")
    /\ UNCHANGED <<disk, edits, events, files, fts, failed, gen, pc, path, read, todo, force, runs,
                   quiet, epc, embeds>>

\* The batch is done, or the provider failed.
EmbedEnd ==
    /\ epc = "store"
    /\ epc' = "idle" /\ batch' = {}
    /\ UNCHANGED <<disk, edits, events, db, ws, embeds>>

Next ==
    \/ \E p \in Paths : Edit(p) \/ Delete(p) \/ CleanNext(p) \/ IndexNext(p)
    \/ WatchNext \/ ReindexBegin \/ CleanEnd \/ ReindexEnd
    \/ \E w \in Workers : ReadFile(w) \/ Check(w) \/ Commit(w) \/ IndexFails(w)
    \/ EmbedFetch \/ (\E c \in batch : EmbedStore(c)) \/ EmbedEnd

Spec == Init /\ [][Next]_vars

(***************************************************************************)
(* Properties                                                              *)
(***************************************************************************)
\* Whoever indexes a file while others index, remove or embed: the index holds,
\* of each file, chunks of one content alone, the one whose hash it records;
\* together they hold every line of it; the full text table differs from them in
\* no row but those whose own delete or insert failed and was passed over; and an
\* embedding belongs to the text of its chunk.
IndexSound ==
    /\ \A p \in Paths :
        LET rows == {c \in chunks : c.path = p}
        IN  /\ \A c \in rows : c.of = files[p]
            /\ files[p] # None =>
                  UNION {c.from..c.to : c \in rows} = 1..Len(files[p])
    /\ LET ids == {Id(c) : c \in chunks}
       IN  (fts \ ids) \union (ids \ fts) \subseteq failed
    /\ \A c \in chunks : c.emb # None => c.emb = <<c.of, c.from, c.to>>

\* A reindex that ends well, with no change of a file and no watcher at work
\* since it began, leaves the index equal to the disk, deleted files included.
ReindexRestores ==
    [][pc["reindex"] = "index" /\ todo = {} /\ quiet /\ pc'["reindex"] = "idle"
          => files' = disk']_vars
=============================================================================
