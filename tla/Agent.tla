------------------------------- MODULE Agent -------------------------------
(***************************************************************************)
(* Three components an agent relies on, each with variables of its own:    *)
(*   McpManager (extended), ModelCalls and MemoryIndex,                    *)
(* and what is stated of the last two.                                     *)
(***************************************************************************)
EXTENDS McpManager, ModelConfig

CONSTANTS
    Cases, Alias, WireOf, MaxPieces, MaxToolCalls, MaxNotes,    \* of ModelCalls
    Paths, Contents, WatcherSize, ManagerSize, HasVec,          \* of MemoryIndex
    MaxEdits, MaxReindex, MaxEmbed, MaxFailed

\* A text is the sequence of its lines.
ASSUME ContentsAssumption == Contents \subseteq Seq(Nat) /\ None \notin Contents

\* None is no error.
ASSUME ErrorsAssumption ==
    None \notin {"rate_limit", "context", "400", "503", "transport", "text_503"}

\* A table of models has keys and complete entries; None is no key.
ASSUME TablesAssumption ==
    \A c \in Cases :
        /\ IsFiniteSet(DOMAIN c.models) /\ None \notin DOMAIN c.models
        /\ \A k \in DOMAIN c.models : DOMAIN c.models[k] = DOMAIN Plain(None)

\* Calls are counted in numbers.  None is no number, no list of calls, and no event that
\* has arrived in part.
ASSUME StreamAssumption ==
    /\ MaxToolCalls \in Nat
    /\ None \notin Nat
    /\ None \notin Seq([id : Nat, args : Seq(Int)])
    /\ LET names == {"text", "message", "head", "args", "stop", "note", "done", "error"}
           sent == [e : names] \union [e : names, p : Nat] \union [e : names, c : Nat]
                      \union [e : names, c : Nat, p : Nat]
       IN  None \notin [ev : sent, garbled : BOOLEAN]

VARIABLES
    models, mode, history, todo, asked, callPc, kind, request, quirk, said, buffer,
    builder, full, result,
    disk, edits, events, files, chunks, fts, vec, cache, failed, gen, workerPc, path, read,
    stale, paths, force, runs, quiet, epc, batch, embeds

callVars == <<models, mode, history, todo, asked, callPc, kind, request, quirk, said, buffer,
              builder, full, result>>
memoryVars == <<disk, edits, events, files, chunks, fts, vec, cache, failed, gen, workerPc, path,
                read, stale, paths, force, runs, quiet, epc, batch, embeds>>

Calls == INSTANCE ModelCalls WITH pc <- callPc, MaxCalls <- MaxToolCalls

Memory == INSTANCE MemoryIndex WITH
    pc <- workerPc, todo <- paths, Config <- WatcherSize, Default <- ManagerSize

\* What is passed on as a whole answer is one (ModelCalls).
DoneMeansWhole == Calls!DoneMeansWhole

\* A fallback is asked only for an error that allows it (ModelCalls).
FallbackSound == Calls!FallbackSound

\* Inheritance gives the nearest setting (ModelCalls, ModelConfig).
ResolveIsNearest == Calls!ResolveIsNearest

\* The system prompt is among what is sent (ModelCalls).
SystemPromptSent == Calls!SystemPromptSent

\* The tables of the index agree with each other (MemoryIndex).
IndexSound == Memory!IndexSound

\* A reindex that nobody disturbs makes the index that of the disk (MemoryIndex).
ReindexRestores == Memory!ReindexRestores
=============================================================================
