------------------------------ MODULE MCAgent ------------------------------
(***************************************************************************)
(* The three components of Agent, checked in one run.  They share no       *)
(* state: a behaviour is one of one of them (part), and the others stay as *)
(* they are.                                                               *)
(*   mcp     McpManager: two callers and the health check, and servers     *)
(*           that are started twice                                        *)
(*   calls   ModelCalls on the tables of ModelTables                       *)
(*   memory  MemoryIndex: two files whose texts have one and three lines,  *)
(*           with one line of overlap for the watcher and, for the         *)
(*           manager, an overlap longer than a chunk                       *)
(***************************************************************************)
EXTENDS Agent, ModelTables

CONSTANT
    Parts       \* the components whose behaviours are explored

VARIABLE part

Texts == {<<3, 3, 3>>, <<1>>}
OneLine == [target |-> 6, overlap |-> 3]
Long == [target |-> 4, overlap |-> 5]

\* The call that is not made in a behaviour of another component.
NoCall == CHOOSE c \in Cases : DOMAIN c.models = {}

MCInit ==
    /\ part \in Parts
    /\ Init /\ Memory!Init /\ Calls!Init
    /\ part # "calls" => models = NoCall.models /\ mode = NoCall.mode /\ history = NoCall.history

MCNext ==
    \/ part = "mcp" /\ Next /\ UNCHANGED <<part, callVars, memoryVars>>
    \/ part = "calls" /\ Calls!Next /\ UNCHANGED <<part, vars, memoryVars>>
    \/ part = "memory" /\ Memory!Next /\ UNCHANGED <<part, vars, callVars>>

MCSpec == MCInit /\ [][MCNext]_<<part, vars, callVars, memoryVars>>

\* The callers of the MCP manager differ in nothing.
Symmetry == Permutations(Callers)
=============================================================================
