----------------------------- MODULE ModelTables -----------------------------
(***************************************************************************)
(* The model calls that are checked: tables of three keys.  In the first   *)
(* family the keys inherit from each other in every way, a cycle and a     *)
(* missing parent included; in the second the primary has fallbacks of     *)
(* every kind of provider.                                                 *)
(***************************************************************************)
EXTENDS ModelConfig

Gpt == [slash |-> None, starts |-> "gpt-"]
Claude == [slash |-> None, starts |-> "claude-"]
Llama == [slash |-> "ollama", starts |-> "other"]
Extra == [slash |-> "groq", starts |-> "other"]
Opus == [slash |-> None, starts |-> "opus"]
Odd == [slash |-> None, starts |-> "other"]

TableSite == [configured |-> {"openai", "claude-cli"}, extra |-> {"groq"}, extraKeys |-> {}]
TableWireOf == [k \in {"a", "b", "c", "gone"} |-> IF k = "gone" THEN Odd ELSE Gpt]

Strict == [allow |-> {"429"}, deny |-> {"500", "503"}, default |-> "allow"]
Denying == [allow |-> {}, deny |-> {}, default |-> "deny"]

Own == [a |-> "openai", b |-> "anthropic", c |-> "ollama"]

Families ==
    {[k \in {"a", "b", "c"} |->
        [Plain(IF k = "a" THEN Gpt ELSE Claude) EXCEPT
            !.extend = x[k], !.provider = IF k \in p THEN Own[k] ELSE None, !.fallbacks = IF k = "b" THEN f ELSE None]] :
        x \in [{"a", "b", "c"} -> {"a", "b", "c", "gone", None}],
        p \in SUBSET {"a", "b", "c"},
        f \in {None, <<"c">>}}

Entry(m, p, key, settings, fallbacks) ==
    [Plain(m) EXCEPT !.provider = p, !.key = key, !.settings = settings,
                     !.fallbacks = fallbacks]

Chains ==
    {[k \in {"a", "b", "c"} |->
        CASE k = "a" -> Entry(pa.m, pa.p, pa.key, s, <<"b", "gone">>)
          [] k = "b" -> Entry(Odd, pb, "set", IF s = None THEN None ELSE Denying, <<"c">>)
          [] k = "c" -> Entry(Gpt, "openai", None, None, None)] :
        pa \in {[m |-> Gpt, p |-> None, key |-> None],
                [m |-> Claude, p |-> "anthropic", key |-> "missing"],
                [m |-> Claude, p |-> "anthropic", key |-> "set"],
                [m |-> Extra, p |-> "groq", key |-> None],
                [m |-> Opus, p |-> None, key |-> None]},
        pb \in {"anthropic", "ollama", "claude-cli"},
        s \in {None, Strict, Denying}}

Prompt == <<[id |-> 1, role |-> "user"]>>
NewSession == <<[id |-> 1, role |-> "system"], [id |-> 2, role |-> "user"]>>
Compacted == <<[id |-> 1, role |-> "system"], [id |-> 2, role |-> "system"],
               [id |-> 3, role |-> "user"], [id |-> 4, role |-> "tool"]>>

\* Streams: every kind of provider as the fallback of OpenAI.
Streamed ==
    {c \in Chains : /\ c["a"].model = Gpt
                    /\ c["a"].settings = (IF c["b"].provider = "ollama" THEN Strict ELSE None)}

\* No [models] section: the name is a wire name.
NoTable == [k \in {} |-> Plain(Gpt)]

TableCases ==
    [models : {NoTable}, mode : {"summarize"}, history : {Prompt}] \union
        [models : Families, mode : {"summarize"}, history : {Prompt}]
        \union [models : Chains, mode : {"chat"}, history : {NewSession, Compacted}]
        \union [models : Streamed, mode : {"stream"}, history : {NewSession}]
=============================================================================
