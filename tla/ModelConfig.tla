----------------------------- MODULE ModelConfig -----------------------------
(***************************************************************************)
(* Which model a name stands for: the [models] table with its inheritance  *)
(* (config/models.rs), the provider that is created for an entry, and the  *)
(* errors after which the next model may be tried (agent/client.rs,        *)
(* agent/providers.rs, agent/llm_error.rs).  No state: these are the       *)
(* functions ModelCalls uses.                                              *)
(*                                                                         *)
(* A wire name is kept as what the code looks at: the part before the "/"  *)
(* and how the rest begins.  Glob patterns for statuses are the sets of    *)
(* statuses they match.                                                    *)
(***************************************************************************)
EXTENDS Naturals, Sequences, FiniteSets, SequencesExt

CONSTANTS
    Site,       \* the [providers] section: which are configured, and extra ones
    None        \* Rust's None

Kinds == {"openai", "anthropic", "ollama", "claude-cli"}

\* Fields that a child takes from its parent unless it sets them itself.
Inherited == {"provider", "key", "fallbacks", "settings"}

\* ModelConfig::default() with a wire name: what resolve_config makes of a name
\* that is no key of the table.
Plain(m) == [provider |-> None, key |-> None, model |-> m, extend |-> None,
             fallbacks |-> None, settings |-> None]

(***************************************************************************)
(* resolve_model_config                                                    *)
(***************************************************************************)
\* A turn of the loop that follows "extend".  It keeps the entries met so far
\* (nearest first) and the key to look up next; the walk is "ok" once an entry has
\* no parent, an "error" at a key that is not in the table or was visited before.
Follow(models, w) ==
    IF w.status # "walk" THEN w
    ELSE IF w.at \notin DOMAIN models THEN [w EXCEPT !.status = "error"]
    ELSE LET c == models[w.at]
             seen == Append(w.chain, c)
         IN  IF c.extend = None
             THEN [w EXCEPT !.chain = seen, !.status = "ok"]
             ELSE IF c.extend \in w.visited
             THEN [w EXCEPT !.chain = seen, !.status = "error"]
             ELSE [w EXCEPT !.chain = seen, !.at = c.extend,
                            !.visited = @ \union {c.extend}]

\* The loop.  No walk takes more turns than the table has keys, and one.
Walk(models, k) ==
    LET last == Cardinality(DOMAIN models) + 1
        walk[n \in 0..last] ==
            IF n = 0
            THEN [chain |-> <<>>, at |-> k, visited |-> {k}, status |-> "walk"]
            ELSE Follow(models, walk[n - 1])
    IN  walk[last]

\* Mutant: a field the parent sets is kept.
MergeParentWins(parent, child) ==
    [f \in DOMAIN parent |->
        IF f = "model" THEN child.model
        ELSE IF f \in Inherited /\ parent[f] = None THEN child[f]
        ELSE parent[f]]

\* One step of the merge, from parent to child: what the child sets overrides,
\* and the wire name is always the child's.
Merge(parent, child) ==
    [f \in DOMAIN parent |->
        IF f = "model" THEN child.model
        ELSE IF f \in Inherited /\ child[f] # None THEN child[f]
        ELSE parent[f]]

\* The whole of it, merged from the farthest ancestor on; None stands for Err.
ResolveModelConfig(models, k) ==
    LET w == Walk(models, k)
        chain == Reverse(w.chain)
        merged[n \in 1..Len(chain)] ==
            IF n = 1 THEN chain[1] ELSE Merge(merged[n - 1], chain[n])
    IN  IF w.status = "ok" THEN merged[Len(chain)] ELSE None

\* SmartClient::resolve_config.  "wire" says what name a string is when it is
\* not a key.
ResolveConfig(models, wire, alias) ==
    IF alias \in DOMAIN models
    THEN ResolveModelConfig(models, alias)
    ELSE Plain(wire)

(***************************************************************************)
(* create_provider_from_config and the older create_provider               *)
(***************************************************************************)
\* parse_provider_model
ParseProviderModel(m) ==
    IF m.slash # None THEN m.slash
    ELSE CASE m.starts = "gpt-"    -> "openai"
           [] m.starts = "claude-" -> "anthropic"
           [] OTHER                -> "unknown"

\* resolve_model_alias: the short names.
ResolveModelAlias(m) ==
    CASE m.slash = None /\ m.starts = "opus" -> [slash |-> "anthropic", starts |-> "claude-"]
      [] m.slash = None /\ m.starts = "gpt"  -> [slash |-> "openai", starts |-> "gpt-"]
      [] OTHER -> m

\* create_provider: a name without a provider goes to Ollama when that is
\* configured, else to Anthropic; an unknown provider goes to the Claude CLI
\* when that is configured.
CreateProvider(name) ==
    LET m == ResolveModelAlias(name)
        p == IF ParseProviderModel(m) # "unknown" THEN ParseProviderModel(m)
             ELSE IF "ollama" \in Site.configured THEN "ollama"
             ELSE IF "anthropic" \in Site.configured THEN "anthropic"
             ELSE "unknown"
    IN  CASE p \in {"openai", "anthropic", "ollama"} ->
                IF p \in Site.configured THEN p ELSE "error"
          [] p = "claude-cli" -> p
          [] OTHER -> IF "claude-cli" \in Site.configured THEN "claude-cli" ELSE "error"

\* create_provider_from_config: the kind of provider made for entry c, "error"
\* when there is no API key for it.  Extra providers speak OpenAI's protocol.
CreateProviderFromConfig(c) ==
    LET p == IF c.provider # None THEN c.provider ELSE ParseProviderModel(c.model)
        keyed(default) == IF c.key # None THEN c.key = "set" ELSE default
    IN  CASE p \in {"openai", "anthropic"} ->
                IF keyed(p \in Site.configured) THEN p ELSE "error"
          [] p \in {"ollama", "claude-cli"} -> p
          [] p \in Site.extra -> IF keyed(p \in Site.extraKeys) THEN "openai" ELSE "error"
          [] OTHER -> CreateProvider(c.model)

(***************************************************************************)
(* Candidates, and check_fallback_allowed                                  *)
(***************************************************************************)
\* The models a call tries: the primary, then the ones its entry names.  The
\* fallbacks of a fallback are not followed.
Candidates(models, wire, alias) ==
    LET c == ResolveConfig(models, wire, alias)
    IN  IF c = None THEN <<alias>>
        ELSE IF c.fallbacks = None THEN <<alias>>
        ELSE <<alias>> \o c.fallbacks

\* LlmError::status_code, "500" for an error without one.  In the text of an error
\* of another type the first word of three digits is taken for a status.
StatusOf(err) ==
    CASE err = "rate_limit" -> "429"
      [] err \in {"400", "503"} -> err
      [] err = "text_503" -> "503"
      [] err \in {"context", "transport"} -> "500"

\* check_fallback_allowed, with the settings of the model that failed.
FallbackAllowed(err, c) ==
    \/ c.settings = None
    \/ StatusOf(err) \in c.settings.allow
    \/ /\ StatusOf(err) \notin c.settings.deny
       /\ c.settings.default = "allow"
=============================================================================
