------------------------------ MODULE Settings ------------------------------
(***************************************************************************)
(* The settings of the application.  load_settings reads the env file of a *)
(* profile, then the env files of the components, then the environment of  *)
(* the process, each over the one before, and converts what it reads: a    *)
(* flag or a number that does not parse ends the start with ValueError.    *)
(*                                                                         *)
(* Only the keys that decide whether and with which parts the application  *)
(* starts are kept.  A raw value is a word; where a number is expected, it *)
(* is the number it reads as, or Invalid.                                  *)
(***************************************************************************)
CONSTANTS
  Missing,  \* a key that no source gives
  Invalid   \* load_settings raised

Key == {"embedding", "embedding_key", "generation", "generation_provider",
        "ner", "max_per_user"}

\* A later source wins, key by key.
Over(low, high) ==
  [k \in Key |-> IF high[k] = Missing THEN low[k] ELSE high[k]]

Layered(profile, components, environ) == Over(Over(profile, components), environ)

GetValue(values, key, default) ==
  IF values[key] = Missing THEN default ELSE values[key]

TrueWords == {"1", "true", "yes", "on"}
FalseWords == {"0", "false", "no", "off"}

LoadSettings(values) ==
  LET flag == GetValue(values, "generation", "false")
      limit == GetValue(values, "max_per_user", 5)
  IN  IF flag \notin TrueWords \cup FalseWords \/ limit = Invalid
      THEN Invalid
      ELSE [embedding |-> GetValue(values, "embedding", "local"),
            embeddingKey |-> GetValue(values, "embedding_key", ""),
            generation |-> flag \in TrueWords,
            generationProvider |-> GetValue(values, "generation_provider", "openrouter"),
            ner |-> GetValue(values, "ner", "disabled"),
            maxPerUser |-> limit]

\* The names the two factories know, and the providers that need a key.
LocalEmbedding == {"local", "sentence_transformer", "sentence-transformer"}
OpenAIEmbedding == {"openai", "remote", "openai_compatible"}
Generators == {"openrouter", "openai_compatible", "openai-compatible", "openai"}

\* EmbeddingProviderFactory.create and the constructors it calls do not raise.
\* OpenRouter wants a key of its own form, here the key "sk-or-".
EmbeddingCreated(s) ==
  \/ s.embedding \in LocalEmbedding
  \/ s.embedding = "openrouter" /\ s.embeddingKey = "sk-or-"
  \/ s.embedding \in OpenAIEmbedding /\ s.embeddingKey # ""

\* _build_llm_provider: none, or one that the factory knows.
GeneratorCreated(s) == s.generation => s.generationProvider \in Generators
=============================================================================
