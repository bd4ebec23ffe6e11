------------------------- MODULE MCLlmConfigurations -------------------------
(* A small instance of LlmConfigurations for TLC. *)
EXTENDS LlmConfigurations, TLC

CONSTANTS ollama, gemini, groq,         \* providers
          qwen3b, flash, pro, llama     \* their models

MCProviderOf == qwen3b :> ollama @@ flash :> gemini @@ pro :> gemini @@ llama :> groq

Symmetry == Permutations(Requests) \cup Permutations(Secrets)
                \cup Permutations(Configurations)
=============================================================================
