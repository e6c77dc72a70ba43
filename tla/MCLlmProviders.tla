---------------------------- MODULE MCLlmProviders ----------------------------
(***************************************************************************)
(* LlmProviders for TLC: OpenRouter with a limit per minute and two free   *)
(* models, one of which is dead, Gemini with a limit per day, reserved for *)
(* calls of high priority, and Ollama, in the order of config/settings.yaml*)
(* and with two callers.                                                   *)
(***************************************************************************)
EXTENDS LlmProviders, TLC

CONSTANTS k1, k2

Callers == Permutations({k1, k2})

MCChain == <<"openrouter", "gemini", "ollama">>

MCDailyLimit == [p \in {"openrouter", "gemini"} |-> IF p = "gemini" THEN 1 ELSE 0]
MCPerMinute == [p \in {"openrouter", "gemini"} |-> IF p = "gemini" THEN 0 ELSE 1]
=============================================================================
