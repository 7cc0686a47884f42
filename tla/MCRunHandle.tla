----------------------------- MODULE MCRunHandle -----------------------------
(* Model-checking instances of RunHandle.                                  *)
EXTENDS RunHandle

AllBackends == {"ai-sdk", "claude-code", "codex", "cursor", "mock"}
Codex == {"codex"}
=============================================================================
