------------------------- MODULE MCAppendOnlyBound -------------------------
(***************************************************************************)
(* AppendOnlyPolicy against a model's context window.                      *)
(***************************************************************************)
EXTENDS AppendOnlyPolicy

CONSTANT MaxModelLen    \* max_model_len: tokens one request may hold

\* bench/tasks/probes.py:9-11 and experiments/phase3_agreement.py:61-66: a
\* compacted context "stays bounded by construction (the threshold ...), so it
\* can always be replayed ... without hitting max_model_len".
CompactedContextFits == PromptLen(context) <= MaxModelLen
=============================================================================
