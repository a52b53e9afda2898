----------------------------- MODULE MCLlmCalls -----------------------------
(* Two callers with up to two calls each; three settings of which two share *)
(* a model (a rotated key) and one has no embedding endpoint.               *)
EXTENDS LlmCalls, TLC

CONSTANTS c1, c2, small, large, original, rotated, other

MCModelOf == (original :> small) @@ (rotated :> small) @@ (other :> large)
MCCallsOf == (c1 :> 2) @@ (c2 :> 1)
MCKindsOf == (c1 :> {"chat", "stream"}) @@ (c2 :> {"complete", "embed"})
=============================================================================
