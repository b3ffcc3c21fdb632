----------------------------- MODULE MCPipeline -----------------------------
(* A small proxy: two keys, and one request more than the slots.             *)
EXTENDS Pipeline, TLC

CONSTANTS r1, r2, m, k1, k2

MCRequests == {r1, r2, m}
MCDiscoveries == {m}
MCKeys == {k1, k2}

\* Requests and keys are interchangeable; only the safety run uses this.
Symmetry == Permutations({r1, r2}) \cup Permutations(MCKeys)
=============================================================================
