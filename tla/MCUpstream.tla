----------------------------- MODULE MCUpstream -----------------------------
(***************************************************************************)
(* Upstream with small sets for TLC: see MCUpstream.cfg.                    *)
(***************************************************************************)
EXTENDS Upstream, TLC

\* Safety does not tell requests or accounts apart.  Not for liveness.
Symmetric == Permutations(Requests) \cup Permutations(Members)

\* The replaces are of one account, and may overlap: of the others each has a
\* manager of its own, that no replace of this one reaches.
ReplacesOfOne == \A m, n \in Members : m # n => issued[m] = 0 \/ issued[n] = 0
=============================================================================
