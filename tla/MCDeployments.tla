----------------------------- MODULE MCDeployments -----------------------------
(* Two manifests and two providers for a deployment of two groups.            *)
EXTENDS Deployments, TLC

Symmetry == Permutations(Manifests) \cup Permutations(Providers) \cup Permutations(Groups)
==============================================================================
