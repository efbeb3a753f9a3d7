--------------------------- MODULE MCDiscoveryRun ---------------------------
(* Model-checking instance of DiscoveryRun: clients and jobs are interchangeable. *)
EXTENDS DiscoveryRun, TLC

Symmetry == Permutations(Clients) \cup Permutations(JobIds)
==============================================================================
