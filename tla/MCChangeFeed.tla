---------------------------- MODULE MCChangeFeed ----------------------------
(* Instances of ChangeFeed for TLC. Safety does not depend on Drainer, which only *)
(* fairness names, so the sequencers are interchangeable there.                   *)
EXTENDS ChangeFeed, TLC

CONSTANTS t1, t2, t3, e1, e2, ingest, drain, c1

Symmetric == Permutations(Txs) \cup Permutations(Entities) \cup Permutations(Sequencers)
=============================================================================
