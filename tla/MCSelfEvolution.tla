-------------------------- MODULE MCSelfEvolution --------------------------
(* Small instance of SelfEvolution.                                        *)
EXTENDS SelfEvolution, TLC

CONSTANTS w1, w2, w3, plain, secret

WorkerSymmetry == Permutations(Workers)
=============================================================================
