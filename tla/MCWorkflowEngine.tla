-------------------------- MODULE MCWorkflowEngine --------------------------
(* Model checking of WorkflowEngine: patent ids are interchangeable.       *)
EXTENDS WorkflowEngine, TLC

CONSTANTS k1, k2, k3, k4, p1, p2

IdSymmetry == Permutations(Ids)
=============================================================================
